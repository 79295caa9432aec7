---------------------------- MODULE FsEventsProofs ----------------------------
(***************************************************************************)
(* When a file event is handed over: never before its file was quiet for   *)
(* the gap, and, once connected, by the first iteration after a bound that *)
(* the ping timer sets; for every gap, interval and duration of callbacks. *)
(***************************************************************************)
EXTENDS FsEvents, TLAPS

-----------------------------------------------------------------------------
(***************************************************************************)
(* The invariant.                                                          *)
(***************************************************************************)

\* uv_now() was stale by Work at most when the entry was stamped with it: what
\* the entry's age and the clock's lag now add up to, the file was quiet.
AgeIsQuiet ==
  \A k \in pending : quiet[k] = Horizon \/ age[k] + lag <= quiet[k] + Work

\* The check handle has left no entry that is due when the loop goes to poll.
NothingDue == phase = "poll" => \A k \in pending : age[k] <= Gap

\* The ping timer runs from the first connection on, and is never slowed.
PingRuns == ~pingFailed /\ (conn \in {"up", "lost"} => ping # Off)

FsEventsInv == TypeOK /\ AgeIsQuiet /\ NothingDue /\ PingRuns

-----------------------------------------------------------------------------
(***************************************************************************)
(* Time.                                                                   *)
(***************************************************************************)

LEMMA Times ==
  /\ Gap \in Nat /\ Interval \in Nat \ {0} /\ Work \in Nat /\ MaxSleep \in Nat
  /\ Horizon \in Nat /\ Horizon > Gap + Interval + Work
BY GapAssumption, SleepAssumption, HorizonAssumption

\* A saturated sum is the sum or the horizon, and no more than the sum.
LEMMA SaturatedSum ==
  ASSUME NEW a \in Ages, NEW d \in Nat
  PROVE  /\ Saturated(a + d) \in Ages
         /\ Saturated(a + d) = Horizon \/ Saturated(a + d) = a + d
         /\ Saturated(a + d) <= a + d
         /\ a = Horizon => Saturated(a + d) = Horizon
BY Times DEF Ages, Saturated

LEMMA PassedTime ==
  ASSUME NEW times \in [Key -> Ages], NEW ks, NEW d \in Nat
  PROVE  /\ Passed(times, ks, d) \in [Key -> Ages]
         /\ \A k \in Key : Passed(times, ks, d)[k] =
                             IF k \in ks THEN Saturated(times[k] + d) ELSE times[k]
<1>1. \A k \in Key : times[k] \in Ages /\ Saturated(times[k] + d) \in Ages
  BY SaturatedSum
<1> QED
  BY <1>1 DEF Passed

LEMMA Typed ==
  ASSUME FsEventsInv
  PROVE  /\ pending \subseteq Key /\ age \in [Key -> Ages] /\ quiet \in [Key -> Ages]
         /\ interval = Interval /\ ping \in Int /\ lag \in 0 .. Work /\ lag \in Nat
         /\ ~pingFailed
         /\ \A k \in Key : age[k] \in Nat /\ quiet[k] \in Nat
<1>1. pending \subseteq monitored \X File /\ monitored \subseteq Dir
      /\ age \in [Key -> Ages] /\ quiet \in [Key -> Ages]
      /\ interval = Interval /\ ping \in Off .. interval /\ lag \in 0 .. Work
  BY DEF FsEventsInv, TypeOK
<1>2. pending \subseteq Key
  BY <1>1 DEF Key
<1>3. ping \in Int /\ lag \in Nat
  BY <1>1, Times DEF Off
<1>4. \A k \in Key : age[k] \in Nat /\ quiet[k] \in Nat
  BY <1>1, Times DEF Ages
<1> QED
  BY <1>1, <1>2, <1>3, <1>4 DEF FsEventsInv, PingRuns

-----------------------------------------------------------------------------
(***************************************************************************)
(* The steps.                                                              *)
(***************************************************************************)

\* The ping timer's callback leaves the interval as it is, and the poll does
\* not sleep past the next time the timer is due.
LEMMA PingTimer ==
  ASSUME FsEventsInv, NEW d \in Nat, Iterate(d)
  PROVE  /\ interval' = Interval /\ ~pingFailed' /\ bufFull' \in BOOLEAN
         /\ ping' \in Off .. Interval
         /\ ping # Off => ping' # Off /\ lag + d <= Interval + Work
<1>1. /\ interval = Interval /\ ping \in Int /\ lag \in Nat /\ lag <= Work /\ ~pingFailed
      /\ ping \in Off .. Interval /\ bufFull \in BOOLEAN
  BY Typed DEF FsEventsInv, TypeOK
<1>2. interval' = Interval /\ ~pingFailed' /\ bufFull' \in BOOLEAN
  <2>1. CASE PingDue
    BY <1>1, <2>1 DEF Iterate, RunTimers, Ping, DoOnTimeout
  <2>2. CASE ~PingDue
    BY <1>1, <2>2 DEF Iterate, RunTimers
  <2> QED
    BY <2>1, <2>2
<1>3. /\ PingLeft \in Off .. Interval
      /\ PingLeft = Off <=> ping = Off
      /\ ping # Off => lag + PingLeft <= Interval + Work
  <2>1. CASE ping = Off
    BY <2>1, Times DEF PingLeft, Off
  <2>2. CASE ping # Off /\ ping <= lag
    BY <1>1, <1>2, <2>2, Times DEF PingLeft, Off, Repeats
  <2>3. CASE ping # Off /\ ~(ping <= lag)
    BY <1>1, <2>3, Times DEF PingLeft, Off
  <2> QED
    BY <2>1, <2>2, <2>3
<1> DEFINE left == PingLeft
<1>4. /\ left # Off => d <= left
      /\ ping' = IF left = Off THEN Off ELSE left - d
  BY DEF Iterate
<1> HIDE DEF left
<1>5. left \in Off .. Interval /\ (left = Off <=> ping = Off)
      /\ (ping # Off => lag + left <= Interval + Work)
  BY <1>3 DEF left
<1> QED
  BY <1>1, <1>2, <1>4, <1>5, Times DEF Off

LEMMA IterateStep ==
  ASSUME FsEventsInv, NEW d \in Nat, Iterate(d)
  PROVE  /\ FsEventsInv'
         /\ conn \in {"up", "lost"} => \A k \in pending : age'[k] <= Gap + Interval + Work
<1>1. /\ pending \subseteq Key /\ age \in [Key -> Ages] /\ quiet \in [Key -> Ages]
      /\ lag \in Nat /\ lag <= Work /\ ping \in Int
      /\ \A k \in Key : age[k] \in Nat /\ quiet[k] \in Nat
  BY Typed
<1>2. /\ phase = "poll" /\ phase' = "callbacks" /\ lag' = 0
      /\ age' = Passed(age, pending, lag + d) /\ quiet' = Passed(quiet, Key, d)
      /\ UNCHANGED <<monitored, pending, conn, unseen>>
  BY DEF Iterate
<1>3. lag + d \in Nat
  BY <1>1
<1>4. /\ age' \in [Key -> Ages] /\ quiet' \in [Key -> Ages]
      /\ \A k \in pending : age'[k] = Saturated(age[k] + (lag + d))
      /\ \A k \in Key : quiet'[k] = Saturated(quiet[k] + d)
  BY <1>1, <1>2, <1>3, PassedTime
<1>5. TypeOK'
  <2>1. 0 \in 0 .. Work
    BY Times
  <2>2. /\ interval' = Interval /\ pingFailed' = FALSE /\ bufFull' \in BOOLEAN
        /\ ping' \in Off .. interval'
    <3>1. pingFailed' \in BOOLEAN
      <4>1. CASE PingDue
        BY <4>1 DEF Iterate, RunTimers, Ping, DoOnTimeout
      <4>2. CASE ~PingDue
        BY <4>2 DEF Iterate, RunTimers, FsEventsInv, TypeOK
      <4> QED
        BY <4>1, <4>2
    <3> QED
      BY <3>1, PingTimer
  <2> QED
    BY <1>2, <1>4, <2>1, <2>2 DEF FsEventsInv, TypeOK
<1>6. ASSUME NEW k \in pending
      PROVE  /\ quiet'[k] = Horizon \/ age'[k] + lag' <= quiet'[k] + Work
             /\ conn \in {"up", "lost"} => age'[k] <= Gap + Interval + Work
  <2> DEFINE a == age[k]
             q == quiet[k]
             a2 == age'[k]
             q2 == quiet'[k]
  <2>1. /\ a \in Ages /\ q \in Ages /\ a \in Nat /\ q \in Nat
        /\ a2 = Saturated(a + (lag + d)) /\ q2 = Saturated(q + d)
    BY <1>1, <1>4
  <2> HIDE DEF a, q, a2, q2
  <2>2. /\ a2 <= a + (lag + d) /\ (q2 = Horizon \/ q2 = q + d)
        /\ (q = Horizon => q2 = Horizon) /\ a2 \in Nat /\ q2 \in Nat
    <3>1. a2 \in Ages /\ q2 \in Ages
      BY <1>3, <2>1, SaturatedSum
    <3> QED
      BY <1>3, <2>1, <3>1, Times, SaturatedSum DEF Ages
  <2>3. /\ q = Horizon \/ a + lag <= q + Work
        /\ a <= Gap
    BY <1>2 DEF FsEventsInv, AgeIsQuiet, NothingDue, a, q
  <2>4. q2 = Horizon \/ a2 + 0 <= q2 + Work
    BY <1>1, <2>1, <2>2, <2>3, Times
  <2>5. conn \in {"up", "lost"} => lag + d <= Interval + Work
    BY PingTimer DEF FsEventsInv, PingRuns
  <2>6. conn \in {"up", "lost"} => a2 <= Gap + Interval + Work
    BY <1>1, <2>1, <2>2, <2>3, <2>5, Times
  <2> QED
    BY <1>2, <2>4, <2>6 DEF a2, q2
<1>7. AgeIsQuiet' /\ NothingDue'
  BY <1>2, <1>6 DEF AgeIsQuiet, NothingDue
<1>8. PingRuns'
  BY <1>2, PingTimer DEF FsEventsInv, PingRuns
<1> QED
  BY <1>5, <1>6, <1>7, <1>8 DEF FsEventsInv

LEMMA BusyStep ==
  ASSUME FsEventsInv, NEW d \in 1 .. Work, Busy(d)
  PROVE  FsEventsInv'
<1>1. /\ pending \subseteq Key /\ quiet \in [Key -> Ages] /\ lag \in Nat /\ d \in Nat
      /\ \A k \in Key : age[k] \in Nat /\ quiet[k] \in Nat
  BY Typed, Times
<1>2. /\ phase' = "callbacks" /\ lag' = lag + d /\ lag' \in 0 .. Work
      /\ quiet' = Passed(quiet, Key, d)
      /\ UNCHANGED <<monitored, pending, age, pingVars, conn, unseen>>
  BY <1>1, Times DEF Busy
<1>3. quiet' \in [Key -> Ages] /\ \A k \in Key : quiet'[k] = Saturated(quiet[k] + d)
  BY <1>1, <1>2, PassedTime
<1>4. TypeOK' /\ PingRuns'
  BY <1>2, <1>3 DEF FsEventsInv, TypeOK, PingRuns, pingVars
<1>5. AgeIsQuiet'
  <2> SUFFICES ASSUME NEW k \in pending
               PROVE  quiet'[k] = Horizon \/ age[k] + (lag + d) <= quiet'[k] + Work
    BY <1>2 DEF AgeIsQuiet
  <2>1. quiet[k] \in Ages /\ quiet[k] \in Nat /\ age[k] \in Nat
        /\ quiet'[k] = Saturated(quiet[k] + d)
    BY <1>1, <1>3
  <2>2. /\ quiet'[k] = Horizon \/ quiet'[k] = quiet[k] + d
        /\ quiet[k] = Horizon => quiet'[k] = Horizon
    BY <1>1, <2>1, SaturatedSum
  <2>3. quiet[k] = Horizon \/ age[k] + lag <= quiet[k] + Work
    BY DEF FsEventsInv, AgeIsQuiet
  <2> QED
    BY <1>1, <2>1, <2>2, <2>3, Times
<1> QED
  BY <1>2, <1>4, <1>5 DEF FsEventsInv, NothingDue

LEMMA EventStep ==
  ASSUME FsEventsInv, NEW d \in Dir, NEW f \in File, OnFsEvent(d, f)
  PROVE  FsEventsInv'
<1> DEFINE k == <<d, f>>
<1>1. /\ pending \subseteq Key /\ age \in [Key -> Ages] /\ quiet \in [Key -> Ages]
      /\ lag \in Nat /\ lag <= Work
  BY Typed
<1>2. /\ phase = "callbacks" /\ d \in monitored /\ pending' = pending \union {k}
      /\ age' = [age EXCEPT ![k] = 0] /\ quiet' = [quiet EXCEPT ![k] = 0]
      /\ unseen' = unseen \union {k}
      /\ UNCHANGED <<monitored, pingVars, conn, lag, phase>>
  BY DEF OnFsEvent, Touch
<1>3. k \in Key /\ k \in monitored \X File /\ 0 \in Ages
  BY <1>2, Times DEF Key, Ages
<1>4. /\ age' \in [Key -> Ages] /\ quiet' \in [Key -> Ages]
      /\ age'[k] = 0 /\ quiet'[k] = 0
      /\ \A j \in Key : j # k => age'[j] = age[j] /\ quiet'[j] = quiet[j]
  BY <1>1, <1>2, <1>3
<1> HIDE DEF k
<1>5. TypeOK' /\ PingRuns'
  BY <1>2, <1>3, <1>4 DEF FsEventsInv, TypeOK, PingRuns, pingVars
<1>6. AgeIsQuiet'
  <2> SUFFICES ASSUME NEW j \in pending'
               PROVE  quiet'[j] = Horizon \/ age'[j] + lag <= quiet'[j] + Work
    BY <1>2 DEF AgeIsQuiet
  <2>1. CASE j = k
    BY <1>1, <1>4, <2>1, Times
  <2>2. CASE j # k
    BY <1>1, <1>2, <1>4, <2>2 DEF FsEventsInv, AgeIsQuiet
  <2> QED
    BY <2>1, <2>2
<1> QED
  BY <1>2, <1>5, <1>6 DEF FsEventsInv, NothingDue

LEMMA CheckStep ==
  ASSUME FsEventsInv, FsEventCheckCb
  PROVE  /\ FsEventsInv'
         /\ \A k \in unseen \ unseen' : quiet[k] + Work > Gap
<1>1. /\ pending \subseteq Key /\ age \in [Key -> Ages] /\ quiet \in [Key -> Ages]
      /\ lag \in Nat /\ lag <= Work
      /\ \A k \in Key : age[k] \in Nat /\ quiet[k] \in Nat
  BY Typed
<1>2. /\ pending' = pending \ Due /\ unseen' = unseen \ Due
      /\ age' = [k \in Key |-> IF k \in pending' THEN age[k] ELSE 0]
      /\ phase' \in {"returned", "poll"}
      /\ UNCHANGED <<monitored, pingVars, conn, lag, quiet>>
  BY DEF FsEventCheckCb, Erase
<1>3. age' \in [Key -> Ages] /\ \A k \in pending' : age'[k] = age[k]
  BY <1>1, <1>2, Times DEF Ages
<1>4. TypeOK' /\ PingRuns'
  BY <1>2, <1>3 DEF FsEventsInv, TypeOK, PingRuns, pingVars
<1>5. AgeIsQuiet'
  BY <1>2, <1>3 DEF FsEventsInv, AgeIsQuiet
<1>6. NothingDue'
  <2>1. \A k \in pending' : ~(age[k] > Gap) /\ age[k] \in Nat
    BY <1>1, <1>2 DEF Due
  <2> QED
    BY <1>3, <2>1, Times DEF NothingDue
<1>7. ASSUME NEW k \in unseen \ unseen' PROVE quiet[k] + Work > Gap
  <2>1. k \in pending /\ age[k] > Gap
    BY <1>2 DEF Due
  <2>2. quiet[k] = Horizon \/ age[k] + lag <= quiet[k] + Work
    BY <2>1 DEF FsEventsInv, AgeIsQuiet
  <2> QED
    BY <1>1, <2>1, <2>2, Times
<1> QED
  BY <1>4, <1>5, <1>6, <1>7 DEF FsEventsInv

\* The connection and the monitored paths.
LEMMA OtherStep ==
  ASSUME FsEventsInv,
         \/ \E d \in Dir, ok \in BOOLEAN : StartFsMonitoring(d, ok)
         \/ OnConnect
         \/ OnClose
         \/ GiveUp
         \/ Destroy
         \/ UNCHANGED vars
  PROVE  FsEventsInv' /\ UNCHANGED unseen /\ ~(phase = "poll" /\ phase' = "callbacks")
<1>1. CASE \E d \in Dir, ok \in BOOLEAN : StartFsMonitoring(d, ok)
  <2>1. PICK d \in Dir, ok \in BOOLEAN : StartFsMonitoring(d, ok)
    BY <1>1
  <2>2. monitored \subseteq monitored' /\ monitored' \subseteq Dir
    BY <2>1 DEF StartFsMonitoring, FsEventsInv, TypeOK
  <2>3. UNCHANGED <<eventVars, pingVars, conn, lag, phase>>
    BY <2>1 DEF StartFsMonitoring
  <2>4. pending \subseteq monitored' \X File
    BY <2>2 DEF FsEventsInv, TypeOK
  <2> QED
    BY <2>2, <2>3, <2>4 DEF FsEventsInv, TypeOK, AgeIsQuiet, NothingDue, PingRuns,
                            eventVars, pingVars
<1>2. CASE OnConnect
  <2>1. /\ conn' = "up" /\ ping' = interval /\ ~pingFailed /\ interval \in Nat
        /\ UNCHANGED <<monitored, eventVars, interval, pingFailed, bufFull, lag, phase>>
    BY <1>2, Typed, Times DEF OnConnect
  <2>2. interval # Off /\ interval \in Off .. interval
    BY <2>1 DEF Off
  <2> QED
    BY <2>1, <2>2 DEF FsEventsInv, TypeOK, AgeIsQuiet, NothingDue, PingRuns, eventVars
<1>3. CASE OnClose \/ GiveUp
  BY <1>3 DEF OnClose, GiveUp, FsEventsInv, TypeOK, AgeIsQuiet, NothingDue, PingRuns,
              eventVars, pingVars
<1>4. CASE Destroy
  <2>1. /\ phase' \in {"destroyed", "undefined"} /\ monitored' \subseteq monitored
        /\ pending \subseteq monitored' \X File
        /\ UNCHANGED <<eventVars, pingVars, conn, lag>>
    BY <1>4 DEF Destroy, StopFsMonitoring, FsEventsInv, TypeOK
  <2> QED
    BY <2>1 DEF FsEventsInv, TypeOK, AgeIsQuiet, NothingDue, PingRuns, eventVars, pingVars
<1>5. CASE UNCHANGED vars
  BY <1>5 DEF vars, FsEventsInv, TypeOK, AgeIsQuiet, NothingDue, PingRuns
<1> QED
  BY <1>1, <1>2, <1>3, <1>4, <1>5

LEMMA FsEventsInit ==
  ASSUME Init
  PROVE  FsEventsInv
<1>1. 0 \in Ages /\ Horizon \in Ages /\ 0 \in 0 .. Work /\ Off \in Off .. Interval
  BY Times DEF Ages, Off
<1> QED
  BY <1>1 DEF Init, FsEventsInv, TypeOK, AgeIsQuiet, NothingDue, PingRuns

LEMMA FsEventsNext ==
  ASSUME FsEventsInv, [Next]_vars
  PROVE  /\ FsEventsInv'
         /\ \A k \in unseen \ unseen' : quiet[k] + Work > Gap
         /\ phase = "poll" /\ phase' = "callbacks" /\ conn \in {"up", "lost"} =>
              \A k \in pending : age'[k] <= Gap + Interval + Work
<1>1. CASE \E d \in 0 .. MaxSleep + Interval : Iterate(d)
  <2>1. PICK d \in 0 .. MaxSleep + Interval : Iterate(d)
    BY <1>1
  <2>2. d \in Nat
    BY Times
  <2>3. unseen' = unseen
    BY <2>1 DEF Iterate
  <2> QED
    BY <2>1, <2>2, <2>3, IterateStep
<1>2. CASE \E d \in 1 .. Work : Busy(d)
  <2>1. unseen' = unseen /\ phase = "callbacks"
    BY <1>2 DEF Busy
  <2> QED
    BY <1>2, <2>1, BusyStep
<1>3. CASE \E d \in Dir, f \in File : OnFsEvent(d, f)
  <2>1. unseen \ unseen' = {} /\ phase = "callbacks"
    BY <1>3 DEF OnFsEvent
  <2> QED
    BY <1>3, <2>1, EventStep
<1>4. CASE FsEventCheckCb
  <2>1. phase = "callbacks"
    BY <1>4 DEF FsEventCheckCb
  <2> QED
    BY <1>4, <2>1, CheckStep
<1>5. CASE \/ \E d \in Dir, ok \in BOOLEAN : StartFsMonitoring(d, ok)
           \/ OnConnect
           \/ OnClose
           \/ GiveUp
           \/ Destroy
           \/ UNCHANGED vars
  BY <1>5, OtherStep
<1> QED
  BY <1>1, <1>2, <1>3, <1>4, <1>5 DEF Next

-----------------------------------------------------------------------------
(***************************************************************************)
(* The theorems.                                                           *)
(***************************************************************************)

\* The invariant of the pending events, the clock and the ping timer.
THEOREM FsEventsInvariance == Spec => []FsEventsInv
<1>1. Init => FsEventsInv
  BY FsEventsInit
<1>2. FsEventsInv /\ [Next]_vars => FsEventsInv'
  BY FsEventsNext
<1> QED
  BY <1>1, <1>2, PTL DEF Spec

\* Pending events are of monitored paths, and the interval of the ping timer
\* never doubles: ping() reports success whatever happened.
THEOREM FsEventsTypes == Spec => []TypeOK
<1>1. FsEventsInv => TypeOK
  BY DEF FsEventsInv
<1> QED
  BY <1>1, FsEventsInvariance, PTL

\* fs_event_check_cb() hands no file over that was not quiet for the gap, up
\* to the error of uv_now().
THEOREM EventsAreQuiet == Spec => NeverEarly
<1>1. FsEventsInv /\ [Next]_vars =>
        [\A k \in unseen \ unseen' : quiet[k] + Work > Gap]_vars
  BY FsEventsNext
<1> QED
  BY <1>1, FsEventsInvariance, PTL DEF Spec, NeverEarly

\* Once connected, no event waits longer than the gap, a ping interval and
\* the work of one iteration.
THEOREM EventsAreHanded == Spec => HeldBriefly
<1>1. FsEventsInv /\ [Next]_vars =>
        [phase = "poll" /\ phase' = "callbacks" /\ conn \in {"up", "lost"} =>
           \A k \in pending : age'[k] <= Gap + Interval + Work]_vars
  BY FsEventsNext
<1> QED
  BY <1>1, FsEventsInvariance, PTL DEF Spec, HeldBriefly

=============================================================================
