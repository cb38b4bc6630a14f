--------------------------- MODULE Scheduler_proofs ---------------------------
(***************************************************************************)
(* What the loops of the scheduler guarantee.                              *)
(*                                                                         *)
(* The connection watch, for every number of routes: the proofs rest on    *)
(* one fact about a round: the check of a route is made between two reads  *)
(* that returned the same key, and keys never come back, so a failed check *)
(* is one of the route it is held against.                                 *)
(*                                                                         *)
(* The health jobs, for every number of LuCI calls, jobs and restarts: at  *)
(* most one run at a time, held by the mutex of its caller, and a          *)
(* cancellation of the panel that reaches only the check it names.         *)
(***************************************************************************)
EXTENDS ConnectionWatch, HealthJobs, TLAPS

-----------------------------------------------------------------------------
(* The connection watch *)

CountSteps == {"count", "due", "failover", "switch"}

\* The steps after Count: a round that reached its threshold.
DueSteps == {"due", "failover", "switch"}

\* Only a failed check gets as far as the count.
RoundOK == pc \in CountSteps => result \in Failing

TypeInv == TypeOK /\ RoundOK

\* The history never runs ahead of the route, and a failed check of the round
\* in progress is its latest entry.
SeenOK ==
    /\ seen.route <= route
    /\ pc \in {"compare"} \cup CountSteps /\ result \in Failing
         => seen.class = result /\ seen.n >= 1

\* The route of the round, when it could be read, was active before the check;
\* from Count on it was active after the check as well.
CheckedOK ==
    /\ pc = "check" => checked = Unknown \/ checked \in 1 .. route
    /\ pc = "compare" => checked = Unknown \/ checked \in 1 .. seen.route
    /\ pc \in CountSteps => checked = Unknown \/ checked = seen.route
    /\ pc = "switch" => checked # Unknown

RouteInv == TypeInv /\ SeenOK /\ CheckedOK

\* Between rounds the count is at most one ahead of the history; a count of
\* one may be held against a route that was not checked yet.
CountedBefore ==
    \/ key = seen.route /\ class = seen.class /\ failures <= seen.n + 1
    \/ key > seen.route /\ failures <= 1

Counts ==
    /\ key # Unknown
    /\ key # None => key <= route
    /\ checked # Unknown
    /\ failures > 0 => key # None /\ class \in Failing /\ failures <= Threshold(class)
    /\ pc \in {"idle", "read", "check"} /\ failures > 0 => CountedBefore
    /\ pc \in {"compare", "count"} /\ failures > 0 /\ result \in Failing
         => key <= seen.route /\ (key = seen.route /\ class = seen.class => failures <= seen.n)
    /\ pc \in DueSteps
         => /\ key = seen.route
            /\ class = result
            /\ Threshold(class) <= failures
            /\ failures <= seen.n + 1

\* ... if no round has used a state that could not be read.
CountOK == ~blind => Counts

CountInv == RouteInv /\ CountOK

-----------------------------------------------------------------------------
\* Every step keeps the types.
LEMMA TypeStep == (Init => TypeInv) /\ (TypeInv /\ [Next]_vars => TypeInv')
<1> USE DEF CountSteps, world, found, counts, history
<1>a. /\ \A c \in Conditions : c \in Failing \/ c = "ok" \/ c = "error"
      /\ Failing \subseteq Conditions
      /\ {"ok", "error"} \subseteq Conditions
      /\ "ok" \notin Failing /\ "error" \notin Failing
  BY DEF Conditions, Failing
<1>b. {"idle", "read", "check", "compare", "count", "due", "failover", "switch"} \subseteq RoundSteps
  BY DEF RoundSteps
<1>c. route \in Route => CurrentRecoveryRouteKey \subseteq Key
  BY DEF CurrentRecoveryRouteKey, Key
<1>d. \A c : Threshold(c) \in {2, 4}
  BY DEF Threshold
<1>e. /\ 1 \in Route
      /\ \A r \in Route : r < MaxRoutes => r + 1 \in Route
  BY WatchAssumption DEF Route
<1>f. 0 \in 0 .. 4 /\ 1 \in 0 .. 4 /\ \A n \in 0 .. 4, m \in {2, 4} : n < m => n + 1 \in 0 .. 4
  OBVIOUS
<1> USE <1>a, <1>b, <1>f
<1>1. Init => TypeInv
  <2>1. [route |-> 1, class |-> "", n |-> 0] \in [route : Route, class : Failing \cup {""}, n : 0 .. 4]
    BY <1>e
  <2> QED
    BY <2>1, <1>e DEF Init, TypeInv, TypeOK, RoundOK, Key
<1>2. TypeInv /\ [Next]_vars => TypeInv'
  <2> SUFFICES ASSUME TypeInv, [Next]_vars PROVE TypeInv'
    OBVIOUS
  <2> USE DEF TypeInv, TypeOK, RoundOK
  <2>1. CASE TryLock
    BY <2>1 DEF TryLock
  <2>2. CASE ReadRoute
    BY <2>2, <1>c DEF ReadRoute
  <2>3. CASE Check
    <3>1. Observed(condition) \in [route : Route, class : {condition}, n : 0 .. 4]
      BY <1>d DEF Observed
    <3> QED
      BY <2>3, <3>1 DEF Check
  <2>4. CASE CheckFailed
    BY <2>4 DEF CheckFailed, EndRound
  <2>5. CASE Discard
    BY <2>5 DEF Discard, EndRound
  <2>6. CASE Healthy
    BY <2>6 DEF Healthy, EndRound
  <2>7. CASE SameRoute
    BY <2>7 DEF SameRoute
  <2>8. CASE Count
    <3>1. \A k : Counted(k, result) \in 0 .. 4
      BY <1>d DEF Counted
    <3> QED
      BY <2>8, <3>1, <1>c DEF Count, EndRound
  <2>9. CASE RetryLater
    BY <2>9 DEF RetryLater, EndRound
  <2>10. CASE StartFailover
    BY <2>10 DEF StartFailover
  <2>11. CASE FailoverSnapshot
    BY <2>11 DEF FailoverSnapshot, FailoverSucceeded, EndRound
  <2>12. CASE FailoverSwitched
    BY <2>12, <1>e DEF FailoverSwitched, FailoverSucceeded, EndRound
  <2>13. CASE FailoverFailsOpen
    BY <2>13, <1>e DEF FailoverFailsOpen, FailoverSucceeded, EndRound
  <2>14. CASE FailoverFailed
    BY <2>14 DEF FailoverFailed, EndRound
  <2>15. CASE UserConnects
    BY <2>15, <1>e DEF UserConnects
  <2>16. CASE ConditionChanges
    BY <2>16 DEF ConditionChanges
  <2>17. CASE OtherLocks
    BY <2>17 DEF OtherLocks
  <2>18. CASE OtherUnlocks
    BY <2>18 DEF OtherUnlocks
  <2>19. CASE RetryElapses
    BY <2>19 DEF RetryElapses
  <2>20. CASE UNCHANGED vars
    BY <2>20 DEF vars
  <2> QED
    BY <2>1, <2>2, <2>3, <2>4, <2>5, <2>6, <2>7, <2>8, <2>9, <2>10, <2>11, <2>12,
       <2>13, <2>14, <2>15, <2>16, <2>17, <2>18, <2>19, <2>20 DEF Next, RoundStep
<1> QED
  BY <1>1, <1>2

\* The scheduler's fields, the mutex and the round stay well formed: the mutex
\* is held by the watch exactly while a round is in progress.
THEOREM TypeCorrect == Spec => []TypeOK
<1>1. TypeInv => TypeOK
  BY DEF TypeInv
<1> QED
  BY <1>1, TypeStep, PTL DEF Spec

-----------------------------------------------------------------------------
\* The history and the route of a round agree, step by step.
LEMMA RouteStep == (Init => RouteInv) /\ (RouteInv /\ [Next]_vars => RouteInv')
<1> USE DEF CountSteps, world, found, counts, history
<1>a. /\ "ok" \notin Failing /\ "error" \notin Failing
  BY DEF Failing
<1>b. \A r \in Route : r \in Nat
  BY WatchAssumption DEF Route
<1>c. \A k \in CurrentRecoveryRouteKey : k = route \/ k = Unknown
  BY DEF CurrentRecoveryRouteKey
<1> USE <1>a, <1>b, <1>c
<1>1. Init => RouteInv
  <2> SUFFICES ASSUME Init PROVE SeenOK /\ CheckedOK
    BY TypeStep DEF RouteInv
  <2>1. seen = [route |-> 1, class |-> "", n |-> 0]
    BY DEF Init
  <2>2. seen.route = 1
    BY <2>1
  <2>3. route = 1 /\ pc = "idle"
    BY DEF Init
  <2> QED
    BY <2>2, <2>3 DEF SeenOK, CheckedOK
<1>2. RouteInv /\ [Next]_vars => RouteInv'
  <2> SUFFICES ASSUME RouteInv, [Next]_vars PROVE (SeenOK /\ CheckedOK)'
    BY TypeStep DEF RouteInv
  <2>s. route \in Route /\ seen.route \in Route
    BY DEF RouteInv, TypeInv, TypeOK
  <2>t. route \in Nat /\ seen.route \in Nat /\ route >= 1
    BY <2>s, WatchAssumption DEF Route
  <2> USE <2>s, <2>t DEF RouteInv, SeenOK, CheckedOK, TypeInv, RoundOK
  <2>1. CASE TryLock
    BY <2>1 DEF TryLock
  <2>2. CASE ReadRoute
    BY <2>2 DEF ReadRoute
  <2>3. CASE Check
    <3>1. CASE condition \in Failing
      <4>1. Observed(condition).route = route /\ Observed(condition).class = condition
            /\ Observed(condition).n >= 1
        <5>1. seen.n \in 0 .. 4 /\ Threshold(condition) \in {2, 4}
          BY DEF TypeOK, Threshold
        <5> QED
          BY <5>1 DEF Observed
      <4> QED
        BY <2>3, <3>1, <4>1 DEF Check
    <3>2. CASE condition \notin Failing
      <4>1. seen' = [route |-> route, class |-> "", n |-> 0]
        BY <2>3, <3>2 DEF Check
      <4>2. seen'.route = route
        BY <4>1
      <4>3. /\ pc = "check" /\ pc' = "compare"
            /\ result' \notin Failing
            /\ UNCHANGED <<route, checked>>
        BY <2>3, <3>2 DEF Check
      <4> QED
        BY <4>2, <4>3
    <3> QED
      BY <3>1, <3>2
  <2>4. CASE CheckFailed
    BY <2>4 DEF CheckFailed, EndRound
  <2>5. CASE Discard
    BY <2>5 DEF Discard, EndRound
  <2>6. CASE Healthy
    BY <2>6 DEF Healthy, EndRound
  <2>7. CASE SameRoute
    BY <2>7 DEF SameRoute
  <2>8. CASE Count
    BY <2>8 DEF Count, EndRound
  <2>9. CASE RetryLater
    BY <2>9 DEF RetryLater, EndRound
  <2>10. CASE StartFailover
    BY <2>10 DEF StartFailover
  <2>11. CASE FailoverSnapshot
    <3>1. CASE checked = route
      <4>1. route # Unknown
        BY WatchAssumption
      <4> QED
        BY <2>11, <3>1, <4>1 DEF FailoverSnapshot
    <3>2. CASE checked # route
      BY <2>11, <3>2 DEF FailoverSnapshot, FailoverSucceeded, EndRound
    <3> QED
      BY <3>1, <3>2
  <2>12. CASE FailoverSwitched
    BY <2>12 DEF FailoverSwitched, FailoverSucceeded, EndRound
  <2>13. CASE FailoverFailsOpen
    BY <2>13 DEF FailoverFailsOpen, FailoverSucceeded, EndRound
  <2>14. CASE FailoverFailed
    BY <2>14 DEF FailoverFailed, EndRound
  <2>15. CASE UserConnects
    BY <2>15 DEF UserConnects
  <2>16. CASE ConditionChanges
    BY <2>16 DEF ConditionChanges
  <2>17. CASE OtherLocks
    BY <2>17 DEF OtherLocks
  <2>18. CASE OtherUnlocks
    BY <2>18 DEF OtherUnlocks
  <2>19. CASE RetryElapses
    BY <2>19 DEF RetryElapses
  <2>20. CASE UNCHANGED vars
    BY <2>20 DEF vars
  <2> QED
    BY <2>1, <2>2, <2>3, <2>4, <2>5, <2>6, <2>7, <2>8, <2>9, <2>10, <2>11, <2>12,
       <2>13, <2>14, <2>15, <2>16, <2>17, <2>18, <2>19, <2>20 DEF Next, RoundStep
<1> QED
  BY <1>1, <1>2

\* A failover is started only for a route whose own check failed in the round
\* that starts it, however often the state file could not be read.
THEOREM FailoverOfFailedRouteTheorem == Spec => []FailoverOfFailedRoute
<1>1. RouteInv => FailoverOfFailedRoute
  BY DEF RouteInv, SeenOK, CheckedOK, TypeInv, RoundOK, CountSteps, FailoverOfFailedRoute
<1> QED
  BY <1>1, RouteStep, PTL DEF Spec

-----------------------------------------------------------------------------
\* The count of failed rounds stays within one of the history.
LEMMA CountStep == (Init => CountInv) /\ (CountInv /\ [Next]_vars => CountInv')
<1> USE DEF CountSteps, DueSteps, world, found, counts, history
<1>a. "ok" \notin Failing /\ "error" \notin Failing
  BY DEF Failing
<1>b. \A r \in Route : r \in Nat
  BY WatchAssumption DEF Route
<1>c. \A k \in CurrentRecoveryRouteKey : k = route \/ k = Unknown
  BY DEF CurrentRecoveryRouteKey
<1>d. None \notin Nat /\ Unknown \notin Nat /\ None # Unknown
  BY WatchAssumption
<1>e. \A c : Threshold(c) \in Nat /\ Threshold(c) >= 2
  BY DEF Threshold
<1> USE <1>a, <1>b, <1>c, <1>d, <1>e
<1>1. Init => CountInv
  <2>1. Init => key = None /\ checked = None /\ failures = 0 /\ pc = "idle"
    BY DEF Init
  <2> QED
    BY <2>1, RouteStep DEF CountInv, CountOK, Counts
<1>2. CountInv /\ [Next]_vars => CountInv'
  <2> SUFFICES ASSUME CountInv, [Next]_vars, ~blind' PROVE Counts'
    BY RouteStep DEF CountInv, CountOK
  <2>r. ~blind
    <3>1. blind \in BOOLEAN
      BY DEF CountInv, RouteInv, TypeInv, TypeOK
    <3> QED
      BY <3>1 DEF vars, Next, RoundStep, TryLock, ReadRoute, Check, CheckFailed, Discard, Healthy,
         SameRoute, Count, RetryLater, StartFailover, FailoverSnapshot, FailoverSwitched,
         FailoverFailsOpen, FailoverFailed, FailoverSucceeded, UserConnects, ConditionChanges,
         OtherLocks, OtherUnlocks, RetryElapses
  <2> USE <2>r DEF CountOK
  <2>s. /\ route \in Nat /\ seen.route \in Nat /\ seen.n \in Nat /\ failures \in Nat
        /\ seen.route <= route
        /\ key # None => key \in Nat
    <3>1. route \in Route /\ seen.route \in Route /\ seen.n \in 0 .. 4 /\ failures \in 0 .. 4
          /\ key \in Key \cup {None} /\ key # Unknown
      BY DEF CountInv, Counts, RouteInv, TypeInv, TypeOK
    <3>2. key # None => key \in Route
      BY <3>1 DEF Key
    <3> QED
      BY <3>1, <3>2 DEF CountInv, RouteInv, SeenOK
  <2> USE <2>s DEF CountInv, Counts, RouteInv, SeenOK, CheckedOK, TypeInv, RoundOK
  <2>1. CASE TryLock
    BY <2>1 DEF CountedBefore, TryLock
  <2>2. CASE ReadRoute
    BY <2>2 DEF CountedBefore, ReadRoute
  <2>3. CASE Check
    <3>1. CASE condition \in Failing /\ failures > 0
      <4>1. /\ Observed(condition).route = route
            /\ Observed(condition).class = condition
            /\ Observed(condition).n = IF seen.route = route /\ seen.class = condition
                                         THEN IF seen.n < Threshold(condition) THEN seen.n + 1 ELSE seen.n
                                         ELSE 1
        BY DEF Observed
      <4>2. class = condition /\ key = route => failures <= Observed(condition).n
        BY <2>3, <3>1, <4>1 DEF Check, CountedBefore
      <4>3. /\ pc' = "compare" /\ result' = condition /\ seen' = Observed(condition)
            /\ UNCHANGED <<route, checked, key, class, failures>>
        BY <2>3, <3>1 DEF Check
      <4> HIDE DEF Observed
      <4> QED
        BY <3>1, <4>1, <4>2, <4>3
    <3>2. CASE condition \notin Failing \/ failures = 0
      <4>1. /\ pc' = "compare" /\ (result' \notin Failing \/ failures' = 0)
            /\ UNCHANGED <<route, checked, key, class, failures>>
        BY <2>3, <3>2 DEF Check
      <4> QED
        BY <4>1
    <3> QED
      BY <3>1, <3>2
  <2>4. CASE CheckFailed
    <3>1. /\ pc' = "idle" /\ checked' = None /\ failures' = 0
          /\ UNCHANGED <<route, key>>
      BY <2>4 DEF CheckFailed, EndRound
    <3> QED
      BY <3>1
  <2>5. CASE Discard
    BY <2>5 DEF Discard, EndRound
  <2>6. CASE Healthy
    BY <2>6 DEF Healthy, EndRound
  <2>7. CASE SameRoute
    BY <2>7 DEF SameRoute
  <2>8. CASE Count
    <3>1. /\ pc = "count" /\ result \in Failing
          /\ failures' = Counted(route, result) /\ key' = route /\ class' = result
          /\ UNCHANGED <<route, seen>>
          /\ IF failures' < Threshold(result) THEN pc' = "idle" /\ checked' = None
                                               ELSE pc' = "due" /\ UNCHANGED <<checked, result>>
      BY <2>8 DEF Count, EndRound
    <3>2. CASE route = key /\ result = class /\ failures > 0
      <4>1. route = seen.route /\ failures <= seen.n /\ failures <= Threshold(result)
        BY <3>1, <3>2
      <4>2. failures' \in Nat /\ failures' <= failures + 1 /\ failures' <= Threshold(result)
        BY <3>1, <3>2, <4>1 DEF Counted
      <4> QED
        BY <3>1, <3>2, <4>1, <4>2 DEF CountedBefore
    <3>3. CASE ~(route = key /\ result = class /\ failures > 0)
      <4>1. failures' = 1
        BY <3>1, <3>3 DEF Counted
      <4> QED
        BY <3>1, <4>1 DEF CountedBefore
    <3> QED
      BY <3>2, <3>3
  <2>9. CASE RetryLater
    BY <2>9 DEF CountedBefore, RetryLater, EndRound
  <2>10. CASE StartFailover
    BY <2>10 DEF StartFailover
  <2>11. CASE FailoverSnapshot
    BY <2>11 DEF FailoverSnapshot, FailoverSucceeded, EndRound
  <2>12. CASE FailoverSwitched
    BY <2>12 DEF FailoverSwitched, FailoverSucceeded, EndRound
  <2>13. CASE FailoverFailsOpen
    BY <2>13 DEF FailoverFailsOpen, FailoverSucceeded, EndRound
  <2>14. CASE FailoverFailed
    BY <2>14 DEF CountedBefore, FailoverFailed, EndRound
  <2>15. CASE UserConnects
    BY <2>15 DEF CountedBefore, UserConnects
  <2>16. CASE ConditionChanges
    BY <2>16 DEF CountedBefore, ConditionChanges
  <2>17. CASE OtherLocks
    BY <2>17 DEF CountedBefore, OtherLocks
  <2>18. CASE OtherUnlocks
    BY <2>18 DEF CountedBefore, OtherUnlocks
  <2>19. CASE RetryElapses
    BY <2>19 DEF CountedBefore, RetryElapses
  <2>20. CASE UNCHANGED vars
    BY <2>20 DEF CountedBefore, vars
  <2> QED
    BY <2>1, <2>2, <2>3, <2>4, <2>5, <2>6, <2>7, <2>8, <2>9, <2>10, <2>11, <2>12,
       <2>13, <2>14, <2>15, <2>16, <2>17, <2>18, <2>19, <2>20 DEF Next, RoundStep
<1> QED
  BY <1>1, <1>2

\* As long as the state file can be read, a failover starts only after at
\* least one failure less than the threshold was seen in a row on the route it
\* replaces, whatever other processes connect during the rounds.
THEOREM FailoverNearlyConfirmedTheorem == Spec => []FailoverNearlyConfirmed
<1>1. CountInv => FailoverNearlyConfirmed
  <2> SUFFICES ASSUME CountInv, pc = "switch", ~blind PROVE FailoverNearlyConfirmed
    BY DEF FailoverNearlyConfirmed
  <2>1. seen.n \in Nat /\ failures \in Nat /\ Threshold(result) \in Nat
    <3>1. seen.n \in 0 .. 4 /\ failures \in 0 .. 4
      BY DEF CountInv, RouteInv, TypeInv, TypeOK
    <3> QED
      BY <3>1 DEF Threshold
  <2>2. /\ class = result
        /\ Threshold(class) <= failures
        /\ failures <= seen.n + 1
    BY DEF CountInv, CountOK, Counts, DueSteps
  <2>3. seen.route = checked /\ seen.class = result
    BY DEF CountInv, RouteInv, SeenOK, CheckedOK, TypeInv, RoundOK, CountSteps
  <2> QED
    BY <2>1, <2>2, <2>3 DEF FailoverNearlyConfirmed
<1> QED
  BY <1>1, CountStep, PTL DEF Spec

-----------------------------------------------------------------------------
(* The health jobs *)

\* A job of the management HTTP server is numbered by at most the number of jobs.
Numbered == web.seq <= made

\* A tracked run of the HTTP server is the one of a check: a write job has no run,
\* so the end of a write never releases the mutex of a run.
RunOfCheck == run.pc # "none" /\ run.kind = "http" => web.kind = "check"

JobsInv == JobsTypeOK /\ Numbered /\ RunOfCheck /\ CancelBoundToCheck

-----------------------------------------------------------------------------
\* The numbers of the jobs.
LEMMA JobFacts ==
    /\ Job \subseteq Nat /\ Pass \in Job /\ 0 \in Job
    /\ \A n \in Job : n < MaxJobs => n + 1 \in Job
    /\ \A m, n \in Job : m <= n /\ n < MaxJobs => m + 1 \in Job /\ m + 1 <= n + 1
    /\ 1 .. MaxJobs \subseteq Job
BY JobsAssumption DEF Job, Pass

\* The records a client, the loop, the job tracker and a run fall back to.
LEMMA Resting ==
    /\ NoCall \in [pc : {"idle"}, status : Status, job : Job]
    /\ IdleLoop \in [pc : {"poll"}, kind : {"none"}, job : Job]
    /\ IdleWeb \in [pc : {"none"}, seq : {0}, kind : {"none"}, job : Job, cancelled : {0}]
    /\ NoRun \in [pc : {"none"}, kind : {"none"}, job : Job, cancelled : {FALSE}, stray : {FALSE}]
BY JobFacts DEF NoCall, IdleLoop, IdleWeb, NoRun, Status, Busy

\* The daemon starts with nothing in progress.
LEMMA JobsInitially == JobsInit => JobsInv
<1> SUFFICES ASSUME JobsInit PROVE JobsInv
  OBVIOUS
<1>1. JobsTypeOK
  <2>1. progress \in [status : Status, job : Job]
    BY JobFacts DEF JobsInit, Status
  <2>2. 0 \in 0 .. MaxRestarts
    BY JobsAssumption
  <2> QED
    BY <2>1, <2>2, JobFacts, Resting DEF JobsInit, JobsTypeOK
<1>2. Numbered /\ RunOfCheck /\ CancelBoundToCheck
  BY Resting DEF JobsInit, Numbered, RunOfCheck, CancelBoundToCheck
<1> QED
  BY <1>1, <1>2 DEF JobsInv

\* A step that leaves the daemon and the counters alone and keeps the files and
\* the clients well formed keeps the invariant.
LEMMA FilesOnly ==
    ASSUME JobsInv, UNCHANGED <<daemon, restarts>>,
           made' \in Job, made <= made',
           (/\ request \in Job \cup {None}
            /\ progress \in [status : Status, job : Job]
            /\ marker \in [job : Job, status : Status] \cup {None}
            /\ client \in [Client -> [pc : {"idle", "clear", "announce", "request", "withdraw", "mark", "report"},
                                      status : Status, job : Job]])'
    PROVE  JobsInv'
<1>1. web.seq \in Nat /\ made \in Nat /\ made' \in Nat
  BY JobFacts DEF JobsInv, JobsTypeOK
<1>2. Numbered'
  BY <1>1 DEF JobsInv, Numbered, daemon
<1> QED
  BY <1>2 DEF JobsInv, JobsTypeOK, RunOfCheck, CancelBoundToCheck, daemon

\* A step of LuCI.
LEMMA ClientKeeps ==
    ASSUME JobsInv, NEW c \in Client, QueueHealthCheck(c) \/ CancelHealthCheck(c) \/ ClientStep(c)
    PROVE  JobsInv'
<1> DEFINE Calls == [pc : {"idle", "clear", "announce", "request", "withdraw", "mark", "report"},
                     status : Status, job : Job]
<1>1. /\ client \in [Client -> Calls] /\ made \in Job /\ made <= made
      /\ request \in Job \cup {None}
      /\ progress \in [status : Status, job : Job]
      /\ marker \in [job : Job, status : Status] \cup {None}
  BY JobFacts DEF JobsInv, JobsTypeOK
<1>2. \A st \in {"queued", "cancelled", "cancelling"} : st \in Status
  BY DEF Status, Busy
<1>3. \A next \in {"idle", "clear", "announce", "request", "withdraw", "mark", "report"} :
        Step(c, next) => client' \in [Client -> Calls]
  BY <1>1 DEF Step
<1>4. Return(c) => client' \in [Client -> Calls]
  BY <1>1, Resting DEF Return
<1>5. client[c] \in Calls
  BY <1>1
<1> HIDE DEF Calls
<1>6. CASE QueueHealthCheck(c)
  <2>1. made + 1 \in Job /\ made' = made + 1 /\ made <= made'
    BY <1>1, <1>6, JobFacts DEF QueueHealthCheck
  <2>2. [pc |-> "clear", status |-> "queued", job |-> made + 1] \in Calls
    BY <2>1, <1>2 DEF Calls
  <2>3. client' \in [Client -> Calls]
    BY <1>1, <1>6, <2>2 DEF QueueHealthCheck, Call
  <2> QED
    BY <1>1, <1>6, <2>1, <2>3, FilesOnly DEF QueueHealthCheck, files, Calls
<1>7. CASE CancelHealthCheck(c)
  <2>1. [pc |-> "withdraw", status |-> progress.status, job |-> progress.job] \in Calls
    BY <1>1 DEF Calls
  <2>2. client' \in [Client -> Calls]
    BY <1>1, <1>7, <2>1 DEF CancelHealthCheck, Call
  <2> QED
    BY <1>1, <1>7, <2>2, FilesOnly DEF CancelHealthCheck, files, Calls
<1>8. CASE QueueClear(c)
  BY <1>1, <1>3, <1>8, FilesOnly DEF QueueClear, Calls
<1>9. CASE QueueAnnounce(c)
  <2>1. progress' \in [status : Status, job : Job]
    BY <1>2, <1>5, <1>9 DEF QueueAnnounce, Calls
  <2> QED
    BY <1>1, <1>3, <1>9, <2>1, FilesOnly DEF QueueAnnounce, Calls
<1>10. CASE QueueRequest(c)
  <2>1. request' \in Job
    BY <1>5, <1>10 DEF QueueRequest, Calls
  <2> QED
    BY <1>1, <1>4, <1>10, <2>1, FilesOnly DEF QueueRequest, Calls
<1>11. CASE CancelRequest(c)
  BY <1>1, <1>3, <1>11, FilesOnly DEF CancelRequest, Calls
<1>12. CASE CancelMark(c)
  <2>1. marker' \in [job : Job, status : Status]
    BY <1>5, <1>12 DEF CancelMark, Calls
  <2> QED
    BY <1>1, <1>3, <1>12, <2>1, FilesOnly DEF CancelMark, Calls
<1>13. CASE CancelReport(c)
  <2>1. progress' \in [status : Status, job : Job]
    BY <1>2, <1>5, <1>13 DEF CancelReport, Calls
  <2> QED
    BY <1>1, <1>4, <1>13, <2>1, FilesOnly DEF CancelReport, Calls
<1> QED
  BY <1>6, <1>7, <1>8, <1>9, <1>10, <1>11, <1>12, <1>13 DEF ClientStep

\* Every step of the system keeps the invariant.
LEMMA JobsStep == JobsInv /\ [JobsNext]_jobsVars => JobsInv'
<1> SUFFICES ASSUME JobsInv, [JobsNext]_jobsVars PROVE JobsInv'
  OBVIOUS
<1> USE DEF files, daemon
<1>a. \A st \in {"running", "completed", "failed", "cancelled"} : st \in Status
  BY DEF Status, Busy
<1>1. CASE \E c \in Client : QueueHealthCheck(c) \/ CancelHealthCheck(c) \/ ClientStep(c)
  BY <1>1, ClientKeeps
<1> USE DEF JobsInv, JobsTypeOK, Numbered, RunOfCheck, CancelBoundToCheck
<1>2. CASE LoopRead
  BY <1>2 DEF LoopRead
<1>3. CASE LoopConsume
  BY <1>3 DEF LoopConsume
<1>4. CASE LoopDue
  BY <1>4, JobFacts DEF LoopDue
<1>5. CASE LoopLock
  BY <1>5 DEF LoopLock, StartRun
<1>6. CASE \E kind \in {"check", "write"} : WebStart(kind)
  <2> PICK kind \in {"check", "write"} : WebStart(kind)
    BY <1>6
  <2>1. /\ made' \in Job /\ made' = made + 1
        /\ web.seq + 1 \in Job /\ web.seq + 1 <= made'
    BY JobFacts DEF WebStart
  <2>2. /\ web' \in [pc : {"none", "lock", "run"}, seq : Job, kind : {"none", "check", "write"},
                       job : Job, cancelled : Job]
        /\ web'.pc = "lock" /\ web'.cancelled = 0 /\ web'.seq <= made'
    BY <2>1, JobFacts DEF WebStart
  <2>3. web.pc = "none" /\ UNCHANGED <<files, client, loop, run, healthMu, restarts>>
    BY DEF WebStart
  <2>4. run.pc # "none" => run.kind # "http"
    BY <2>3
  <2>5. Numbered' /\ CancelBoundToCheck' /\ RunOfCheck'
    BY <2>2, <2>3, <2>4
  <2>6. JobsTypeOK'
    BY <2>1, <2>2, <2>3
  <2> QED
    BY <2>5, <2>6
<1>7. CASE WebLock
  <2>1. CASE web.kind = "check"
    <3>1. \A b \in BOOLEAN : StartRun("http", web.job, b) =>
            run' \in [pc : {"announce"}, kind : {"http"}, job : Job,
                     cancelled : BOOLEAN, stray : BOOLEAN]
      BY DEF StartRun
    <3>2. run' \in [pc : {"announce"}, kind : {"http"}, job : Job,
                    cancelled : BOOLEAN, stray : BOOLEAN]
      BY <1>7, <2>1, <3>1, Zenon DEF WebLock
    <3> QED
      BY <1>7, <2>1, <3>2 DEF WebLock
  <2>2. CASE web.kind # "check"
    BY <1>7, <2>2 DEF WebLock
  <2> QED
    BY <2>1, <2>2
<1>8. CASE WebWriteDone
  BY <1>8 DEF WebWriteDone
<1>9. CASE \E n \in 1 .. MaxJobs : CancelCheck(n)
  <2> PICK n \in 1 .. MaxJobs : CancelCheck(n)
    BY <1>9
  <2>1. /\ n \in Job /\ web.seq = n /\ web.kind = "check"
        /\ web' = [web EXCEPT !.cancelled = n]
        /\ UNCHANGED <<files, client, loop, healthMu, made, restarts>>
    BY JobFacts DEF CancelCheck
  <2>2. /\ run' \in [pc : {run.pc}, kind : {run.kind}, job : Job,
                      cancelled : BOOLEAN, stray : BOOLEAN]
    BY DEF CancelCheck
  <2> QED
    BY <2>1, <2>2
<1>10. CASE RunSweep
  BY <1>10 DEF RunSweep
<1>11. CASE RunAnnounce
  BY <1>11, <1>a DEF RunAnnounce
<1>12. CASE RunReport
  BY <1>12, <1>a DEF RunReport
<1>13. CASE RunStop
  BY <1>13, Resting, ZenonT(60) DEF RunStop
<1>14. CASE RunProgress
  BY <1>14, <1>a DEF RunProgress
<1>15. CASE SeeMarker
  BY <1>15, ZenonT(60) DEF SeeMarker
<1>16. CASE WatchLocks
  BY <1>16 DEF WatchLocks
<1>17. CASE WatchUnlocks
  BY <1>17 DEF WatchUnlocks
<1>18. CASE DaemonRestarts
  <2>1. restarts' \in 0 .. MaxRestarts
    BY <1>18, JobsAssumption DEF DaemonRestarts
  <2> QED
    <3>1. /\ loop' \in [pc : {"poll"}, kind : {"none"}, job : Job]
          /\ web' \in [pc : {"none"}, seq : {0}, kind : {"none"}, job : Job, cancelled : {0}]
          /\ run' \in [pc : {"none"}, kind : {"none"}, job : Job, cancelled : {FALSE}, stray : {FALSE}]
          /\ healthMu' = "free" /\ UNCHANGED <<files, client, made>>
      BY <1>18, Resting DEF DaemonRestarts
    <3>2. 0 \in Job /\ 0 <= made'
      BY <3>1, JobFacts
    <3> QED
      BY <2>1, <3>1, <3>2
<1>19. CASE UNCHANGED jobsVars
  BY <1>19 DEF jobsVars
<1> QED
  BY <1>1, <1>2, <1>3, <1>4, <1>5, <1>6, <1>7, <1>8, <1>9, <1>10, <1>11, <1>12, <1>13,
     <1>14, <1>15, <1>16, <1>17, <1>18, <1>19 DEF JobsNext, LoopStep, RunStep

\* For any number of LuCI calls, jobs and restarts the records of the three files and
\* of the daemon stay well formed, and the health mutex is held by the caller of the
\* one run in progress (scheduler.go, healthMu).
THEOREM JobsTypeCorrect == JobsSpec => []JobsTypeOK
<1>1. JobsInv => JobsTypeOK
  BY DEF JobsInv
<1> QED
  BY <1>1, JobsInitially, JobsStep, PTL DEF JobsSpec

\* For any number of jobs a cancellation of the panel is bound to the check whose
\* number it names, whatever job was started after that check (jobs.go, cancelCheck).
THEOREM CancelBoundToCheckTheorem == JobsSpec => []CancelBoundToCheck
<1>1. JobsInv => CancelBoundToCheck
  BY DEF JobsInv
<1> QED
  BY <1>1, JobsInitially, JobsStep, PTL DEF JobsSpec
===============================================================================
