--------------------------- MODULE ConnectionWatch ---------------------------
(***************************************************************************)
(* The connection watch of the daemon's scheduler (internal/app/           *)
(* scheduler.go): every 30 seconds one round checks the active route, and  *)
(* a failure that repeats on the same route starts a failover.             *)
(*                                                                         *)
(* A round reads the state file three times without a lock, so a connect   *)
(* made by another process may fall between any two of its steps.  A route *)
(* is a number: recoveryRouteKey contains the time of the last switch and  *)
(* the generation of the configuration, so every switch makes a new key.   *)
(* What a failover does to the route is module RouteSwitch; here it        *)
(* changes the route it was started for, or fails.                         *)
(***************************************************************************)
EXTENDS Scheduler, Naturals

CONSTANTS
    Unknown,        \* the key of a state file that could not be read
    MaxRoutes,      \* bound on the number of routes
    StatusFaults    \* may a read of the state file fail?

ASSUME WatchAssumption ==
    /\ MaxRoutes \in Nat \ {0}
    /\ StatusFaults \in BOOLEAN
    /\ None \notin Nat
    /\ Unknown \notin Nat
    /\ None # Unknown

VARIABLES
    route,      \* the key of the active route
    condition,  \* what a check of the active route finds
    pc,         \* the next step of the round in progress, or "idle"
    checked,    \* checkedRoute of the round
    result,     \* what its check found
    failures,   \* Scheduler.recoveryFailures, capped at the threshold
    class,      \* Scheduler.recoveryFailureClass
    key,        \* Scheduler.recoveryRouteKey
    last,       \* Scheduler.lastRecoveryAt, seen from now
    seen,       \* history: the latest failed checks in a row of one route
    blind       \* history: has a round used the key of a state that could not be read?

world == <<route, condition>>
found == <<checked, result>>
counts == <<failures, class, key>>
history == <<seen, blind>>
vars == <<world, healthMu, pc, found, counts, last, history>>

\* What a check finds: no need to recover, a failure of the runtime, a failed
\* GET, or nothing because it could not be made.
Failing == {"runtime", "egress"}
Conditions == Failing \cup {"ok", "error"}
Route == 1 .. MaxRoutes
Key == Route \cup {Unknown}

\* An explicit runtime failure needs two rounds, a failed GET four.
Threshold(c) == IF c = "egress" THEN 4 ELSE 2

RoundSteps == {"idle", "read", "check", "compare", "count", "due", "failover", "switch"}

\* Mutant: a round that forgets its place but not its mutex.
EndRoundHeld == /\ pc' = "idle"
                /\ checked' = None
                /\ result' = "ok"
                /\ UNCHANGED healthMu

\* The deferred unlock at the end of a round.
EndRound == /\ pc' = "idle"
            /\ checked' = None
            /\ result' = "ok"
            /\ healthMu' = "free"

\* currentRecoveryRouteKey: the routes a read may return.
CurrentRecoveryRouteKey == {route} \cup (IF StatusFaults THEN {Unknown} ELSE {})

-----------------------------------------------------------------------------
Init ==
    /\ route = 1
    /\ condition \in Conditions
    /\ healthMu = "free"
    /\ pc = "idle"
    /\ checked = None
    /\ result = "ok"
    /\ failures = 0
    /\ class = ""
    /\ key = None
    /\ last = "never"
    /\ seen = [route |-> 1, class |-> "", n |-> 0]
    /\ blind = FALSE

\* A tick of the watch: the round is skipped while a health pass runs.
TryLock ==
    /\ pc = "idle"
    /\ healthMu = "free"
    /\ healthMu' = "watch"
    /\ pc' = "read"
    /\ UNCHANGED <<world, found, counts, last, history>>

ReadRoute ==
    /\ pc = "read"
    /\ \E k \in CurrentRecoveryRouteKey :
         /\ checked' = k
         /\ blind' = (blind \/ k = Unknown)
    /\ pc' = "check"
    /\ UNCHANGED <<world, healthMu, result, counts, last, seen>>

\* What the check found is remembered per route by the history.
Observed(c) ==
    [route |-> route, class |-> c,
     n |-> IF seen.route = route /\ seen.class = c /\ seen.n < Threshold(c)
             THEN seen.n + 1
             ELSE IF seen.route = route /\ seen.class = c THEN seen.n ELSE 1]

\* ConnectionRecoveryNeeded, of the route that is active by now.
Check ==
    /\ pc = "check"
    /\ pc' = "compare"
    /\ result' = condition
    /\ seen' = IF condition \in Failing
                 THEN Observed(condition)
                 ELSE [route |-> route, class |-> "", n |-> 0]
    /\ UNCHANGED <<world, healthMu, checked, counts, last, blind>>

\* Mutant: the early return for a failed check sits before the deferred unlock.
CheckFailedHeld ==
    /\ pc = "compare"
    /\ result = "error"
    /\ failures' = 0
    /\ class' = ""
    /\ pc' = "idle"
    /\ UNCHANGED <<world, healthMu, found, key, last, history>>

\* A check that could not be made counts for nothing.
CheckFailed ==
    /\ pc = "compare"
    /\ result = "error"
    /\ failures' = 0
    /\ class' = ""
    /\ EndRound
    /\ UNCHANGED <<world, key, last, history>>

\* The route was replaced while it was checked.
Discard ==
    /\ pc = "compare"
    /\ result # "error"
    /\ \E k \in CurrentRecoveryRouteKey \ {checked} : blind' = (blind \/ k = Unknown)
    /\ failures' = 0
    /\ key' = None
    /\ EndRound
    /\ UNCHANGED <<world, class, last, seen>>

Healthy ==
    /\ pc = "compare"
    /\ result = "ok"
    /\ checked \in CurrentRecoveryRouteKey
    /\ last' = "never"
    /\ failures' = 0
    /\ key' = None
    /\ EndRound
    /\ UNCHANGED <<world, class, history>>

SameRoute ==
    /\ pc = "compare"
    /\ result \in Failing
    /\ checked \in CurrentRecoveryRouteKey
    /\ pc' = "count"
    /\ UNCHANGED <<world, healthMu, found, counts, last, history>>

\* Mutant: the route is not compared.
CountedAnyRoute(k, c) ==
    IF c = class
      THEN IF failures < Threshold(c) THEN failures + 1 ELSE failures
      ELSE 1

\* The failures so far are forgotten when the route or the class is another.
Counted(k, c) ==
    IF k = key /\ c = class
      THEN IF failures < Threshold(c) THEN failures + 1 ELSE failures
      ELSE 1

\* The key is read a third time, and the failure is counted for that key.
Count ==
    /\ pc = "count"
    /\ \E k \in CurrentRecoveryRouteKey :
         /\ failures' = Counted(k, result)
         /\ key' = k
         /\ class' = result
         /\ blind' = (blind \/ k = Unknown)
         /\ IF Counted(k, result) < Threshold(result)
              THEN EndRound
              ELSE pc' = "due" /\ UNCHANGED <<healthMu, found>>
    /\ UNCHANGED <<world, last, seen>>

\* A failover that failed is not repeated before recoveryRetryInterval.
RetryLater ==
    /\ pc = "due"
    /\ last = "recent"
    /\ EndRound
    /\ UNCHANGED <<world, counts, last, history>>

StartFailover ==
    /\ pc = "due"
    /\ last # "recent"
    /\ last' = "recent"
    /\ pc' = "failover"
    /\ UNCHANGED <<world, healthMu, found, counts, history>>

FailoverSucceeded ==
    /\ last' = "never"
    /\ failures' = 0
    /\ key' = None
    /\ UNCHANGED <<class, history>>
    /\ EndRound

\* Mutant: the failover is not bound to the route that was checked.
FailoverSnapshotAny ==
    /\ pc = "failover"
    /\ pc' = "switch"
    /\ UNCHANGED <<world, healthMu, found, counts, last, history>>

\* runConnectionFailoverForRoute does nothing for a route that is gone.
FailoverSnapshot ==
    /\ pc = "failover"
    /\ IF checked = route
         THEN /\ pc' = "switch"
              /\ UNCHANGED <<world, healthMu, found, counts, last, history>>
         ELSE /\ FailoverSucceeded
              /\ UNCHANGED world

\* The snapshot still holds, and a verified replacement is in use.
FailoverSwitched ==
    /\ pc = "switch"
    /\ checked = route
    /\ route < MaxRoutes
    /\ route' = route + 1
    /\ condition' \in Conditions
    /\ FailoverSucceeded

\* No replacement was found and the runtime is gone: direct, from a snapshot
\* of its own that is not compared with the route of the round.
FailoverFailsOpen ==
    /\ pc = "switch"
    /\ result = "runtime"
    /\ route < MaxRoutes
    /\ route' = route + 1
    /\ condition' \in Conditions
    /\ FailoverSucceeded

\* No replacement was found, or the snapshot does not hold any more.
FailoverFailed ==
    /\ pc = "switch"
    /\ EndRound
    /\ UNCHANGED <<world, counts, last, history>>

RoundStep ==
    \/ ReadRoute \/ Check
    \/ CheckFailed \/ Discard \/ Healthy \/ SameRoute
    \/ Count \/ RetryLater \/ StartFailover
    \/ FailoverSnapshot \/ FailoverSwitched \/ FailoverFailsOpen \/ FailoverFailed

-----------------------------------------------------------------------------
\* A connect, or any other operation that changes the key, of any process.
UserConnects ==
    /\ route < MaxRoutes
    /\ route' = route + 1
    /\ condition' \in Conditions
    /\ UNCHANGED <<healthMu, pc, found, counts, last, history>>

ConditionChanges ==
    /\ condition' \in Conditions \ {condition}
    /\ UNCHANGED <<healthMu, pc, found, counts, last, history, route>>

\* A periodic or triggered health pass, or a management operation.
OtherLocks ==
    /\ healthMu = "free"
    /\ healthMu' = "other"
    /\ UNCHANGED <<world, pc, found, counts, last, history>>

OtherUnlocks ==
    /\ healthMu = "other"
    /\ healthMu' = "free"
    /\ UNCHANGED <<world, pc, found, counts, last, history>>

\* recoveryRetryInterval has passed since the latest failover.
RetryElapses ==
    /\ last = "recent"
    /\ last' = "elapsed"
    /\ UNCHANGED <<world, healthMu, pc, found, counts, history>>

Next ==
    \/ TryLock \/ RoundStep
    \/ UserConnects \/ ConditionChanges
    \/ OtherLocks \/ OtherUnlocks \/ RetryElapses

Spec == Init /\ [][Next]_vars

\* Every call of a round has a timeout; a health pass ends; time passes; and
\* the passes leave gaps in which a tick of the watch finds the mutex free.
FairSpec ==
    /\ Spec
    /\ WF_vars(RoundStep)
    /\ WF_vars(OtherUnlocks)
    /\ WF_vars(RetryElapses)
    /\ SF_vars(TryLock)

-----------------------------------------------------------------------------
\* Types of the route key, of the scheduler's fields and of the round in progress; the
\* health mutex is the watch's exactly while a round is in progress.
TypeOK ==
    /\ route \in Route
    /\ condition \in Conditions
    /\ healthMu \in {"free", "watch", "other"}
    /\ pc \in RoundSteps
    /\ checked \in Key \cup {None}
    /\ result \in Conditions
    /\ failures \in 0 .. 4
    /\ class \in Failing \cup {""}
    /\ key \in Key \cup {None}
    /\ last \in {"never", "recent", "elapsed"}
    /\ seen \in [route : Route, class : Failing \cup {""}, n : 0 .. 4]
    /\ blind \in BOOLEAN
    /\ (healthMu = "watch") <=> pc # "idle"

\* The resets of runConnectionWatchOnce keep the count of a round within one
\* of the failures in a row that were really seen on the route a failover
\* replaces, whatever other processes connect in between, as long as the state
\* file could be read.
FailoverNearlyConfirmed ==
    pc = "switch" /\ ~blind => /\ seen.route = checked
                              /\ seen.class = result
                              /\ seen.n >= Threshold(result) - 1

\* Even when the state file cannot be read at times, a failover is started
\* only for a route whose own check failed in that very round.
FailoverOfFailedRoute ==
    pc = "switch" => /\ seen.route = checked
                    /\ seen.class = result
                    /\ seen.n >= 1

\* A route that keeps failing in the same way is failed over, again and again
\* until it is replaced, if the state file can be read: neither the resets, nor
\* the retry interval, nor the mutex shared with the health passes stops the watch.
FailureServed ==
    \A c \in Failing : <>[](condition = c /\ ~blind) => []<>(pc = "failover")

=============================================================================
