------------------------------ MODULE HealthJobs ------------------------------
(***************************************************************************)
(* Health checks on demand (internal/cli/health_background.go, the health  *)
(* loop of internal/app/scheduler.go and internal/managementhttp/jobs.go). *)
(*                                                                         *)
(* LuCI talks to the daemon through three files that no lock protects: a   *)
(* request, a progress record and a cancellation marker.  The daemon polls *)
(* the request, runs scheduled passes, and runs the jobs of the management *)
(* HTTP server; a run of either kind holds the scheduler's health mutex,   *)
(* reports to the progress file and watches for the marker.                *)
(*                                                                         *)
(* One action is one access to a file or one critical section.  A job is a *)
(* number; Pass stands for every scheduled pass.  The marker carries, as   *)
(* history, the job its writer meant and the status it had read.           *)
(***************************************************************************)
EXTENDS Scheduler, Naturals

CONSTANTS
    Client,       \* LuCI calls that may be in progress at the same time
    MaxJobs,      \* bound on queued requests and HTTP jobs
    MaxRestarts,  \* bound on restarts of the daemon
    Scheduled,    \* is health_check_interval greater than zero?
    Cancels,      \* does anybody cancel through LuCI?
    Http          \* is the management HTTP server enabled?

ASSUME JobsAssumption ==
    /\ MaxJobs \in Nat
    /\ MaxRestarts \in Nat
    /\ {Scheduled, Cancels, Http} \subseteq BOOLEAN
    /\ None \notin Nat

VARIABLES
    request,    \* health-check.request
    progress,   \* health-check-progress.json
    marker,     \* health-check.cancel
    client,     \* the calls of LuCI in progress
    loop,       \* the health loop
    web,        \* jobTracker.current, and the goroutine of that job
    run,        \* runTrackedHealthCheckResult: only one, its caller holds the mutex
    made,       \* the number of jobs so far
    restarts

files == <<request, progress, marker>>
daemon == <<loop, web, run, healthMu>>
jobsVars == <<files, client, daemon, made, restarts>>

Pass == 0
Job == 0 .. MaxJobs

Busy == {"running", "cancelling"}
Status == Busy \cup {"idle", "queued", "cancelled", "completed", "failed"}

NoCall == [pc |-> "idle", status |-> "idle", job |-> Pass]
NoRun == [pc |-> "none", kind |-> "none", job |-> Pass, cancelled |-> FALSE, stray |-> FALSE]
IdleLoop == [pc |-> "poll", kind |-> "none", job |-> Pass]
IdleWeb == [pc |-> "none", seq |-> 0, kind |-> "none", job |-> Pass, cancelled |-> 0]

JobsInit ==
    /\ request = None
    /\ progress = [status |-> "idle", job |-> Pass]
    /\ marker = None
    /\ client = [c \in Client |-> NoCall]
    /\ loop = IdleLoop
    /\ web = IdleWeb
    /\ run = NoRun
    /\ healthMu = "free"
    /\ made = 0
    /\ restarts = 0

-----------------------------------------------------------------------------
(* LuCI: queueHealthCheck and cancelHealthCheck *)

Call(c, pc, status, job) == client' = [client EXCEPT ![c] = [pc |-> pc, status |-> status, job |-> job]]
Step(c, pc) == client' = [client EXCEPT ![c].pc = pc]
Return(c) == client' = [client EXCEPT ![c] = NoCall]

\* A busy progress is returned as it is; the command prints "queued" all the same.
QueueHealthCheck(c) ==
    /\ client[c].pc = "idle"
    /\ progress.status \notin Busy
    /\ made < MaxJobs
    /\ made' = made + 1
    /\ Call(c, "clear", "queued", made + 1)
    /\ UNCHANGED <<files, daemon, restarts>>

QueueClear(c) ==
    /\ client[c].pc = "clear"
    /\ marker' = None
    /\ Step(c, "announce")
    /\ UNCHANGED <<request, progress, daemon, made, restarts>>

QueueAnnounce(c) ==
    /\ client[c].pc = "announce"
    /\ progress' = [status |-> "queued", job |-> client[c].job]
    /\ Step(c, "request")
    /\ UNCHANGED <<request, marker, daemon, made, restarts>>

QueueRequest(c) ==
    /\ client[c].pc = "request"
    /\ request' = client[c].job
    /\ Return(c)
    /\ UNCHANGED <<progress, marker, daemon, made, restarts>>

\* The record read here is written back three steps later.
CancelHealthCheck(c) ==
    /\ Cancels
    /\ client[c].pc = "idle"
    /\ progress.status \in Busy \cup {"queued"}
    /\ Call(c, "withdraw", progress.status, progress.job)
    /\ UNCHANGED <<files, daemon, made, restarts>>

CancelRequest(c) ==
    /\ client[c].pc = "withdraw"
    /\ request' = None
    /\ Step(c, "mark")
    /\ UNCHANGED <<progress, marker, daemon, made, restarts>>

CancelMark(c) ==
    /\ client[c].pc = "mark"
    /\ marker' = [job |-> client[c].job, status |-> client[c].status]
    /\ Step(c, "report")
    /\ UNCHANGED <<request, progress, daemon, made, restarts>>

CancelReport(c) ==
    /\ client[c].pc = "report"
    /\ progress' = [status |-> IF client[c].status = "queued" THEN "cancelled" ELSE "cancelling",
                    job |-> client[c].job]
    /\ Return(c)
    /\ UNCHANGED <<request, marker, daemon, made, restarts>>

ClientStep(c) ==
    \/ QueueClear(c) \/ QueueAnnounce(c) \/ QueueRequest(c)
    \/ CancelRequest(c) \/ CancelMark(c) \/ CancelReport(c)

-----------------------------------------------------------------------------
(* The health loop *)

\* consumeHealthCheckRequest reads the file, then removes it.
LoopRead ==
    /\ loop.pc = "poll"
    /\ request # None
    /\ loop' = [pc |-> "consume", kind |-> "queued", job |-> request]
    /\ UNCHANGED <<files, client, web, run, healthMu, made, restarts>>

\* Mutant: a request that vanished between the read and the removal is dropped.
LoopConsumeOnce ==
    /\ loop.pc = "consume"
    /\ request' = None
    /\ loop' = IF request = loop.job THEN [loop EXCEPT !.pc = "lock"] ELSE IdleLoop
    /\ UNCHANGED <<progress, marker, client, web, run, healthMu, made, restarts>>

LoopConsume ==
    /\ loop.pc = "consume"
    /\ request' = None
    /\ loop' = [loop EXCEPT !.pc = "lock"]
    /\ UNCHANGED <<progress, marker, client, web, run, healthMu, made, restarts>>

\* The interval has passed, and no request was found.
LoopDue ==
    /\ Scheduled
    /\ loop.pc = "poll"
    /\ request = None
    /\ loop' = [pc |-> "lock", kind |-> "scheduled", job |-> Pass]
    /\ UNCHANGED <<files, client, web, run, healthMu, made, restarts>>

StartRun(kind, job, cancelled) ==
    run' = [pc |-> IF kind = "scheduled" THEN "sweep" ELSE "announce",
            kind |-> kind, job |-> job, cancelled |-> cancelled, stray |-> FALSE]

LoopLock ==
    /\ loop.pc = "lock"
    /\ healthMu = "free"
    /\ healthMu' = "loop"
    /\ loop' = [loop EXCEPT !.pc = "run"]
    /\ StartRun(loop.kind, loop.job, FALSE)
    /\ UNCHANGED <<files, client, web, made, restarts>>

LoopStep == LoopRead \/ LoopConsume \/ LoopLock

-----------------------------------------------------------------------------
(* Jobs of the management HTTP server *)

\* jobTracker.start: one job at a time.  A check runs a tracked health check,
\* any other job ("write") changes settings, subscriptions or the connection.
WebStart(kind) ==
    /\ Http
    /\ web.pc = "none"
    /\ made < MaxJobs
    /\ made' = made + 1
    /\ web' = [pc |-> "lock", seq |-> web.seq + 1, kind |-> kind, job |-> made + 1, cancelled |-> 0]
    /\ UNCHANGED <<files, client, loop, run, healthMu, restarts>>

\* RunExclusiveHealthOperation
WebLock ==
    /\ web.pc = "lock"
    /\ healthMu = "free"
    /\ healthMu' = "web"
    /\ web' = [web EXCEPT !.pc = "run"]
    /\ IF web.kind = "check" THEN StartRun("http", web.job, web.cancelled # 0) ELSE UNCHANGED run
    /\ UNCHANGED <<files, client, loop, made, restarts>>

WebWriteDone ==
    /\ web.pc = "run"
    /\ web.kind = "write"
    /\ healthMu' = "free"
    /\ web' = [web EXCEPT !.pc = "none"]
    /\ UNCHANGED <<files, client, loop, run, made, restarts>>

\* Mutant: the sequence number is ignored.
CancelCheckCurrent(n) ==
    /\ web.pc # "none"
    /\ n <= web.seq
    /\ web.kind = "check"
    /\ web.cancelled = 0
    /\ web' = [web EXCEPT !.cancelled = n]
    /\ run' = IF run.kind = "http" THEN [run EXCEPT !.cancelled = TRUE] ELSE run
    /\ UNCHANGED <<files, client, loop, healthMu, made, restarts>>

\* cancelCheck(n): n is a sequence number some browser saw earlier.
CancelCheck(n) ==
    /\ web.pc # "none"
    /\ web.seq = n
    /\ web.kind = "check"
    /\ web.cancelled = 0
    /\ web' = [web EXCEPT !.cancelled = n]
    /\ run' = IF run.kind = "http" THEN [run EXCEPT !.cancelled = TRUE] ELSE run
    /\ UNCHANGED <<files, client, loop, healthMu, made, restarts>>

-----------------------------------------------------------------------------
(* runTrackedHealthCheckResult *)

\* A scheduled pass first removes a marker that was left behind.
RunSweep ==
    /\ run.pc = "sweep"
    /\ marker' = None
    /\ run' = [run EXCEPT !.pc = "announce"]
    /\ UNCHANGED <<request, progress, client, loop, web, healthMu, made, restarts>>

RunAnnounce ==
    /\ run.pc = "announce"
    /\ progress' = [status |-> "running", job |-> run.job]
    /\ run' = [run EXCEPT !.pc = "work"]
    /\ UNCHANGED <<request, marker, client, loop, web, healthMu, made, restarts>>

\* The callback writes the whole record again for every node that was probed.
RunProgress ==
    /\ run.pc = "work"
    /\ progress' = [status |-> "running", job |-> run.job]
    /\ UNCHANGED <<request, marker, client, daemon, made, restarts>>

\* watchHealthCheckCancellation, until the run is stopped.
SeeMarker ==
    /\ run.pc \in {"work", "stop"}
    /\ ~run.cancelled
    /\ marker # None
    /\ marker' = None
    /\ run' = [run EXCEPT !.cancelled = TRUE, !.stray = marker.job # run.job]
    /\ UNCHANGED <<request, progress, client, loop, web, healthMu, made, restarts>>

\* Mutant: a cancelled run does not report.
RunReportSilent ==
    /\ run.pc = "work"
    /\ \E outcome \in {"completed", "failed"} :
         progress' = IF run.cancelled THEN progress ELSE [status |-> outcome, job |-> run.job]
    /\ run' = [run EXCEPT !.pc = "stop"]
    /\ UNCHANGED <<request, marker, client, loop, web, healthMu, made, restarts>>

RunReport ==
    /\ run.pc = "work"
    /\ \E outcome \in {"completed", "failed"} :
         progress' = [status |-> IF run.cancelled THEN "cancelled" ELSE outcome, job |-> run.job]
    /\ run' = [run EXCEPT !.pc = "stop"]
    /\ UNCHANGED <<request, marker, client, loop, web, healthMu, made, restarts>>

\* Mutant: the mutex is not released.
RunStopHeld ==
    /\ run.pc = "stop"
    /\ marker' = None
    /\ run' = NoRun
    /\ IF run.kind = "http"
         THEN web' = [web EXCEPT !.pc = "none"] /\ UNCHANGED loop
         ELSE loop' = IdleLoop /\ UNCHANGED web
    /\ UNCHANGED <<request, progress, client, healthMu, made, restarts>>

\* The deferred end: the watcher is stopped and the marker removed, then the
\* caller releases the mutex.
RunStop ==
    /\ run.pc = "stop"
    /\ marker' = None
    /\ run' = NoRun
    /\ healthMu' = "free"
    /\ IF run.kind = "http"
         THEN web' = [web EXCEPT !.pc = "none"] /\ UNCHANGED loop
         ELSE loop' = IdleLoop /\ UNCHANGED web
    /\ UNCHANGED <<request, progress, client, made, restarts>>

RunStep == RunSweep \/ RunAnnounce \/ RunReport \/ RunStop

-----------------------------------------------------------------------------
\* A round of the connection watch holds the mutex, too.
WatchLocks ==
    /\ healthMu = "free"
    /\ healthMu' = "watch"
    /\ UNCHANGED <<files, client, loop, web, run, made, restarts>>

WatchUnlocks ==
    /\ healthMu = "watch"
    /\ healthMu' = "free"
    /\ UNCHANGED <<files, client, loop, web, run, made, restarts>>

\* The daemon stops, without waiting for a run, and is started again: the files
\* stay as they are, the jobs of the HTTP server are numbered from one again.
DaemonRestarts ==
    /\ restarts < MaxRestarts
    /\ restarts' = restarts + 1
    /\ loop' = IdleLoop
    /\ web' = IdleWeb
    /\ run' = NoRun
    /\ healthMu' = "free"
    /\ UNCHANGED <<files, client, made>>

JobsNext ==
    \/ \E c \in Client : QueueHealthCheck(c) \/ CancelHealthCheck(c) \/ ClientStep(c)
    \/ LoopStep \/ LoopDue
    \/ \E kind \in {"check", "write"} : WebStart(kind)
    \/ WebLock \/ WebWriteDone
    \/ \E n \in 1 .. MaxJobs : CancelCheck(n)
    \/ RunStep \/ RunProgress \/ SeeMarker
    \/ WatchLocks \/ WatchUnlocks \/ DaemonRestarts

JobsSpec == JobsInit /\ [][JobsNext]_jobsVars

\* A call of LuCI ends, the loop polls every second and starts due passes, a
\* run is bounded by the timeouts of its probes, and the mutex is handed to
\* every waiting goroutine in the end.
JobsFairSpec ==
    /\ JobsSpec
    /\ \A c \in Client : WF_jobsVars(ClientStep(c))
    /\ WF_jobsVars(LoopRead \/ LoopConsume \/ LoopDue) /\ SF_jobsVars(LoopLock)
    /\ SF_jobsVars(WebLock) /\ WF_jobsVars(WebWriteDone)
    /\ WF_jobsVars(RunStep)
    /\ WF_jobsVars(WatchUnlocks)

-----------------------------------------------------------------------------
\* Types of the three files, the clients, the health loop and the job tracker.
JobsTypeOK ==
    /\ request \in Job \cup {None}
    /\ progress \in [status : Status, job : Job]
    /\ marker \in [job : Job, status : Status] \cup {None}
    /\ client \in [Client -> [pc : {"idle", "clear", "announce", "request", "withdraw", "mark", "report"},
                              status : Status, job : Job]]
    /\ loop \in [pc : {"poll", "consume", "lock", "run"},
                 kind : {"none", "queued", "scheduled"}, job : Job]
    /\ web \in [pc : {"none", "lock", "run"}, seq : Job, kind : {"none", "check", "write"},
                job : Job, cancelled : Job]
    /\ run \in [pc : {"none", "sweep", "announce", "work", "stop"},
                kind : {"none", "queued", "scheduled", "http"}, job : Job,
                cancelled : BOOLEAN, stray : BOOLEAN]
    /\ made \in Job
    /\ restarts \in 0 .. MaxRestarts
    /\ healthMu = "loop" <=> loop.pc = "run"
    /\ healthMu = "web" <=> web.pc = "run"
    /\ run.pc # "none" => healthMu = IF run.kind = "http" THEN "web" ELSE "loop"

\* jobs.go:78: a cancellation of the panel hits the check it was meant for,
\* never a write or an operation that replaced the check.
CancelBoundToCheck ==
    web.cancelled # 0 => web.cancelled = web.seq /\ web.kind = "check"

\* Once a request is written, a health check on demand follows it, whatever
\* passes, jobs and rounds of the watch compete for the mutex, unless the daemon
\* is restarted or somebody cancels.
QueueAnswered ==
    \A r \in 0 .. MaxRestarts :
        request # None /\ restarts = r ~>
            \/ run.kind = "queued" /\ run.pc = "work"
            \/ restarts # r
            \/ \E c \in Client : client[c].pc = "mark"

\* Every job of the management HTTP server ends.
HttpJobEnds == web.pc # "none" ~> web.pc = "none"

\* As long as scheduled passes are on, neither a killed daemon nor a
\* cancellation that came too late leaves the progress busy for good.
ProgressRecovers == progress.status \in Busy ~> progress.status \notin Busy

\* Not so in the code (README, departures): health_background.go:200 says of a marker left by a cancelled queued
\* request: "It must not cancel an unrelated scheduled pass."
ScheduledNotCancelled ==
    ~(run.kind = "scheduled" /\ run.cancelled /\ run.stray)
=============================================================================
