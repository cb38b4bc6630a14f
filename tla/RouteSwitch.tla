------------------------------ MODULE RouteSwitch ------------------------------
(***************************************************************************)
(* Moving the router's traffic between VPN nodes and the direct outbound:  *)
(* applyNodeSelection with its managed (live balancer) and static (reload) *)
(* paths, activateManagedDirect, disconnect, restoreRuntime, and the       *)
(* recovery watcher that starts failovers.                                 *)
(*                                                                         *)
(* Every such operation runs inside the inter-process store lock, so at    *)
(* most one is in progress: `job' is the operation that holds the lock,    *)
(* and one action is one call it makes that can fail or be cut off by a    *)
(* crash.  The watcher's probing runs outside the lock.                    *)
(*                                                                         *)
(* A config file is named by the route it starts with: a node, or Direct   *)
(* for a config rendered with StartDirect.                                 *)
(***************************************************************************)
EXTENDS RuntimeState, Naturals

CONSTANTS
    StrictEgress,  \* settings.StrictEgressCheck
    ApiFaults,     \* Xray API, reload, DNS and firewall calls may fail
    SaveFaults,    \* writes of state.json and of the Xray config may fail
    Deaths,        \* what may die: a "client", the "daemon", the whole "router"
    Expiry,        \* subscriptions may expire and be renewed
    Pauses,        \* candidate backoff is kept (it bounds the state space to drop it)
    UserModes      \* the modes a user's connect command asks for

ASSUME FaultSwitches == /\ {StrictEgress, ApiFaults, SaveFaults, Expiry, Pauses} \subseteq BOOLEAN
                        /\ Deaths \subseteq {"client", "daemon", "router"}
ASSUME ConnectModes == UserModes \subseteq {"manual", "auto"}

VARIABLES
    st,      \* state.json
    fresh,   \* it has not been written since the watcher's last snapshot
    xr,      \* the Xray process: run, the balancer override, the config it booted with
    cfg,     \* the Xray config file
    lkg,     \* its last-known-good copy
    fw,      \* nftables interception is installed
    dns,     \* dnsmasq forwards to Xray
    net,     \* per node: up, down, or up with its subscription expired
    paused,  \* state.json: the nodes whose CandidateBackoff has not run out
    job,     \* the operation that holds the store lock
    watch,   \* the connection watcher's failover in progress
    booted   \* the daemon has finished RestoreRuntime

file == <<st, fresh>>
vars == <<st, fresh, xr, cfg, lkg, fw, dns, net, paused, job, watch, booted>>

Conf == Tag \cup {None}
XrayProcess == [run : BOOLEAN, target : Conf, boot : Conf]
NodeStatus == {"up", "down"} \cup IF Expiry THEN {"expired"} ELSE {}

\* The operation record.  pc is its next call, by who started it, cand and mode
\* its goal, old the state it loaded, dr the direct-recovery flag, on is
\* opts.rollbackOnVerificationFail, rb the captured rollback config, skip is
\* opts.skipManagedProbe, live tells the managed from the static path, and
\* probes counts the candidate's successful probes.
PCs == {"idle", "pin", "prepare", "same", "probe", "confirm", "intent", "select",
        "egress", "persist", "switched", "undo", "preserve",
        "static", "verify", "repin", "rollback", "dns", "firewall", "final",
        "stopfw", "stopdns", "stopxray", "stopped",
        "fointent", "foselect", "fopersist", "fofinal", "fofailed",
        "restore", "restored"}

Job == [pc : PCs, by : {"none", "user", "watch", "failopen", "restore"},
        cand : Node \cup {None}, mode : Mode, old : RuntimeStates, dr : BOOLEAN,
        on : BOOLEAN, rb : Conf, skip : BOOLEAN, live : BOOLEAN, probes : 0..2]

NoJob == [pc |-> "idle", by |-> "none", cand |-> None, mode |-> "disconnected",
          old |-> DefaultRuntimeState, dr |-> FALSE, on |-> FALSE, rb |-> None,
          skip |-> FALSE, live |-> FALSE, probes |-> 0]

\* The watcher's failover.  reserve: it is at its first choice, a retained
\* reserve; from: the failed route of its snapshot, None when that was direct;
\* mode and opens (ShouldFailOpenDirect) come from its first snapshot.
NoWatch == [phase |-> "idle", reserve |-> FALSE, from |-> None, mode |-> "disconnected",
            opens |-> FALSE]
Watch == [phase : {"idle", "probing", "committing", "retry", "failopen", "fallback"},
          reserve : BOOLEAN, from : Node \cup {None}, mode : Mode, opens : BOOLEAN]

\* Types of the files, the runtime, the operation under the lock and the failover.
TypeOK ==
    /\ st \in RuntimeStates
    /\ fresh \in BOOLEAN
    /\ xr \in XrayProcess
    /\ cfg \in Conf
    /\ lkg \in Conf
    /\ fw \in BOOLEAN
    /\ dns \in BOOLEAN
    /\ net \in [Node -> NodeStatus]
    /\ paused \in SUBSET Node
    /\ job \in Job
    /\ watch \in Watch
    /\ booted \in BOOLEAN

-------------------------------------------------------------------------------
(* The runtime as its callers see it. *)

\* Where a new connection leaves: the balancer override, or before any override
\* the node (or the fallback) of the config the process was started with.
Route == IF ~xr.run THEN None ELSE IF xr.target # None THEN xr.target ELSE xr.boot

\* An HTTPS GET through tag t can succeed.
Carries(t) == t = Direct \/ (t \in Node /\ net[t] # "down")

\* The results of a call that cannot succeed unless `possible', and may fail.
Result(possible, faults) ==
    {r \in BOOLEAN : (r => possible) /\ (~r => ~possible \/ faults)}

\* SelectOutbound: the override is read back, so success is certain; an error
\* may hide an override that took effect.
SelectOutbound(tag) ==
    {r \in [ok : Result(xr.run, ApiFaults), target : {xr.target, tag}] :
        (r.ok => r.target = tag) /\ (~xr.run => r.target = xr.target)}

\* PersistConfig tests the config, writes it, then its last-known-good copy.
PersistConfig(c) ==
    {r \in [ok : Result(TRUE, ApiFaults \/ SaveFaults), cfg : {cfg, c}, lkg : {lkg, c}] :
        IF r.ok THEN r.cfg = c /\ r.lkg = c
        ELSE r.lkg = lkg /\ (r.cfg = cfg \/ SaveFaults)}

\* CaptureRollback prefers the last-known-good copy to the config itself.
RollbackData == IF lkg # None THEN lkg ELSE cfg

Stopped == [run |-> FALSE, target |-> None, boot |-> None]
Started(c) == IF c = None THEN Stopped ELSE [run |-> TRUE, target |-> None, boot |-> c]

\* ApplyConfig: test the config, keep the rollback data, write, reload, and on a
\* failed reload write the rollback data back and reload once more.
ApplyConfig(c) ==
    {r \in [ok : BOOLEAN, cfg : {cfg, c, RollbackData}, lkg : {lkg, c, RollbackData},
            xr : {xr, Started(c), Started(RollbackData), Stopped}] :
        \/ r.ok /\ r.cfg = c /\ r.lkg = c /\ (r.xr = Started(c) \/ (ApiFaults /\ r.xr = Stopped))
        \/ /\ ~r.ok /\ r.cfg = cfg /\ r.xr = xr
           /\ \/ (ApiFaults \/ SaveFaults) /\ r.lkg = lkg
              \/ SaveFaults /\ r.lkg = RollbackData
        \/ ~r.ok /\ SaveFaults /\ r.cfg = c /\ r.lkg = RollbackData /\ r.xr = Started(c)
        \/ /\ ~r.ok /\ ApiFaults /\ r.cfg = RollbackData /\ r.lkg = RollbackData
           /\ r.xr \in {xr, Started(RollbackData), Stopped}}

-------------------------------------------------------------------------------
(* Shared steps of an operation. *)

\* saveState(s): every write differs from the one before (timestamps, reasons).
Save(s, ok) == /\ st' = IF ok THEN Saved(s) ELSE st
               /\ fresh' = (fresh /\ ~ok)
SaveOK == Result(TRUE, SaveFaults)
CallOK == Result(TRUE, ApiFaults)

Goto(pc) == /\ job' = [job EXCEPT !.pc = pc]
            /\ UNCHANGED <<watch, booted>>

\* Where a failover goes when its choice of a node came to nothing.
AfterFailure ==
    CASE watch.reserve -> [watch EXCEPT !.phase = "retry"]
      [] ~watch.reserve /\ watch.opens -> [watch EXCEPT !.phase = "failopen"]
      [] OTHER -> NoWatch

\* Mutant: a failover that gives up keeps its in-progress mark.
EndJobStuck(success) ==
    /\ job' = NoJob
    /\ booted' = (booted \/ job.by = "restore")
    /\ watch' = IF job.by \in {"watch", "failopen"} /\ success THEN NoWatch ELSE watch

\* The operation returns and the lock is released.
EndJob(success) ==
    /\ job' = NoJob
    /\ booted' = (booted \/ job.by = "restore")
    /\ watch' = CASE job.by = "watch" -> IF success THEN NoWatch ELSE AfterFailure
                  [] job.by = "failopen" -> NoWatch
                  [] OTHER -> watch

\* applyNodeSelection returns an error: restoreRuntime takes the transport down,
\* every other caller passes the error on.
FailJob == IF job.by = "restore" THEN Goto("stopfw") ELSE EndJob(FALSE)

\* handleNodeSelectionFailure: markConnectionFailed unless persistFailure is off.
SelectionFailed == IF job.by = "restore" THEN FailJob ELSE Goto("stopfw")

\* A job that runs applyNodeSelection for node n; state is what it loads.
ApplyJob(by, n, m, skip) ==
    [NoJob EXCEPT !.pc = "pin", !.by = by, !.cand = n, !.mode = m, !.skip = skip,
                  !.old = [st EXCEPT !.transport = EffectiveActiveTransport(st)],
                  !.dr = DirectRecovery(st),
                  !.on = by # "restore" /\ st.connected /\ st.node # None]

At(pc) == job.pc = pc

-------------------------------------------------------------------------------
(* tryManagedNodeSelection: switch the live balancer. *)

\* The tag traffic returns to when the switch fails.
FromTag == IF job.dr THEN Direct ELSE job.old.node

\* resolveNodeAddress or another preparation fails before anything was touched.
ResolveFails ==
    /\ At("pin") /\ ApiFaults
    /\ FailJob
    /\ UNCHANGED <<file, xr, cfg, lkg, fw, dns, net, paused>>

\* Pin the current route so that it has a readback value; a runtime without the
\* management API, or nothing to return to, leads to the static path.
PinCurrent ==
    /\ At("pin")
    /\ \/ /\ (~job.old.connected /\ ~job.dr) \/ job.old.node = None
          /\ Goto("static")
          /\ UNCHANGED xr
       \/ /\ job.dr
          /\ \E r \in SelectOutbound(Direct) :
                /\ xr' = [xr EXCEPT !.target = r.target]
                /\ Goto(IF r.ok THEN "prepare" ELSE "static")
       \/ /\ job.old.connected /\ ~job.dr /\ job.old.node # None
          /\ \E prepared \in Result(xr.run, ApiFaults) :
                IF prepared
                THEN \E r \in SelectOutbound(job.old.node) :
                        /\ xr' = [xr EXCEPT !.target = r.target]
                        /\ Goto(IF r.ok THEN "prepare" ELSE "preserve")
                ELSE Goto("static") /\ UNCHANGED xr
    /\ UNCHANGED <<file, cfg, lkg, fw, dns, net, paused>>

\* Add the candidate's outbound, unless a recent failure pauses its retry.
PrepareCandidate ==
    /\ At("prepare")
    /\ \E prepared \in Result(xr.run, ApiFaults) :
          Goto(CASE ~prepared \/ job.cand \in paused -> "preserve"
                 [] job.cand = FromTag -> "same"
                 [] job.skip /\ ~job.dr -> "intent"
                 [] OTHER -> "probe")
    /\ UNCHANGED <<file, xr, cfg, lkg, fw, dns, net, paused>>

\* The candidate is the current outbound: only the startup config is rewritten.
PersistSame ==
    /\ At("same")
    /\ \E r \in PersistConfig(job.cand) :
          /\ cfg' = r.cfg /\ lkg' = r.lkg
          /\ IF r.ok THEN /\ job' = [job EXCEPT !.pc = "final", !.live = TRUE]
                          /\ UNCHANGED <<watch, booted>>
             ELSE Goto("preserve")
    /\ UNCHANGED <<file, xr, fw, dns, net, paused>>

\* One HTTPS GET through the candidate's own probe inbound.  A failure is
\* recorded (which saves the state) and the candidate's outbound is removed.
Probe(next) ==
    \E good \in Result(xr.run /\ Carries(job.cand), ApiFaults) :
       IF good THEN /\ job' = [job EXCEPT !.pc = next, !.probes = @ + 1]
                    /\ UNCHANGED <<file, paused, watch, booted>>
       ELSE /\ Goto("preserve")
            /\ \E ok \in SaveOK :
                  /\ Save(st, ok)
                  /\ paused' = IF ok /\ Pauses THEN paused \cup {job.cand} ELSE paused

\* Mutant: the confirming probe is left out.
ProbeCandidateOnce ==
    /\ At("probe")
    /\ Probe("intent")
    /\ UNCHANGED <<xr, cfg, lkg, fw, dns, net>>

ProbeCandidate ==
    /\ At("probe")
    /\ Probe(IF job.dr THEN "confirm" ELSE "intent")
    /\ UNCHANGED <<xr, cfg, lkg, fw, dns, net>>

\* The second probe of a return from direct, after the confirmation delay.
ConfirmCandidate ==
    /\ At("confirm")
    /\ Probe("intent")
    /\ UNCHANGED <<xr, cfg, lkg, fw, dns, net>>

SwitchIntent ==
    [job.old EXCEPT !.op = "recovering", !.managed = TRUE,
                    !.cur = [kind |-> "switch_outbound", from |-> FromTag, to |-> job.cand]]

\* Mutant: the switch starts before its intent is on disk.
SaveIntentLater ==
    /\ At("intent")
    /\ Goto("select")
    /\ UNCHANGED <<file, xr, cfg, lkg, fw, dns, net, paused>>

SaveIntent ==
    /\ At("intent")
    /\ \E ok \in SaveOK : Save(SwitchIntent, ok) /\ Goto(IF ok THEN "select" ELSE "preserve")
    /\ UNCHANGED <<xr, cfg, lkg, fw, dns, net, paused>>

\* A failed selection is reported without selecting the old target again.
SelectCandidate ==
    /\ At("select")
    /\ \E r \in SelectOutbound(job.cand) :
          /\ xr' = [xr EXCEPT !.target = r.target]
          /\ Goto(IF r.ok THEN "egress" ELSE "preserve")
    /\ UNCHANGED <<file, cfg, lkg, fw, dns, net, paused>>

\* ensureBackendEgress, when the setting asks for it.
EnsureEgress ==
    /\ At("egress")
    /\ \E good \in IF StrictEgress THEN Result(Carries(Route), ApiFaults) ELSE {TRUE} :
          Goto(IF good THEN "persist" ELSE "undo")
    /\ UNCHANGED <<file, xr, cfg, lkg, fw, dns, net, paused>>

\* Mutant: a failed write of the startup config does not undo the switch.
PersistSwitchedNoUndo ==
    /\ At("persist")
    /\ \E r \in PersistConfig(job.cand) :
          /\ cfg' = r.cfg /\ lkg' = r.lkg
          /\ Goto(IF r.ok THEN "switched" ELSE "preserve")
    /\ UNCHANGED <<file, xr, fw, dns, net, paused>>

PersistSwitched ==
    /\ At("persist")
    /\ \E r \in PersistConfig(job.cand) :
          /\ cfg' = r.cfg /\ lkg' = r.lkg
          /\ Goto(IF r.ok THEN "switched" ELSE "undo")
    /\ UNCHANGED <<file, xr, fw, dns, net, paused>>

\* The second save of the intent (the outbound roles change, the rest stays).
SaveSwitched ==
    /\ At("switched")
    /\ \E ok \in SaveOK :
          /\ Save(SwitchIntent, ok)
          /\ IF ok THEN /\ job' = [job EXCEPT !.pc = "final", !.live = TRUE]
                        /\ UNCHANGED <<watch, booted>>
             ELSE Goto("undo")
    /\ UNCHANGED <<xr, cfg, lkg, fw, dns, net, paused>>

\* Mutant: the undo forgets the balancer.
UndoSelectForgotten ==
    /\ At("undo")
    /\ Goto("preserve")
    /\ UNCHANGED <<file, xr, cfg, lkg, fw, dns, net, paused>>

\* Select the old target again; an error here is only reported.
UndoSelect ==
    /\ At("undo")
    /\ \E r \in SelectOutbound(FromTag) : xr' = [xr EXCEPT !.target = r.target]
    /\ Goto("preserve")
    /\ UNCHANGED <<file, cfg, lkg, fw, dns, net, paused>>

\* Mutant: the failed switch leaves its intent in the state.
PreservedIntent ==
    [st EXCEPT !.node = job.old.node, !.mode = job.old.mode, !.transport = job.old.transport,
               !.connected = TRUE]

\* The old selection is written back over whatever the attempt saved, and
\* persistPreservedConnection marks it connected.
Preserved ==
    [st EXCEPT !.node = job.old.node, !.mode = job.old.mode, !.transport = job.old.transport,
               !.cur = NoOperation, !.op = "vpn", !.connected = TRUE]

PreserveConnection ==
    /\ At("preserve")
    /\ \E ok \in SaveOK : Save(Preserved, ok)
    /\ FailJob
    /\ UNCHANGED <<xr, cfg, lkg, fw, dns, net, paused>>

-------------------------------------------------------------------------------
(* The static path of applyNodeSelection: reload Xray with the new config. *)

ApplyStatic ==
    /\ At("static")
    /\ \E r \in ApplyConfig(job.cand) :
          /\ cfg' = r.cfg /\ lkg' = r.lkg /\ xr' = r.xr
          /\ IF r.ok THEN /\ job' = [job EXCEPT !.pc = "verify",
                                                !.rb = IF job.on THEN RollbackData ELSE None]
                          /\ UNCHANGED <<watch, booted>>
             ELSE SelectionFailed
    /\ UNCHANGED <<file, fw, dns, net, paused>>

\* ensureBackendRunning, then ensureBackendEgress.
VerifyStatic ==
    /\ At("verify")
    /\ \E good \in Result(xr.run /\ (StrictEgress => Carries(Route)), ApiFaults) :
          Goto(IF good THEN "repin" ELSE "rollback")
    /\ UNCHANGED <<file, xr, cfg, lkg, fw, dns, net, paused>>

\* PrepareOutbound and SelectOutbound pin the reloaded balancer.
PinReloaded ==
    /\ At("repin")
    /\ \E prepared \in Result(xr.run, ApiFaults) :
          IF prepared
          THEN \E r \in SelectOutbound(job.cand) :
                  /\ xr' = [xr EXCEPT !.target = r.target]
                  /\ Goto(IF r.ok THEN "dns" ELSE "rollback")
          ELSE Goto("rollback") /\ UNCHANGED xr
    /\ UNCHANGED <<file, cfg, lkg, fw, dns, net, paused>>

\* handlePostApplyVerificationFailure: reload the captured config and keep the
\* previous selection; without one, record the failure and take the transport
\* down.
RollbackVerification ==
    /\ At("rollback")
    /\ \/ /\ job.rb # None
          /\ cfg' = job.rb /\ xr' = Started(job.rb)
          /\ \E ok \in SaveOK : Save([st EXCEPT !.connected = TRUE], ok)
          /\ FailJob
       \/ /\ job.rb = None \/ ApiFaults
          /\ cfg' \in IF job.rb = None THEN {cfg} ELSE {cfg, job.rb}
          /\ xr' \in IF job.rb = None THEN {xr} ELSE {xr, Stopped}
          /\ \E ok \in SaveOK :
                Save(st, ok) /\ IF ok THEN SelectionFailed ELSE FailJob
    /\ UNCHANGED <<lkg, fw, dns, net, paused>>

ApplyDNS ==
    /\ At("dns")
    /\ \E ok \in CallOK : IF ok THEN dns' = TRUE /\ Goto("firewall")
                          ELSE dns' \in BOOLEAN /\ SelectionFailed
    /\ UNCHANGED <<file, xr, cfg, lkg, fw, net, paused>>

\* Mutant: the interception is left as it is.
ApplyFirewallSkipped ==
    /\ At("firewall")
    /\ Goto("final")
    /\ UNCHANGED <<file, xr, cfg, lkg, fw, dns, net, paused>>

\* Apply deletes the old table first, so a failed apply leaves no interception.
ApplyFirewall ==
    /\ At("firewall")
    /\ \E ok \in CallOK : IF ok THEN fw' = TRUE /\ Goto("final")
                          ELSE fw' \in {fw, FALSE} /\ SelectionFailed
    /\ UNCHANGED <<file, xr, cfg, lkg, dns, net, paused>>

\* The end of applyNodeSelection on either path: write the new selection with
\* the target read back from the balancer.
Selection(readback) ==
    [job.old EXCEPT !.node = job.cand, !.mode = job.mode, !.connected = TRUE, !.op = "vpn",
                    !.cur = NoOperation, !.transport = "proxy",
                    !.sel = IF readback THEN xr.target ELSE @,
                    !.managed = IF job.live THEN st.managed ELSE @ \/ readback]

\* The failover saves the state once more (the reason of the switch), and counts
\* an error there as a failed switch.
CommitSelection ==
    /\ At("final")
    /\ \E readback \in Result(xr.run /\ xr.target # None, ApiFaults), ok \in SaveOK :
          /\ Save(Selection(readback), ok)
          /\ IF ok THEN \E noted \in SaveOK : EndJob(noted \/ job.by # "watch") ELSE FailJob
    /\ UNCHANGED <<xr, cfg, lkg, fw, dns, net, paused>>

-------------------------------------------------------------------------------
(* stopProxyTransport and what its callers save: markConnectionFailed,      *)
(* disconnect, persistRestoreFailure and restoreRuntime of a disconnected   *)
(* state.                                                                   *)

\* Mutant: the backend is stopped while DNS still points to it.
DisableFirewallOnly ==
    /\ At("stopfw")
    /\ fw' = FALSE /\ Goto("stopxray")
    /\ UNCHANGED <<file, xr, cfg, lkg, dns, net, paused>>

DisableFirewall ==
    /\ At("stopfw")
    /\ \E ok \in CallOK : IF ok THEN fw' = FALSE /\ Goto("stopdns")
                          ELSE UNCHANGED fw /\ EndJob(FALSE)
    /\ UNCHANGED <<file, xr, cfg, lkg, dns, net, paused>>

DisableDNS ==
    /\ At("stopdns")
    /\ \E ok \in CallOK : IF ok THEN dns' = FALSE /\ Goto("stopxray")
                          ELSE UNCHANGED dns /\ EndJob(FALSE)
    /\ UNCHANGED <<file, xr, cfg, lkg, fw, net, paused>>

StopBackend ==
    /\ At("stopxray")
    /\ \E ok \in CallOK : IF ok THEN xr' = Stopped /\ Goto("stopped")
                          ELSE UNCHANGED xr /\ EndJob(FALSE)
    /\ UNCHANGED <<file, cfg, lkg, fw, dns, net, paused>>

Down == [st EXCEPT !.connected = FALSE, !.transport = "direct"]

SaveStopped ==
    /\ At("stopped")
    /\ \E ok \in SaveOK :
          CASE job.by # "restore" /\ job.cand # None ->
                  /\ Save([Down EXCEPT !.node = job.cand, !.mode = job.mode], ok)
                  /\ EndJob(FALSE)
            [] job.by # "restore" /\ job.cand = None ->
                  /\ Save([Down EXCEPT !.node = None, !.mode = "disconnected"], ok)
                  /\ EndJob(ok)
            [] job.by = "restore" /\ job.cand # None -> Save(Down, ok) /\ EndJob(FALSE)
            [] OTHER -> UNCHANGED file /\ EndJob(TRUE)
    /\ UNCHANGED <<xr, cfg, lkg, fw, dns, net, paused>>

-------------------------------------------------------------------------------
(* activateManagedDirect: fail open to the direct outbound. *)

FailOpenIntent ==
    /\ At("fointent")
    /\ \E ok \in SaveOK :
          /\ Save([job.old EXCEPT !.op = "recovering", !.managed = TRUE,
                                  !.cur = [kind |-> "fail_open", from |-> job.old.sel, to |-> Direct]], ok)
          /\ IF ok THEN Goto("foselect") ELSE EndJob(FALSE)
    /\ UNCHANGED <<xr, cfg, lkg, fw, dns, net, paused>>

FailOpenSelect ==
    /\ At("foselect")
    /\ \E r \in SelectOutbound(Direct) :
          /\ xr' = [xr EXCEPT !.target = r.target]
          /\ Goto(IF r.ok THEN "fopersist" ELSE "fofailed")
    /\ UNCHANGED <<file, cfg, lkg, fw, dns, net, paused>>

\* A failed write of the direct startup config selects the old target again.
FailOpenPersist ==
    /\ At("fopersist")
    /\ \E r \in PersistConfig(Direct) :
          /\ cfg' = r.cfg /\ lkg' = r.lkg
          /\ Goto(IF r.ok THEN "fofinal" ELSE "fofailed")
          /\ IF r.ok \/ job.old.sel = None THEN UNCHANGED xr
             ELSE \E u \in SelectOutbound(job.old.sel) : xr' = [xr EXCEPT !.target = u.target]
    /\ UNCHANGED <<file, fw, dns, net, paused>>

\* Mutant: a failed fail-open returns without clearing its intent.
FailOpenFailedSilent ==
    /\ At("fofailed")
    /\ EndJob(FALSE)
    /\ UNCHANGED <<file, xr, cfg, lkg, fw, dns, net, paused>>

FailOpenFailed ==
    /\ At("fofailed")
    /\ \E ok \in SaveOK : Save([job.old EXCEPT !.cur = NoOperation], ok)
    /\ EndJob(FALSE)
    /\ UNCHANGED <<xr, cfg, lkg, fw, dns, net, paused>>

FailOpenDone ==
    /\ At("fofinal")
    /\ \E ok \in SaveOK :
          /\ Save([job.old EXCEPT !.op = "direct", !.sel = Direct, !.cur = NoOperation,
                                  !.managed = TRUE, !.connected = FALSE, !.transport = "direct"], ok)
          /\ EndJob(ok)
    /\ UNCHANGED <<xr, cfg, lkg, fw, dns, net, paused>>

-------------------------------------------------------------------------------
(* restoreRuntime, the first thing the daemon does. *)

ManagedDirect(s) == s.op = "direct" /\ (s.sel = Direct \/ s.managed) /\ s.node # None

RestoreRuntime ==
    /\ At("restore")
    /\ \/ /\ ManagedDirect(st)
          /\ \E running \in Result(xr.run, ApiFaults) :
                IF running
                THEN \E r \in SelectOutbound(Direct) :
                        /\ xr' = [xr EXCEPT !.target = r.target]
                        /\ IF r.ok THEN Goto("restored") ELSE EndJob(FALSE)
                ELSE UNCHANGED xr /\ EndJob(FALSE)
       \/ /\ ~ManagedDirect(st) /\ (~st.connected \/ st.node = None)
          /\ Goto("stopfw") /\ UNCHANGED xr
       \/ /\ ~ManagedDirect(st) /\ st.connected /\ st.node # None
          /\ job' = ApplyJob("restore", st.node, st.mode, FALSE)
          /\ UNCHANGED <<xr, watch, booted>>
    /\ UNCHANGED <<file, cfg, lkg, fw, dns, net, paused>>

RestoreDirect ==
    /\ At("restored")
    /\ \E ok \in SaveOK : Save([Down EXCEPT !.sel = Direct, !.cur = NoOperation], ok)
    /\ EndJob(TRUE)
    /\ UNCHANGED <<xr, cfg, lkg, fw, dns, net, paused>>

-------------------------------------------------------------------------------
(* Who starts an operation. *)

StartJob(j) ==
    /\ At("idle")
    /\ job' = j
    /\ UNCHANGED <<file, xr, cfg, lkg, fw, dns, net, paused, booted>>

\* ConnectManual, or the commit of ConnectAuto on the node it selected; the nodes
\* of an expired subscription are view-only.
Connect(n, m) == /\ net[n] # "expired"
                 /\ StartJob(ApplyJob("user", n, m, FALSE))
                 /\ UNCHANGED watch

Disconnect == StartJob([NoJob EXCEPT !.pc = "stopfw", !.by = "user"]) /\ UNCHANGED watch

StartDaemon ==
    /\ ~booted
    /\ StartJob([NoJob EXCEPT !.pc = "restore", !.by = "restore"])
    /\ UNCHANGED watch

\* connectionRecoveryNeeded, and the reason it gives.
RecoveryReason ==
    CASE st.mode = "disconnected" \/ InTransition(st) -> "none"
      [] ~st.connected \/ st.node = None -> "runtime"
      [] net[st.node] = "expired" \/ ~xr.run -> "runtime"
      [] ~Carries(Route) -> "get"
      [] OTHER -> "none"
RecoveryNeeded == RecoveryReason # "none"

FailedRoute(s) == IF s.op = "direct" THEN None ELSE s.node

\* The confirmed failure starts a failover from a snapshot taken in the lock.
WatchStart ==
    /\ booted /\ watch.phase = "idle" /\ RecoveryNeeded /\ st.node # None
    /\ At("idle")
    /\ fresh' = TRUE
    /\ watch' = [phase |-> "probing", reserve |-> TRUE, from |-> FailedRoute(st), mode |-> st.mode,
                 opens |-> ShouldFailOpenDirect(st, RecoveryReason)]
    /\ UNCHANGED <<st, xr, cfg, lkg, fw, dns, net, paused, job, booted>>

\* A replacement differs from the failed route, unless traffic is direct.
Replacements == {n \in Node : net[n] # "expired" /\ n # watch.from}

\* Commit a replacement if the snapshot still holds.  Reserves in backoff are
\* passed over, and one verified within the last minute is not probed again.
WatchCommit(n, verified) ==
    /\ watch.phase = "probing" /\ fresh /\ n \in Replacements
    /\ watch.reserve => n \notin paused
    /\ verified => watch.reserve /\ watch.from # None
    /\ StartJob(ApplyJob("watch", n, st.mode, verified))
    /\ watch' = [watch EXCEPT !.phase = "committing"]

\* No reserve was retained.
WatchNoReserve ==
    /\ watch.phase = "probing" /\ watch.reserve
    /\ watch' = [watch EXCEPT !.reserve = FALSE]
    /\ UNCHANGED <<file, xr, cfg, lkg, fw, dns, net, paused, job, booted>>

\* A reserve was tried in vain: the regular search starts from a new snapshot.
WatchRetry ==
    /\ watch.phase = "retry" /\ At("idle")
    /\ fresh' = TRUE
    /\ watch' = IF st.mode = watch.mode
                THEN [watch EXCEPT !.phase = "probing", !.reserve = FALSE, !.from = FailedRoute(st)]
                ELSE NoWatch
    /\ UNCHANGED <<st, xr, cfg, lkg, fw, dns, net, paused, job, booted>>

\* The snapshot does not hold any more: errAutoSelectionSnapshotChanged.  (Among
\* the reserves it only means that none was tried, as in WatchNoReserve.)
WatchDiscard ==
    /\ watch.phase \in {"probing", "fallback"} /\ ~watch.reserve
    /\ At("idle") /\ ~fresh
    /\ watch' = NoWatch
    /\ UNCHANGED <<file, xr, cfg, lkg, fw, dns, net, paused, job, booted>>

\* No healthy replacement is found in the snapshot (auto mode looks only at the
\* health it has cached): nothing is committed, so the snapshot is not compared,
\* and the fail-open decision follows.
WatchNoCandidate ==
    /\ watch.phase = "probing" /\ ~watch.reserve
    /\ \/ ApiFaults \/ watch.mode = "auto"
       \/ \A n \in Replacements : net[n] = "down"
    /\ watch' = AfterFailure
    /\ UNCHANGED <<file, xr, cfg, lkg, fw, dns, net, paused, job, booted>>

\* The fallback takes a snapshot of its own, in the lock, ...
FallbackSnapshot ==
    /\ watch.phase = "failopen" /\ At("idle")
    /\ fresh' = TRUE
    /\ watch' = [watch EXCEPT !.phase = "fallback", !.from = None]
    /\ UNCHANGED <<st, xr, cfg, lkg, fw, dns, net, paused, job, booted>>

\* ... and takes the lock again to use it.
FailOpen ==
    /\ watch.phase = "fallback" /\ fresh
    /\ StartJob([NoJob EXCEPT !.pc = "fointent", !.by = "failopen", !.old = st])
    /\ UNCHANGED watch

-------------------------------------------------------------------------------
(* The environment. *)

\* The steps that look at a node's status.  A change at another moment shows no
\* earlier than at the next of these, so it is taken there.
StatusReaders == {"idle", "probe", "confirm", "egress", "verify"}

NodeChanges(n, status) ==
    /\ job.pc \in StatusReaders
    /\ net[n] # status
    /\ net' = [net EXCEPT ![n] = status]
    /\ UNCHANGED <<file, xr, cfg, lkg, fw, dns, paused, job, watch, booted>>

\* Time passes a node's RetryAfter (which is only compared at the start of an
\* operation).
BackoffEnds(n) ==
    /\ At("idle") /\ n \in paused
    /\ paused' = paused \ {n}
    /\ UNCHANGED <<file, xr, cfg, lkg, fw, dns, net, job, watch, booted>>

\* The Xray process dies; its init script does not respawn it.
XrayDies ==
    /\ ApiFaults /\ xr.run
    /\ xr' = Stopped
    /\ UNCHANGED <<file, cfg, lkg, fw, dns, net, paused, job, watch, booted>>

\* A command-line client is killed in the middle of its command.
ClientDies ==
    /\ "client" \in Deaths /\ job.by = "user"
    /\ job' = NoJob
    /\ UNCHANGED <<file, xr, cfg, lkg, fw, dns, net, paused, watch, booted>>

\* The daemon is killed; procd starts it again.
DaemonDies ==
    /\ "daemon" \in Deaths /\ (booted \/ job.by = "restore")
    /\ job' = IF job.by = "user" THEN job ELSE NoJob
    /\ watch' = NoWatch /\ booted' = FALSE
    /\ UNCHANGED <<file, xr, cfg, lkg, fw, dns, net, paused>>

\* The router restarts.  nftables and dnsmasq snippets are in RAM; the Xray
\* service is enabled at boot and starts before the daemon.
Reboot ==
    /\ "router" \in Deaths
    /\ job' = NoJob /\ watch' = NoWatch /\ booted' = FALSE
    /\ fw' = FALSE /\ dns' = FALSE /\ xr' = Started(cfg)
    /\ UNCHANGED <<file, cfg, lkg, net, paused>>

-------------------------------------------------------------------------------
Init ==
    /\ st = DefaultRuntimeState /\ fresh = FALSE
    /\ xr = Stopped /\ cfg = None /\ lkg = None
    /\ fw = FALSE /\ dns = FALSE
    /\ net \in [Node -> NodeStatus] /\ paused = {}
    /\ job = NoJob /\ watch = NoWatch /\ booted = FALSE

JobStep ==
    \/ ResolveFails \/ PinCurrent \/ PrepareCandidate \/ PersistSame
    \/ ProbeCandidate \/ ConfirmCandidate \/ SaveIntent \/ SelectCandidate
    \/ EnsureEgress \/ PersistSwitched \/ SaveSwitched \/ UndoSelect
    \/ PreserveConnection
    \/ ApplyStatic \/ VerifyStatic \/ PinReloaded \/ RollbackVerification
    \/ ApplyDNS \/ ApplyFirewall \/ CommitSelection
    \/ DisableFirewall \/ DisableDNS \/ StopBackend \/ SaveStopped
    \/ FailOpenIntent \/ FailOpenSelect \/ FailOpenPersist \/ FailOpenFailed \/ FailOpenDone
    \/ RestoreRuntime \/ RestoreDirect

WatchStep ==
    \/ WatchStart \/ WatchNoReserve \/ WatchRetry \/ WatchDiscard \/ WatchNoCandidate
    \/ FallbackSnapshot \/ FailOpen
    \/ \E n \in Node, verified \in BOOLEAN : WatchCommit(n, verified)

Next ==
    \/ JobStep \/ WatchStep \/ StartDaemon \/ Disconnect
    \/ \E n \in Node, m \in UserModes : Connect(n, m)
    \/ \E n \in Node, status \in NodeStatus : NodeChanges(n, status)
    \/ \E n \in Node : BackoffEnds(n)
    \/ XrayDies \/ ClientDies \/ DaemonDies \/ Reboot

Spec == Init /\ [][Next]_vars

\* The calls of an operation return (each has a timeout), procd keeps the daemon
\* running, the blocking file lock is handed to every waiter in the end, the
\* watcher's loop goes on, and backoff times pass.
Fairness == /\ WF_vars(JobStep) /\ SF_vars(StartDaemon) /\ SF_vars(WatchStep)
            /\ \A n \in Node : SF_vars(BackoffEnds(n))

FairSpec == Spec /\ Fairness

-------------------------------------------------------------------------------
(* Safety. *)

\* Traffic or DNS is never handed to an Xray that is not running: the transport
\* is set up behind a verified backend (applyNodeSelection) and taken down in the
\* order firewall, DNS, backend (stopProxyTransport), whatever is cut off by a
\* failed save, a killed process or a reboot.
NoBlackhole == fw \/ dns => xr.run

\* Between operations the state describes the balancer: intercepted traffic that
\* leaves through a VPN node leaves through the node that state.json names, which it
\* says is connected, and a state that says direct has it on the direct outbound, so
\* that no failed, undone or abandoned switch leaves the balancer elsewhere.
RouteAsRecorded ==
    At("idle") /\ fw =>
        /\ Route \in Node => Route = st.node /\ st.connected
        /\ st.op = "direct" /\ xr.run => Route = Direct

\* Between operations of a booted daemon, a state that says VPN over a running
\* Xray has its interception installed, or the traffic would bypass the VPN.
RestoredIsIntercepted == At("idle") /\ booted /\ st.op = "vpn" /\ xr.run => fw

\* At every call of a live switch the outbound that carries traffic is one the
\* state file names (the active node, the selected tag or an end of the persisted
\* intent), so that a reboot at that moment finds it recorded.
IntentCoversRoute ==
    job.live \/ job.pc \in {"prepare", "same", "probe", "confirm", "intent", "select",
                            "egress", "persist", "switched", "undo", "preserve"} =>
        (fw /\ Route \in Tag => Route \in {st.node, st.sel, st.cur.from, st.cur.to})

\* When a live switch has failed and the old selection is about to be written
\* back, traffic is on the outbound it was on before, whichever write failed.
FailedSwitchReturns == At("preserve") /\ xr.run => Route = FromTag

\* A persisted intent (Recovering, CurrentOperation) lives only as long as its
\* operation: every error path of a switch or of a fail-open clears it.
NoOrphanIntent == At("idle") => ~InTransition(st)

\* A selected connection whose Xray is not running is seen by the recovery
\* watcher: no state left behind by an operation makes connectionRecoveryNeeded
\* look away.
RecoveryNotSuppressed ==
    At("idle") /\ booted /\ st.mode # "disconnected" /\ st.node # None /\ ~xr.run => RecoveryNeeded

\* A switch recorded as leaving the direct outbound moves traffic to a VPN node
\* only after two successful probes of that node.
ReturnConfirmed ==
    [][st.cur.from = Direct /\ Route = Direct /\ Route' \in Node => job.probes = 2]_vars

\* Not so in the code (README, departures): the fail-open that follows a failover is
\* about the route that failed, not about a connection the user made since.
NewerChoiceKept == [][FallbackSnapshot => watch.from = None \/ st.node \in {None, watch.from}]_vars

-------------------------------------------------------------------------------
(* Liveness. *)

\* The user stays away and every node works.
CalmWithNodesUp == job.by # "user" /\ \A n \in Node : net[n] = "up"

\* A persisted intent is resolved by its operation.
IntentResolved == InTransition(st) ~> ~InTransition(st)

\* While nodes work and the user stays away, a selected connection that is down is
\* brought up again.
RecoveryServed ==
    <>[]CalmWithNodesUp => <>[](st.mode = "disconnected" \/ st.connected)
===============================================================================
