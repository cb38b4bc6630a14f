-------------------------------- MODULE Zapret --------------------------------
(***************************************************************************)
(* The Zapret fallback: ZapretManager (openwrt/zapret.go), which borrows   *)
(* the files and the service of the zapret package, and the operations of  *)
(* app.Service that move traffic between the proxy transport, Zapret and   *)
(* the direct path: the test mode, the fallback of the automatic loop and  *)
(* its failback, the settings of the fallback, disconnect and restore.     *)
(*                                                                         *)
(* Every operation holds the store lock, so at most one is in progress.    *)
(* `todo' is what it still has to do: blocks of steps, each with the       *)
(* blocks that run instead when a step of it fails.  A step is one call    *)
(* that can fail or be the last one before the process is killed.          *)
(*                                                                         *)
(* How applyNodeSelection switches nodes is module RouteSwitch; here it is *)
(* one step with the outcomes that matter to Zapret.                       *)
(***************************************************************************)
EXTENDS Naturals, Sequences

CONSTANTS
    Node,       \* the nodes of the subscription
    Missing,    \* sets of files the user's installation may lack
    None,       \* no node, no test, no snapshot
    MaxFaults,  \* calls that fail and processes that are killed
    MaxEvents   \* operations begun, besides those of the automatic loop

ASSUME NodeAssumption == None \notin Node
ASSUME ZapretBounds == {MaxFaults, MaxEvents} \subseteq Nat

VARIABLES
    file,     \* the package's hostlist, ip list and config: whose content they hold
    backup,   \* the copies of the user's originals
    marker,   \* the marker file: Fast Lane manages the package
    svc,      \* the zapret service runs
    pkg,      \* the zapret package is installed
    proxy,    \* the proxy transport: "off", "xray" without interception, or "on"
    st,       \* state.json
    cfg,      \* settings.json: the fallback is enabled, what its selectors hold
    todo,     \* the blocks left of the operation that holds the store lock
    by,       \* that operation, or the last one
    goal,     \* the route it applies
    snap,     \* what the automatic loop read before it probed
    boot,     \* the daemon has started and not yet restored its route
    mine,     \* history: what the user last wrote to each file
    before,   \* history: the route the last test was started over
    odd,      \* history: what happened that the code does not put right
    faults, events

vars == <<file, backup, marker, svc, pkg, proxy, st, cfg, todo, by, goal, snap, boot, mine, before, odd, faults, events>>
disk == <<file, backup, marker>>
world == <<disk, svc, proxy>>
past == <<pkg, mine, before>>

Files == {"hostlist", "iplist", "config"}
Users == {"absent", "v1", "v2"}
Modes == {"manual", "auto", "disconnected"}
Transports == {"proxy", "zapret", "direct"}

Route == [node : Node \cup {None}, mode : Modes, conn : BOOLEAN, via : Transports]
NoRoute == [node |-> None, mode |-> "disconnected", conn |-> FALSE, via |-> "direct"]
RouteOf(s) == [f \in DOMAIN NoRoute |-> s[f]]
With(r, test) == [f \in DOMAIN NoRoute \cup {"test"} |-> IF f = "test" THEN test ELSE r[f]]

\* effectiveActiveTransport: a connected selection is never direct.
effectiveActiveTransport(s) ==
    IF s.via = "direct" /\ s.conn /\ s.node # None /\ s.mode # "disconnected" THEN "proxy" ELSE s.via

-------------------------------------------------------------------------------
(* Programs. *)

Block(steps, err) == [steps |-> steps, err |-> err]
Try(steps, err) == <<Block(steps, err)>>
Save(tag, err) == Try(<< <<"save", tag>> >>, err)

\* stopProxyTransport: interception and DNS first, the backend last.
stopProxyTransport == << <<"stop", "firewall">>, <<"stop", "backend">> >>

\* Mutant: the files of the package are written before they are copied.
WriteThenBackup ==
    << <<"require", "package">>, <<"write", "config">>, <<"write", "hostlist">>, <<"write", "iplist">>,
       <<"backup", "hostlist">>, <<"backup", "iplist">>, <<"backup", "config">>,
       <<"mark", "managed">>, <<"service", "start">> >>

\* ZapretManager.Apply with its syncConfig.
Apply ==
    << <<"require", "package">>, <<"backup", "hostlist">>, <<"backup", "iplist">>,
       <<"backup", "config">>, <<"write", "config">>, <<"write", "hostlist">>, <<"write", "iplist">>,
       <<"mark", "managed">>, <<"service", "start">> >>

\* ZapretManager.Disable.
Disable ==
    << <<"require", "marker">>, <<"service", "stop">>,
       <<"restore", "hostlist">>, <<"restore", "iplist">>, <<"restore", "config">>,
       <<"unbackup", "hostlist">>, <<"unbackup", "iplist">>, <<"unbackup", "config">>, <<"unmark", "managed">> >>

\* disconnectRuntime, and the same calls in markTransportDirect,
\* markConnectionFailed and persistRestoreFailure.
disconnectRuntime(err) == Try(stopProxyTransport, err) \o Try(Disable, err)

\* applyNodeSelection: Zapret goes off before the node is applied.
applyNodeSelection(policy, err) ==
    (IF effectiveActiveTransport(st) = "zapret" THEN Try(Disable, err) ELSE <<>>)
        \o Try(<< <<"connect", policy>> >>, err) \o Save("connected", err)

\* zapretExpandedTargets: only domains are handed to the package.
zapretExpandedTargets(c) == c.sel = "domains"

\* applyZapretTestMode.
applyZapretTestMode(c, err) ==
    IF zapretExpandedTargets(c)
    THEN Try(stopProxyTransport, err) \o Try(Apply, err) \o Save("test", err)
    ELSE err

\* markTransportDirect: its caller gets an error in any case.
markTransportDirect(err) == disconnectRuntime(err) \o Save("direct", err) \o err

\* Mutant: the fallback is recorded before the package runs.
RecordThenApply(c, err) ==
    IF ~c.enabled \/ ~zapretExpandedTargets(c) THEN markTransportDirect(err)
    ELSE Save("fallback", err) \o Try(stopProxyTransport, err) \o Try(Apply, err)

\* activateZapretFallback.
activateZapretFallback(c, err) ==
    IF ~c.enabled \/ ~zapretExpandedTargets(c) THEN markTransportDirect(err)
    ELSE (IF effectiveActiveTransport(st) = "zapret" THEN <<>> ELSE Try(stopProxyTransport, err))
            \o Try(Apply, markTransportDirect(err)) \o Save("fallback", err)

\* startZapretTest: a previous route that is worth restoring is applied again.
Restorable(r) == r.conn /\ r.via = "proxy" /\ r.node # None
Current == [RouteOf(st) EXCEPT !.via = effectiveActiveTransport(st)]

TestFailed ==
    IF Restorable(Current) THEN applyNodeSelection("mark", <<>>)
    ELSE Try(Disable, Save("failed", <<>>)) \o Save("failed", <<>>)

\* The route a test returns to: the one it was started over.
TestRestore == IF st.test = None THEN Current ELSE st.test

\* The state each operation ends with.
Saved(tag) ==
    CASE tag = "test" -> With([RouteOf(st) EXCEPT !.conn = TRUE, !.via = "zapret"], TestRestore)
      [] tag = "fallback" -> With([RouteOf(st) EXCEPT !.conn = TRUE, !.via = "zapret", !.mode = "auto"], None)
      [] tag = "direct" -> With([RouteOf(st) EXCEPT !.conn = FALSE, !.via = "direct", !.mode = "auto"], None)
      [] tag = "failed" -> With([RouteOf(st) EXCEPT !.conn = FALSE, !.via = "direct"], None)
      [] tag = "marked" -> With([goal EXCEPT !.conn = FALSE, !.via = "direct"], None)
      [] tag = "connected" -> With([goal EXCEPT !.conn = TRUE, !.via = "proxy"], None)
      [] tag = "disconnected" -> With(NoRoute, None)

-------------------------------------------------------------------------------
(* Steps of the operation in progress. *)

Idle == todo = <<>>
At(verb, object) == ~Idle /\ Head(todo[1].steps) = <<verb, object>>
Go == todo' = IF Len(todo[1].steps) = 1 THEN Tail(todo)
              ELSE [todo EXCEPT ![1].steps = Tail(@)]
Failed == todo' = todo[1].err
Skip == todo' = Tail(todo)
kept == <<past, cfg, by, goal, snap, boot, faults, events>>

\* What an operation that ends here leaves behind: originals whose copies are gone
\* under a marker that says they are needed (cut), a package that is managed though
\* the state names another transport (unrecorded), a state that says Zapret though
\* the package may be off (partial).
Leaves ==
    (IF \E f \in Files \ {"hostlist"} : At("unbackup", f) \/ At("unmark", "managed") THEN {"cut"} ELSE {})
        \cup (IF st.via = "zapret" THEN {"partial"} ELSE IF marker THEN {"unrecorded"} ELSE {})

RequirePackage ==
    /\ At("require", "package")
    /\ IF pkg THEN Go ELSE Failed
    /\ UNCHANGED <<world, st, odd, kept>>

RequireMarker ==
    /\ At("require", "marker")
    /\ IF marker THEN Go ELSE Skip
    /\ UNCHANGED <<world, st, odd, kept>>

\* backupOriginalFile: once, while the original is there.
BackupOriginal(f) ==
    /\ At("backup", f)
    /\ backup' = IF marker \/ backup[f] # "absent" THEN backup ELSE [backup EXCEPT ![f] = file[f]]
    /\ Go
    /\ UNCHANGED <<file, marker, svc, proxy, st, odd, kept>>

WriteManaged(f) ==
    /\ f # "config" /\ At("write", f)
    /\ file' = [file EXCEPT ![f] = "ours"] /\ Go
    /\ UNCHANGED <<backup, marker, svc, proxy, st, odd, kept>>

\* syncConfig needs a config, and renders it from the copy; without CIDRs, which
\* zapretExpandedTargets never returns, it adds nothing to it.
SyncConfig ==
    /\ At("write", "config")
    /\ LET base == IF backup["config"] # "absent" THEN backup["config"] ELSE file["config"]
       IN  \/ base # "absent" /\ file' = [file EXCEPT !["config"] = base] /\ Go /\ UNCHANGED odd
           \/ base = "absent" /\ Failed /\ odd' = odd \cup Leaves /\ UNCHANGED file
    /\ UNCHANGED <<backup, marker, svc, proxy, st, kept>>

WriteMarker ==
    /\ At("mark", "managed")
    /\ marker' = TRUE /\ Go
    /\ UNCHANGED <<file, backup, svc, proxy, st, odd, kept>>

\* The service starts and is seen running, or does not come up.
StartService ==
    /\ At("service", "start")
    /\ \/ svc' = TRUE /\ Go /\ odd' = IF proxy = "on" THEN odd ELSE odd \ {"partial", "failback"}
       \/ svc' \in {svc, FALSE} /\ Failed /\ odd' = odd \cup Leaves
    /\ UNCHANGED <<disk, proxy, st, kept>>

StopService ==
    /\ At("service", "stop")
    /\ svc' = FALSE /\ Go
    /\ UNCHANGED <<disk, proxy, st, odd, kept>>

\* restoreManagedFile, or the removal of a list that had no original.
RestoreOriginal(f) ==
    /\ At("restore", f)
    /\ file' = [file EXCEPT ![f] = IF f = "config" /\ backup[f] = "absent" THEN @ ELSE backup[f]]
    /\ Go
    /\ UNCHANGED <<backup, marker, svc, proxy, st, odd, kept>>

RemoveBackup(f) ==
    /\ At("unbackup", f)
    /\ backup' = [backup EXCEPT ![f] = "absent"] /\ Go
    /\ UNCHANGED <<file, marker, svc, proxy, st, odd, kept>>

RemoveMarker ==
    /\ At("unmark", "managed")
    /\ marker' = FALSE /\ Go /\ odd' = odd \ {"unrecorded"}
    /\ UNCHANGED <<file, backup, svc, proxy, st, kept>>

StopProxy ==
    /\ \/ At("stop", "firewall") /\ proxy' = IF proxy = "on" THEN "xray" ELSE proxy
       \/ At("stop", "backend") /\ proxy' = "off"
    /\ Go
    /\ UNCHANGED <<disk, svc, st, odd, kept>>

\* The managed path leaves interception and DNS as they are.
Managed == proxy # "off" /\ st.conn /\ st.node # None

ConnectSucceeds ==
    /\ \E p \in {"mark", "keep", "auto"} : At("connect", p)
    /\ proxy' = IF Managed THEN proxy ELSE "on"
    /\ Go
    /\ UNCHANGED <<disk, svc, st, odd, kept>>

\* A managed switch, or a rolled back automatic one, keeps the state it found, even
\* one that says Zapret although Zapret is already off.
ConnectPreserves ==
    /\ \/ Managed /\ UNCHANGED proxy /\ \E p \in {"mark", "keep", "auto"} : At("connect", p)
       \/ ~Managed /\ At("connect", "auto") /\ st.node # None /\ proxy' = "xray"
    /\ st' = [st EXCEPT !.conn = TRUE]
    /\ odd' = IF st.via = "zapret" THEN odd \cup {"failback"} ELSE odd
    /\ Failed
    /\ UNCHANGED <<disk, svc, kept>>

\* A static switch fails: markConnectionFailed, or an error for the caller.
ConnectFails ==
    /\ ~Managed
    /\ \E p \in {"mark", "keep", "auto"} :
          /\ At("connect", p)
          /\ IF p = "keep" THEN Failed /\ odd' = odd \cup Leaves
             ELSE todo' = disconnectRuntime(<<>>) \o Save("marked", <<>>) /\ odd' = odd
    /\ proxy' \in {proxy, "off", "xray"}
    /\ UNCHANGED <<disk, svc, st, kept>>

SaveState ==
    /\ \E tag \in {"test", "fallback", "direct", "failed", "marked", "connected", "disconnected"} :
          At("save", tag) /\ st' = Saved(tag)
    /\ Go
    /\ UNCHANGED <<world, odd, kept>>

Step ==
    \/ RequirePackage \/ RequireMarker \/ WriteMarker \/ StartService \/ StopService
    \/ \E f \in Files : BackupOriginal(f) \/ WriteManaged(f) \/ RestoreOriginal(f) \/ RemoveBackup(f)
    \/ SyncConfig \/ RemoveMarker \/ StopProxy \/ ConnectSucceeds \/ ConnectPreserves \/ ConnectFails \/ SaveState

-------------------------------------------------------------------------------
(* Faults. *)

Fault == faults < MaxFaults /\ faults' = faults + 1
Fallible == {"backup", "write", "mark", "restore", "unbackup", "unmark", "stop", "save"}

\* A call of the operation fails.
CallFails ==
    /\ Fault
    /\ ~Idle /\ \/ Head(todo[1].steps)[1] \in Fallible
                \/ At("service", "stop")
    /\ Failed
    /\ odd' = odd \cup Leaves
    /\ UNCHANGED <<world, st, past, cfg, by, goal, snap, boot, events>>

\* The process of the operation is killed.
Kill ==
    /\ Fault /\ ~Idle
    /\ todo' = <<>>
    /\ odd' = odd \cup Leaves
    /\ UNCHANGED <<world, st, past, cfg, by, goal, snap, boot, events>>

\* The router restarts: Xray starts with its last config, without interception.
Reboot ==
    /\ Fault
    /\ todo' = <<>> /\ snap' = None /\ boot' = TRUE
    /\ odd' = odd \cup (IF Idle /\ st.via # "zapret" THEN {} ELSE Leaves)
    /\ svc' \in {svc, FALSE}
    /\ proxy' = IF st.node = None THEN "off" ELSE "xray"
    /\ UNCHANGED <<disk, st, past, cfg, by, goal, events>>

\* Between operations the user edits a file that holds no managed content.
UserEdits(f) ==
    /\ Idle /\ pkg /\ events < MaxEvents /\ events' = events + 1
    /\ file[f] # "ours" /\ mine[f] # "v2"
    /\ file' = [file EXCEPT ![f] = "v2"] /\ mine' = [mine EXCEPT ![f] = "v2"]
    /\ odd' = IF marker \/ backup[f] # "absent" THEN odd \cup {"stale"} ELSE odd
    /\ UNCHANGED <<backup, marker, svc, pkg, proxy, st, cfg, todo, by, goal, snap, boot, before, faults>>

-------------------------------------------------------------------------------
(* Operations. *)

Begin(who, route, prog) ==
    /\ Idle
    /\ todo' = prog /\ by' = who /\ goal' = route
    /\ UNCHANGED <<world, st, pkg, mine, odd, faults>>

UserBegins(who, route, prog) ==
    /\ Begin(who, route, prog)
    /\ events < MaxEvents /\ events' = events + 1
    /\ UNCHANGED <<snap, boot>>

\* StartZapretTest: not over a test, nor over the automatic fallback.
StartZapretTest ==
    /\ st.test = None /\ effectiveActiveTransport(st) # "zapret"
    /\ UserBegins("starttest", Current, applyZapretTestMode(cfg, TestFailed))
    /\ before' = Current
    /\ UNCHANGED cfg

\* StopZapretTest.
StopZapretTest ==
    /\ st.test # None
    /\ UserBegins("stoptest", st.test,
                  IF Restorable(st.test) THEN applyNodeSelection("mark", <<>>)
                  ELSE disconnectRuntime(<<>>) \o Save("marked", <<>>))
    /\ UNCHANGED <<cfg, before>>

\* SetZapretEnabled.
SetZapretEnabled(on) ==
    /\ on => cfg.sel # "none"
    /\ cfg' = [cfg EXCEPT !.enabled = on]
    /\ UserBegins("settings", Current,
                  IF ~on /\ effectiveActiveTransport(st) = "zapret" THEN disconnectRuntime(<<>>) \o Save("failed", <<>>)
                  ELSE <<>>)
    /\ UNCHANGED before

\* SetZapretSelectors: a running fallback or test is applied again.
SetZapretSelectors(sel) ==
    LET c == [enabled |-> cfg.enabled /\ sel # "none", sel |-> sel]
        via == effectiveActiveTransport(st)
    IN  /\ cfg' = c
        /\ UserBegins("settings", Current,
               CASE via # "zapret" -> <<>>
                 [] via = "zapret" /\ ~c.enabled -> disconnectRuntime(<<>>) \o Save("failed", <<>>)
                 [] via = "zapret" /\ c.enabled /\ st.test # None -> applyZapretTestMode(c, <<>>)
                 [] OTHER -> IF st.node = None THEN <<>> ELSE activateZapretFallback(c, <<>>))
        /\ UNCHANGED before

\* Connect and ConnectAuto: the route to a node.
Connect(n, mode) ==
    /\ UserBegins("connect", [node |-> n, mode |-> mode, conn |-> TRUE, via |-> "proxy"],
                  applyNodeSelection("mark", <<>>))
    /\ UNCHANGED <<cfg, before>>

Disconnect ==
    /\ UserBegins("disconnect", NoRoute, disconnectRuntime(<<>>) \o Save("disconnected", <<>>))
    /\ UNCHANGED <<cfg, before>>

\* reapplyCurrentConnection, with the caller's blocks for an error.
reapplyCurrentConnection(err) ==
    IF ~st.conn \/ st.node = None THEN disconnectRuntime(<<>>)
    ELSE IF st.test # None THEN applyZapretTestMode(cfg, err)
    ELSE IF effectiveActiveTransport(st) = "zapret" THEN activateZapretFallback(cfg, err)
    ELSE applyNodeSelection("keep", err)

\* A change of other settings applies the connection again.
Reapply ==
    /\ UserBegins("reapply", Current, reapplyCurrentConnection(<<>>))
    /\ UNCHANGED <<cfg, before>>

\* restoreRuntime: a route that cannot be restored is recorded as down.
RestoreRuntime ==
    /\ boot /\ boot' = FALSE
    /\ Begin("restore", Current, reapplyCurrentConnection(disconnectRuntime(<<>>) \o Save("failed", <<>>)))
    /\ UNCHANGED <<cfg, before, snap, events>>

\* The automatic loop reads the files and probes outside the lock.
AutoPrepare ==
    /\ Idle /\ snap = None
    /\ st.test = None /\ st.mode = "auto" /\ st.node # None
    /\ snap' = [st |-> st, cfg |-> cfg]
    /\ UNCHANGED <<world, st, past, odd, cfg, todo, by, goal, boot, faults, events>>

\* Mutant: what the loop read is used whatever the files say now.
NeverStale == TRUE

\* autoSelectionSnapshotCurrentLocked.
Fresh == snap = [st |-> st, cfg |-> cfg]

AutoDropped == Idle /\ ~Fresh /\ snap # None /\ snap' = None
               /\ UNCHANGED <<world, st, past, odd, cfg, todo, by, goal, boot, faults, events>>

\* No healthy candidate: the fallback, when it is enabled.
AutoFallback ==
    /\ snap # None /\ Fresh
    /\ snap.st.via # "zapret" /\ snap.cfg.enabled
    /\ snap' = None
    /\ Begin("auto", Current, activateZapretFallback(snap.cfg, <<>>))
    /\ UNCHANGED <<cfg, before, boot, events>>

\* handleZapretAutoHealthDecision: a candidate has been healthy for long enough
\* (canFailbackFromZapret), and the proxy transport returns.
AutoFailback(n) ==
    /\ snap # None /\ Fresh
    /\ snap.st.via = "zapret"
    /\ snap' = None
    /\ Begin("auto", [node |-> n, mode |-> "auto", conn |-> TRUE, via |-> "proxy"],
             applyNodeSelection("auto", <<>>))
    /\ UNCHANGED <<cfg, before, boot, events>>

Init ==
    /\ pkg \in BOOLEAN
    /\ \E gone \in Missing : file = [f \in Files |-> IF pkg /\ f \notin gone THEN "v1" ELSE "absent"]
    /\ mine = file /\ backup = [f \in Files |-> "absent"]
    /\ marker = FALSE /\ svc \in {FALSE, pkg} /\ proxy = "off"
    /\ st = With(NoRoute, None) /\ cfg \in {c \in [enabled : BOOLEAN, sel : {"none", "domains"}] : c.enabled => c.sel # "none"}
    /\ before = NoRoute
    /\ todo = <<>> /\ by = "none" /\ goal = NoRoute /\ snap = None /\ boot = FALSE
    /\ odd = {} /\ faults = 0 /\ events = 0

Next ==
    \/ Step \/ CallFails \/ Kill \/ Reboot
    \/ \E f \in Files : UserEdits(f)
    \/ StartZapretTest \/ StopZapretTest \/ Disconnect \/ Reapply \/ RestoreRuntime
    \/ \E on \in BOOLEAN : SetZapretEnabled(on)
    \/ \E sel \in {"none", "cidrs", "domains"} : SetZapretSelectors(sel)
    \/ \E n \in Node, mode \in {"manual", "auto"} : Connect(n, mode)
    \/ AutoPrepare \/ AutoDropped \/ AutoFallback \/ \E n \in Node : AutoFailback(n)

Spec == Init /\ [][Next]_vars

-------------------------------------------------------------------------------
\* Types of the package's files and their copies, of the recorded and the intended routes
\* and of the history.
TypeOK ==
    /\ file \in [Files -> Users \cup {"ours"}] /\ backup \in [Files -> Users \cup {"ours"}]
    /\ mine \in [Files -> Users]
    /\ {marker, svc, pkg, boot} \subseteq BOOLEAN /\ proxy \in {"off", "xray", "on"}
    /\ RouteOf(st) \in Route /\ goal \in Route /\ before \in Route /\ (st.test = None \/ st.test \in Route)
    /\ cfg \in [enabled : BOOLEAN, sel : {"none", "cidrs", "domains"}]
    /\ odd \subseteq {"cut", "stale", "unrecorded", "partial", "failback"}
    /\ faults \in 0..MaxFaults /\ events \in 0..MaxEvents

\* At every instant, crashes and failed calls included, what the user last wrote to a
\* file of the zapret package is in the file or in its copy.  Two histories lose it,
\* and no other: a Disable that ends between the removal of a copy and of the marker,
\* and an edit made while a copy of an earlier Apply was left behind.
OriginalsKept ==
    \A f \in Files : \/ mine[f] \in {"absent", file[f], backup[f]}
                     \/ odd \cap {"cut", "stale"} # {}

\* Between operations, Zapret and the interception of the proxy do not work on the
\* same traffic, and a state that says Zapret is true of the package: it is managed and
\* runs.  Exceptions: an operation that ended early over a managed package the state
\* does not name, or on a Zapret route; a failback that failed after it had turned
\* Zapret off; and a test over no node, which reapplyCurrentConnection turns off
\* without recording it.
TransportAsRecorded ==
    Idle => /\ proxy = "on" /\ marker /\ svc => odd \cap {"unrecorded", "partial"} # {}
            /\ st.conn /\ st.via = "zapret" /\ st.node # None =>
                  (marker /\ svc /\ proxy # "on") \/ odd \cap {"partial", "failback"} # {}

\* A test is transparent: while one is recorded only the user's own commands end it,
\* and whatever ends it by StopZapretTest returns to the node and the mode it began on.
TestReturns ==
    [][st.test # None /\ st'.test = None =>
          /\ by # "auto"
          /\ by = "stoptest" => <<st'.node, st'.mode>> = <<before.node, before.mode>>]_vars
==============================================================================
