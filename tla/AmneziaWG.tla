------------------------------ MODULE AmneziaWG ------------------------------
(***************************************************************************)
(* AmneziaWG profiles: the profile files (store/amneziawg.go), the netifd  *)
(* interface and its policy routes (amneziawg/controller_openwrt.go), and  *)
(* the operations of app.Service over them (app/amneziawg.go): import,     *)
(* isolated checks, connect with a return to the previous profile,         *)
(* disconnect, removal, the migration of the single-profile layout, the    *)
(* reapplication after a settings change or a restart, and the return of   *)
(* the connection watch from the direct route.                             *)
(*                                                                         *)
(* Every operation holds the store lock, so at most one is in progress;    *)
(* `todo' is what it has left, as in module Zapret.  How nodes of          *)
(* subscriptions are switched, and the intents of the fail-open, is module *)
(* RouteSwitch; here each is one step.                                     *)
(*                                                                         *)
(* Abstraction.  A profile is its StableID.  The managed outbound of an    *)
(* interface is determined by the device and its address, and the device   *)
(* is always the same, so its tag is the address.                          *)
(***************************************************************************)
EXTENDS Naturals, FiniteSets

CONSTANTS
    Profile,    \* the profiles a user may import
    Addressing, \* functions from profiles to interface addresses
    None,       \* no profile, no snapshot
    MaxFaults,  \* failing calls, kills, reboots, crashes of Xray and lost tunnels
    MaxOps      \* operations of the user and of the automatic loop

Addresses == UNION {{a[p] : p \in Profile} : a \in Addressing}
Tags == Addresses \cup {"none", "direct", "node"}

Modes == {"manual", "auto", "disconnected"}
\* state.json, as far as AmneziaWG is concerned.
States == [kind : {"none", "awg", "xray"}, active : Profile \cup {None}, node : {"none", "old", "awg", "node"}, mode : Modes,
           conn : BOOLEAN, rec : BOOLEAN, busy : BOOLEAN, tag : Tags, prepared : Profile \cup {None},
           probe : [Profile -> {"none", "fresh", "old", "failed"}]]

ASSUME ProfileAssumption == None \notin Profile \cup States /\ {"none", "direct", "node"} \cap Addresses = {}
ASSUME AmneziaWGBounds == {MaxFaults, MaxOps} \subseteq Nat

VARIABLES
    addr,      \* the address each profile gives the interface
    index,     \* the profiles named by profiles.json
    files,     \* the profiles whose .conf file exists
    legacy,    \* the profile in the single-profile layout of v0.1.29
    st,        \* state.json
    smode,     \* the mode in settings.json
    net,       \* the permanent interface: its profile in UCI, up, its policy rule
    iso,       \* the profile of the isolated probe interface
    xr,        \* Xray: running, the override of its balancer
    todo, job, \* the operation that holds the store lock, or the last one
    heal,      \* the watch's return to the tunnel: confirmations so far, plus one
    boot,      \* the daemon has started and not yet restored its route
    owned,     \* history: profiles the user imported and did not remove
    odd,       \* history: what an operation that ended early left behind
    faults, ops

vars == <<addr, index, files, legacy, st, smode, net, iso, xr, todo, job, heal, boot, owned, odd, faults, ops>>
disk == <<index, files, legacy>>
runtime == <<net, iso, xr>>

Tunnel == [cfg |-> None, up |-> FALSE, rule |-> FALSE]
Stopped == [run |-> FALSE, sel |-> "none"]
NewState == [kind |-> "none", active |-> None, node |-> "none", mode |-> "disconnected", conn |-> FALSE, rec |-> FALSE,
             busy |-> FALSE, tag |-> "none", prepared |-> None, probe |-> [p \in Profile |-> "none"]]
Disconnected(s) == [s EXCEPT !.kind = "none", !.active = None, !.node = "none", !.mode = "disconnected",
                             !.conn = FALSE, !.rec = FALSE, !.busy = FALSE, !.tag = "direct"]

-------------------------------------------------------------------------------
(* Programs: a call, the program that runs instead when the call fails, and *)
(* the program that follows.  A call names its profile by the part it has   *)
(* in the operation (ProfileOf).                                            *)

Do(verb, arg, err, next) == [call |-> <<verb, arg>>, err |-> err, next |-> next]
End == [call |-> <<"end", "end">>]
Idle == todo = End

\* The profile of the operation, of the old layout, and of the state before it.
ProfileOf(arg) == CASE arg = "id" -> job.id [] arg = "legacy" -> legacy [] arg = "orig" -> job.orig.active

\* SaveAWGProfile: a listed profile is not written again, and a profile that
\* cannot be listed is deleted.
SaveAWGProfile(arg, err, next) ==
    IF ProfileOf(arg) \in index THEN next
    ELSE Do("write", arg, err, Do("list", arg, Do("unlink", arg, err, err), next))

\* Mutant: the old file is removed before the state names the profile.
MigrateEarly(err, next) ==
    IF legacy = None THEN next
    ELSE Do("dropold", "legacy", err, SaveAWGProfile("legacy", err, Do("save", "adopted", err, next)))

\* migrateLegacyAWGProfileLocked.
migrateLegacyAWGProfile(err, next) ==
    IF legacy = None THEN next
    ELSE SaveAWGProfile("legacy", err, Do("save", "adopted", err, Do("dropold", "legacy", err, next)))

\* The connected profile, and whether another one than p is.
Connected == st.kind = "awg" /\ st.conn
ActiveIs(p) == Connected /\ st.active = p
OtherActive(p) == Connected /\ st.active \notin {None, p}

\* ensureAWGManagedRuntime, PrepareInterfaceOutbound, the probe and its record.
Observe(how, err, next) ==
    Do("runtime", how, err, Do("probe", how, err, Do("save", "probe", err, next)))

\* Mutant: a check prepares the permanent interface, as a connect does.
CheckInPlace(p, err, next) ==
    Do("profile", "id", err, Do("down", "awg", err, Do("configure", "id", err, Do("ifup", "awg", err, Observe("awg", err, next)))))

\* checkAWGLocked: the active profile where it is, refusing to replace it, any other
\* one on an interface of its own, which is removed whatever happens.
checkAWG(p, err, next) ==
    Do("profile", "id", err,
       IF ActiveIs(p)
       THEN Do("require", "up", err, Do("ifup", "awg", err, Observe("awg", err, next)))
       ELSE Do("isolate", "id", err, Observe("iso", Do("deisolate", "id", err, err), Do("deisolate", "id", err, next))))

\* Mutant: an interface that is up is taken for the profile that is connected.
VerifyWhatIsUp(p, err, next) ==
    LET up == Do("ifup", "awg", err, Observe("awg", err, next))
    IN  Do("profile", "id", err,
           CASE ActiveIs(p) -> Do("require", "up", err, up)
             [] ~ActiveIs(p) /\ ~net.up -> Do("configure", "id", err, Do("save", "prepared", err, up))
             [] OTHER -> up)

\* verifyAWGLocked for the permanent interface: it is configured again unless it is
\* recorded as prepared for this profile and is up.
verifyAWG(p, err, next) ==
    LET up == Do("ifup", "awg", err, Observe("awg", err, next))
        again == Do("configure", "id", err, Do("save", "prepared", err, up))
    IN  Do("profile", "id", err,
           CASE ActiveIs(p) -> Do("require", "up", err, up)
             [] ~ActiveIs(p) /\ st.prepared # p -> Do("down", "awg", err, Do("unconfigure", "awg", err, again))
             [] ~ActiveIs(p) /\ st.prepared = p /\ ~net.up -> again
             [] OTHER -> up)

\* The undo of a switch ignores its own errors.
Undo(err) == LET back == Do("save", "back", err, err) IN Do("select", "prev", back, back)

\* Mutant: a switch is recorded without moving traffic back when egress fails.
SwitchWithoutUndo(err) ==
    Do("save", "intent", err, Do("select", "tag", err, Do("egress", "tag", Do("save", "back", err, err),
        Do("save", "connected", Undo(err), Do("settings", "job", End, End)))))

\* connectAWGWithModeLocked from the intent on.
Switch(err) ==
    Do("save", "intent", err, Do("select", "tag", Do("save", "back", err, err), Do("egress", "tag", Undo(err),
        Do("save", "connected", Undo(err), Do("settings", "job", End, End)))))

\* awgProbeIsFresh on the recorded interface: the probe is not repeated.
Prepared(p) == st.probe[p] = "fresh" /\ st.prepared = p /\ net.up

connectAWG(p, err) ==
    LET verify == verifyAWG(p, err, Switch(err))
    IN  IF Prepared(p) THEN Do("ifup", "awg", err, Do("runtime", "awg", verify, Switch(err))) ELSE verify

\* disconnectAWGLocked.
disconnectAWG(err, next) ==
    IF st.kind = "awg"
    THEN Do("select", "direct", err, Do("down", "awg", err, Do("save", "disconnected", err, Do("settings", "off", err, next))))
    ELSE Do("down", "awg", err, next)

\* restoreAWGConnectionLocked: the profile that was connected before.
restoreAWGConnection ==
    Do("profile", "orig", End, Do("down", "awg", End, Do("unconfigure", "awg", End, Do("configure", "orig", End,
        Do("ifup", "awg", End, Do("runtime", "awg", End, Do("select", "tag", End, Do("egress", "tag", End,
            Do("save", "orig", End, Do("settings", "orig", End, End))))))))))

\* Mutant: the connected profile is dropped first and not returned to.
ReplaceAWG(p, err) == disconnectAWG(err, Do("load", "attempt", err, End))

\* connectAWGWithModeLocked over another profile: checked first, then replaced; every
\* failure from there on returns to the profile that was connected.
replaceAWG(p, err) ==
    checkAWG(p, err, Do("keep", "orig", err,
        disconnectAWG(restoreAWGConnection, Do("load", "attempt", restoreAWGConnection, End))))

\* RemoveAWGProfile.
removeAWG(p) ==
    LET active == st.kind = "awg" /\ st.active = p
        erase == Do("unlink", "id", End, Do("unlist", "id", End, Do("save", "removed", End,
                      IF active THEN Do("settings", "off", End, End) ELSE End)))
        tunnel == IF active \/ st.prepared = p THEN Do("down", "awg", End, Do("unconfigure", "awg", End, erase)) ELSE erase
    IN  IF active THEN Do("select", "direct", End, tunnel) ELSE tunnel

\* resolveAWGProfileIDLocked without an id.
Resolve ==
    IF st.kind = "awg" /\ st.active # None THEN index \cap {st.active}
    ELSE IF Cardinality(index) = 1 THEN index ELSE {}

\* What an operation goes on with once it has loaded the state.
Body(what, p, err) ==
    CASE what = "import" -> SaveAWGProfile("id", End, Do("imported", "id", End, End))
      [] what = "check" -> checkAWG(p, err, IF job.by = "heal" THEN Do("heal", "on", End, End) ELSE End)
      [] what = "connect" -> IF OtherActive(p) THEN replaceAWG(p, err) ELSE connectAWG(p, err)
      [] what = "attempt" -> connectAWG(p, err)
      [] what = "remove" -> removeAWG(p)

\* restoreRuntime degrades to the direct route, or to a stopped transport.
persistRestoreFailure == Do("stop", "xray", End, Do("save", "failed", End, End))
activateManagedDirect(err) == Do("select", "direct", err, Do("save", "failopen", err, End))

\* The state each save writes.
Saved(tag) ==
    CASE tag = "adopted" -> [st EXCEPT !.prepared = IF @ = None THEN legacy ELSE @,
                                       !.active = IF st.kind = "awg" THEN legacy ELSE @,
                                       !.node = IF st.kind = "awg" THEN "awg" ELSE @]
      [] tag = "prepared" -> [st EXCEPT !.prepared = job.id]
      [] tag = "probe" -> [st EXCEPT !.probe[job.id] = IF job.ok THEN "fresh" ELSE "failed"]
      [] tag = "intent" -> [st EXCEPT !.rec = TRUE, !.busy = TRUE]
      [] tag = "back" -> [job.base EXCEPT !.busy = FALSE]
      [] tag = "connected" -> [st EXCEPT !.kind = "awg", !.active = job.id, !.node = "awg", !.mode = job.mode,
                                         !.conn = TRUE, !.rec = FALSE, !.busy = FALSE, !.tag = job.tag]
      [] tag = "disconnected" -> Disconnected(st)
      [] tag = "orig" -> [job.orig EXCEPT !.tag = job.tag, !.prepared = job.orig.active]
      [] tag = "removed" ->
            LET s == [st EXCEPT !.probe[job.id] = "none", !.prepared = IF @ = job.id THEN None ELSE @]
            IN  IF st.kind = "awg" /\ st.active = job.id THEN [Disconnected(s) EXCEPT !.busy = st.busy] ELSE s
      [] tag = "failopen" -> [job.base EXCEPT !.conn = FALSE, !.rec = FALSE, !.busy = FALSE, !.tag = "direct"]
      [] tag = "direct" -> [st EXCEPT !.conn = FALSE, !.busy = FALSE, !.tag = "direct"]
      [] tag = "failed" -> [st EXCEPT !.conn = FALSE]

Saves == {"adopted", "prepared", "probe", "intent", "back", "connected", "disconnected", "orig", "removed",
          "failopen", "direct", "failed"}

-------------------------------------------------------------------------------
(* Steps of the operation in progress. *)

At(verb, arg) == todo.call = <<verb, arg>>
Go == todo' = todo.next
kept == <<addr, boot, faults, ops>>

\* A step fails; in the return to the previous profile nothing is left to try.
Unrestored == IF job.orig # None /\ todo.err = End THEN {"unrestored"} ELSE {}
Failed == todo' = todo.err /\ odd' = odd \cup Unrestored
Advance == Go /\ UNCHANGED odd

\* The lock is taken, or taken again, and the state is loaded.
Load ==
    \E what \in {"import", "check", "connect", "attempt", "remove"} :
        /\ At("load", what)
        /\ LET found == IF job.id # None THEN {job.id} ELSE Resolve
           IN  IF found = {} \/ (what \in {"check", "connect", "remove"} /\ ~(found \subseteq index))
               THEN Failed /\ UNCHANGED job
               ELSE \E p \in found : todo' = Body(what, p, todo.err) /\ job' = [job EXCEPT !.id = p] /\ UNCHANGED odd
        /\ UNCHANGED <<disk, runtime, st, smode, heal, owned, kept>>

\* loadAWGProfile, and the check that the active interface is there.
Require ==
    /\ \/ \E arg \in {"id", "orig"} : At("profile", arg) /\ IF ProfileOf(arg) \in files THEN Advance ELSE Failed
       \/ At("require", "up") /\ IF net.up THEN Advance ELSE Failed
    /\ UNCHANGED <<disk, runtime, st, smode, job, heal, owned, kept>>

KeepOriginal ==
    /\ At("keep", "orig")
    /\ job' = [job EXCEPT !.orig = st] /\ Go
    /\ UNCHANGED <<disk, runtime, st, smode, heal, owned, odd, kept>>

\* The profile file, the index and the old layout.
Files ==
    /\ \/ \E arg \in {"id", "legacy"} :
             LET p == ProfileOf(arg)
             IN  \/ At("write", arg) /\ files' = files \cup {p} /\ UNCHANGED <<index, legacy, owned>>
                 \/ At("list", arg) /\ index' = index \cup {p} /\ UNCHANGED <<files, legacy, owned>>
                 \/ At("unlink", arg) /\ files' = files \ {p} /\ owned' = owned \ (IF arg = "id" /\ job.by = "remove" THEN {p} ELSE {})
                       /\ UNCHANGED <<index, legacy>>
       \/ At("imported", "id") /\ owned' = owned \cup {job.id} /\ UNCHANGED disk
       \/ At("unlist", "id") /\ index' = index \ {job.id} /\ UNCHANGED <<files, legacy, owned>>
       \/ At("dropold", "legacy") /\ legacy' = None /\ UNCHANGED <<index, files, owned>>
    /\ Go
    /\ UNCHANGED <<runtime, st, smode, job, heal, odd, kept>>

\* OpenWrtController.Disconnect, the rest of its Remove, Prepare, and Connect or
\* EnsurePolicyRoutes.  netifd may bring a new interface up by itself.
Interface ==
    /\ \/ At("down", "awg") /\ net' = [net EXCEPT !.up = FALSE, !.rule = FALSE]
       \/ At("unconfigure", "awg") /\ net' = [net EXCEPT !.cfg = None]
       \/ \E arg \in {"id", "orig"}, up \in BOOLEAN : At("configure", arg) /\ net' = [cfg |-> ProfileOf(arg), up |-> up, rule |-> FALSE]
       \/ At("ifup", "awg") /\ net' = [net EXCEPT !.up = TRUE, !.rule = TRUE]
    /\ Go
    /\ UNCHANGED <<disk, iso, xr, st, smode, job, heal, owned, odd, kept>>

\* PrepareIsolatedProbe and its cleanup.
Isolate ==
    /\ \/ At("isolate", "id") /\ iso' = job.id
       \/ At("deisolate", "id") /\ iso' = None
    /\ Go
    /\ UNCHANGED <<disk, net, xr, st, smode, job, heal, owned, odd, kept>>

\* ensureAWGManagedRuntime: a stopped Xray is started on the direct route; a running
\* one without an override is pinned to the recorded route.
Pinned == IF xr.sel # "none" THEN xr.sel
          ELSE IF st.tag = "none" \/ ~st.conn THEN "direct" ELSE st.tag
ensureAWGManagedRuntime ==
    \E how \in {"awg", "iso"} :
        /\ At("runtime", how) /\ Go
        /\ xr' = IF xr.run THEN [xr EXCEPT !.sel = Pinned] ELSE [run |-> TRUE, sel |-> "none"]
        /\ job' = IF how = "awg" THEN [job EXCEPT !.tag = addr[net.cfg]] ELSE job
        /\ UNCHANGED <<disk, net, iso, st, smode, heal, owned, odd, kept>>

\* ensureAWGManagedRuntimeWithReload(true), and the end of the transport.
Restart ==
    /\ \/ At("reload", "xray") /\ xr' = [run |-> TRUE, sel |-> "none"]
       \/ At("start", "node") /\ xr' = [run |-> TRUE, sel |-> "node"]
       \/ At("stop", "xray") /\ xr' = Stopped
    /\ Go
    /\ UNCHANGED <<disk, net, iso, st, smode, job, heal, owned, odd, kept>>

\* Traffic of a tag reaches the internet: for an interface, if it is the one it was
\* made for and its policy rule is there.
Carried(tag) == tag \in Addresses => net.up /\ net.rule /\ net.cfg # None /\ tag = addr[net.cfg]

Probe ==
    \E how \in {"awg", "iso"}, ok \in BOOLEAN :
        /\ At("probe", how) /\ Go
        /\ ok => IF how = "awg" THEN Carried(job.tag) ELSE iso = job.id
        /\ job' = [job EXCEPT !.ok = ok]
        /\ UNCHANGED <<disk, runtime, st, smode, heal, owned, odd, kept>>

\* SelectOutbound and SelectDirect.
Select ==
    \E to \in {"direct", "tag", "prev"} :
        /\ At("select", to)
        /\ IF xr.run
           THEN Advance /\ xr' = [xr EXCEPT !.sel = CASE to = "direct" -> "direct" [] to = "tag" -> job.tag [] to = "prev" -> job.prev]
           ELSE Failed /\ UNCHANGED xr
        /\ UNCHANGED <<disk, net, iso, st, smode, job, heal, owned, kept>>

\* ensureBackendEgress.
Egress ==
    /\ At("egress", "tag")
    /\ \/ xr.run /\ Carried(xr.sel) /\ Advance
       \/ Failed
    /\ UNCHANGED <<disk, runtime, st, smode, job, heal, owned, kept>>

\* A switch that fails over the intent of an interrupted one removes that intent.
Overtaken(tag) == IF tag = "back" /\ job.base.busy THEN {"overtaken"} ELSE {}

\* A probe is recorded whatever its result, and then fails its operation.
SaveState ==
    \E tag \in Saves :
        /\ At("save", tag)
        /\ st' = Saved(tag)
        /\ IF tag = "probe" /\ ~job.ok THEN Failed ELSE Go /\ odd' = odd \cup Overtaken(tag)
        /\ job' = IF tag = "intent" THEN [job EXCEPT !.base = st, !.prev = IF st.tag = "none" THEN "direct" ELSE st.tag] ELSE job
        /\ UNCHANGED <<disk, runtime, smode, heal, owned, kept>>

SaveSettings ==
    /\ \/ At("settings", "job") /\ smode' = job.mode
       \/ At("settings", "off") /\ smode' = "disconnected"
       \/ At("settings", "orig") /\ smode' = job.orig.mode
    /\ Go
    /\ UNCHANGED <<disk, runtime, st, job, heal, owned, odd, kept>>

Healed ==
    /\ \/ At("heal", "on") /\ heal' = heal + 1
       \/ At("heal", "off") /\ heal' = 0
    /\ Go
    /\ UNCHANGED <<disk, runtime, st, smode, job, owned, odd, kept>>

Step ==
    \/ Load \/ Require \/ KeepOriginal \/ Files \/ Interface \/ Isolate
    \/ ensureAWGManagedRuntime \/ Restart \/ Probe \/ Select \/ Egress \/ SaveState \/ SaveSettings \/ Healed

-------------------------------------------------------------------------------
(* Faults. *)

Fault == faults < MaxFaults /\ faults' = faults + 1

\* What an operation that ends here leaves: an interface that is not the recorded
\* one, traffic in a tunnel the state does not name, a listed profile without a file.
Recorded(s, x) == x.run /\ x.sel \in Addresses => s.busy \/ (s.kind = "awg" /\ s.conn /\ s.tag = x.sel)
Leaves(n) ==
    (IF n.cfg \notin {None, st.prepared, legacy} \/ ~Recorded(st, xr) THEN {"cut"} ELSE {})
        \cup (IF At("unlist", "id") THEN {"dangling"} ELSE {})

\* A call of the operation fails.  A failed ifdown has removed the rules, a failed
\* reload has committed the configuration; a failed cleanup is only logged.
CallFails ==
    /\ Fault /\ ~Idle
    /\ todo.call[1] \notin {"load", "profile", "require", "keep", "imported", "probe", "egress", "heal"}
    /\ net' \in {net} \cup (IF At("down", "awg") THEN {[net EXCEPT !.rule = FALSE]} ELSE {})
                     \cup {[cfg |-> ProfileOf(arg), up |-> FALSE, rule |-> FALSE] : arg \in {a \in {"id", "orig"} : At("configure", a)}}
    /\ IF At("deisolate", "id") THEN Advance
       ELSE /\ todo' = todo.err
            /\ odd' = odd \cup Unrestored \cup Leaves(net') \cup (IF At("select", "prev") THEN {"cut"} ELSE {})
    /\ UNCHANGED <<disk, iso, xr, st, smode, job, heal, boot, owned, addr, ops>>

\* The process of the operation is killed.
Kill ==
    /\ Fault /\ ~Idle
    /\ todo' = End /\ job' = [job EXCEPT !.by = "killed"] /\ heal' \in {heal, 0}
    /\ odd' = odd \cup Leaves(net)
    /\ UNCHANGED <<disk, runtime, st, smode, boot, owned, addr, ops>>

\* The router restarts: UCI keeps the interface, policy rules and overrides are gone.
Reboot ==
    /\ Fault
    /\ todo' = End /\ job' = [job EXCEPT !.by = "killed"] /\ heal' = 0 /\ boot' = TRUE
    /\ net' \in {[net EXCEPT !.up = u, !.rule = FALSE] : u \in {FALSE, net.cfg # None}}
    /\ xr' \in [run : BOOLEAN, sel : {"none"}]
    /\ odd' = odd \cup (IF Idle THEN {} ELSE Leaves(net))
    /\ UNCHANGED <<disk, iso, st, smode, owned, addr, ops>>

\* Xray dies, or the tunnel goes down.
Outage ==
    /\ Fault
    /\ \/ xr.run /\ xr' = Stopped /\ UNCHANGED net
       \/ net.up /\ net' = [net EXCEPT !.up = FALSE] /\ UNCHANGED xr
    /\ UNCHANGED <<disk, iso, st, smode, todo, job, heal, boot, owned, odd, addr, ops>>

\* A minute passes: probes are no longer fresh.
ProbesAge ==
    /\ Idle /\ \E p \in Profile : st.probe[p] = "fresh"
    /\ st' = [st EXCEPT !.probe = [p \in Profile |-> IF @[p] = "fresh" THEN "old" ELSE @[p]]]
    /\ UNCHANGED <<disk, runtime, smode, todo, job, heal, boot, owned, odd, addr, faults, ops>>

-------------------------------------------------------------------------------
(* Operations. *)

NoJob == [by |-> "none", id |-> None, mode |-> "manual", orig |-> None, base |-> None,
          tag |-> "none", prev |-> "none", ok |-> FALSE, was |-> FALSE]

Begin(who, p, mode, prog) ==
    /\ Idle
    /\ todo' = prog
    /\ job' = [NoJob EXCEPT !.by = who, !.id = p, !.mode = mode, !.base = st, !.was = st.conn]
    /\ UNCHANGED <<disk, runtime, st, smode, owned, odd, addr, faults>>

User(who, p, mode, prog) ==
    /\ ops < MaxOps /\ ops' = ops + 1
    /\ Begin(who, p, mode, prog)
    /\ UNCHANGED <<heal, boot>>

ImportAWGProfile(p) == User("import", p, "manual", migrateLegacyAWGProfile(End, Do("load", "import", End, End)))
CheckAWGProfile(p) == User("check", p, "manual", migrateLegacyAWGProfile(End, Do("load", "check", End, End)))
ConnectAWGProfile(p) == User("connect", p, "manual", migrateLegacyAWGProfile(End, Do("load", "connect", End, End)))
RemoveAWGProfile(p) == User("remove", p, "manual", migrateLegacyAWGProfile(End, Do("load", "remove", End, End)))
DisconnectAWG == User("disconnect", None, "disconnected", disconnectAWG(End, End))

\* commitAutoSelection with a projected profile.
commitAutoSelection(p) ==
    /\ p \in index \cap files /\ st.mode = "auto"
    /\ User("connect", p, "auto", Do("load", "connect", End, End))

\* reapplyCurrentConnectionWithReload of a connected profile.
Reapply(who, err) ==
    LET attempt == Do("load", "attempt", err, End)
    IN  migrateLegacyAWGProfile(err, IF who = "reapply" THEN Do("reload", "xray", err, attempt) ELSE attempt)
SavedMode == IF st.mode = "auto" THEN "auto" ELSE "manual"
SettingsChange ==
    /\ Connected
    /\ User("reapply", IF st.active = None THEN legacy ELSE st.active, SavedMode, Reapply("reapply", End))

\* The switch to a node of a subscription, and the end of every connection.
ConnectNode(mode) ==
    /\ Idle /\ ops < MaxOps /\ ops' = ops + 1
    /\ st' = [st EXCEPT !.kind = "xray", !.node = "node", !.mode = mode, !.conn = TRUE, !.rec = FALSE,
                        !.busy = FALSE, !.tag = "node"]
    /\ xr' = [run |-> TRUE, sel |-> "node"] /\ smode' = mode /\ job' = NoJob
    /\ UNCHANGED <<disk, net, iso, todo, heal, boot, owned, odd, addr, faults>>

Disconnect ==
    /\ Idle /\ ops < MaxOps /\ ops' = ops + 1
    /\ st' = [st EXCEPT !.node = "none", !.mode = "disconnected", !.conn = FALSE]
    /\ xr' = Stopped /\ smode' = "disconnected" /\ job' = NoJob
    /\ UNCHANGED <<disk, net, iso, todo, heal, boot, owned, odd, addr, faults>>

\* restoreRuntime: the recorded direct route, no route, or the connection again.
RestoreRuntime ==
    /\ boot /\ boot' = FALSE
    /\ CASE ~st.conn /\ ~st.rec /\ st.node # "none" ->
               Begin("restore", st.active, SavedMode, Do("select", "direct", End, Do("save", "direct", End, End)))
         [] (st.conn \/ st.rec \/ st.node = "none") /\ (~st.conn \/ st.node = "none") ->
               Begin("restore", st.active, SavedMode, Do("stop", "xray", End, End))
         [] Connected /\ st.node # "none" ->
               Begin("restore", IF st.active = None THEN legacy ELSE st.active, SavedMode,
                     Reapply("restore", activateManagedDirect(persistRestoreFailure)))
         [] OTHER -> Begin("restore", None, SavedMode, Do("start", "node", persistRestoreFailure, End))
    /\ UNCHANGED <<heal, ops>>

\* The watch finds the connection dead and no other server: activateManagedDirect.
FailOpen ==
    /\ Connected /\ ~st.rec /\ ~st.busy /\ st.mode # "disconnected" /\ ~boot
    /\ Begin("failopen", None, st.mode, activateManagedDirect(End))
    /\ UNCHANGED <<heal, boot, ops>>

\* connectionRecoveryNeeded reads the state without the lock.
RecoveryNeeded ==
    /\ heal = 0 /\ heal' = 1
    /\ st.kind = "awg" /\ ~st.conn /\ ~st.rec /\ ~st.busy /\ st.mode # "disconnected" /\ ~boot
    /\ UNCHANGED <<disk, runtime, st, smode, todo, job, boot, owned, odd, addr, faults, ops>>

\* runConnectionFailoverForRoute: two checks and a connect, each under a lock of its
\* own and each of the profile that is current by then.
HealCheck ==
    /\ heal \in {1, 2}
    /\ LET off == Do("heal", "off", End, End)
       IN  Begin("heal", None, "manual", migrateLegacyAWGProfile(off, Do("load", "check", off, End)))
    /\ UNCHANGED <<heal, boot, ops>>

HealConnect ==
    /\ heal = 3 /\ heal' = 0
    /\ Begin("connect", None, "manual", migrateLegacyAWGProfile(End, Do("load", "connect", End, End)))
    /\ UNCHANGED <<boot, ops>>

-------------------------------------------------------------------------------
\* A router with imported profiles, or one that was updated while the profile of the
\* old layout was connected.
Init ==
    /\ addr \in Addressing
    /\ \/ /\ index \in SUBSET Profile /\ legacy = None
          /\ st = NewState /\ net = Tunnel /\ xr = Stopped
       \/ \E p \in Profile :
             /\ legacy = p /\ index = {}
             /\ st = [NewState EXCEPT !.kind = "awg", !.node = "old", !.mode = "manual", !.conn = TRUE, !.tag = addr[p]]
             /\ net = [cfg |-> p, up |-> TRUE, rule |-> TRUE] /\ xr = [run |-> TRUE, sel |-> addr[p]]
    /\ files = index /\ smode = st.mode /\ iso = None
    /\ owned = index \cup {p \in Profile : p = legacy}
    /\ todo = End /\ job = NoJob /\ heal = 0 /\ boot = FALSE /\ odd = {} /\ faults = 0 /\ ops = 0

Next ==
    \/ Step \/ CallFails \/ Kill \/ Reboot \/ Outage \/ ProbesAge
    \/ \E p \in Profile : \/ ImportAWGProfile(p) \/ CheckAWGProfile(p) \/ ConnectAWGProfile(p)
                          \/ RemoveAWGProfile(p) \/ commitAutoSelection(p)
    \/ DisconnectAWG \/ SettingsChange \/ Disconnect \/ \E m \in {"manual", "auto"} : ConnectNode(m)
    \/ RestoreRuntime \/ FailOpen \/ RecoveryNeeded \/ HealCheck \/ HealConnect

Spec == Init /\ [][Next]_vars

-------------------------------------------------------------------------------
\* Types of the profile store, the interfaces, the recorded route, the operation in
\* progress and the history.
Operations == {"none", "killed", "import", "check", "connect", "remove", "disconnect", "reapply", "restore", "failopen", "heal"}
TypeOK ==
    /\ addr \in Addressing /\ {index, files, owned} \subseteq SUBSET Profile
    /\ {legacy, iso} \subseteq Profile \cup {None}
    /\ st \in States /\ smode \in Modes
    /\ net \in [cfg : Profile \cup {None}, up : BOOLEAN, rule : BOOLEAN]
    /\ xr \in [run : BOOLEAN, sel : Tags]
    /\ job \in [by : Operations, id : Profile \cup {None}, mode : Modes, orig : States \cup {None}, base : States \cup {None},
                tag : Tags, prev : Tags, ok : BOOLEAN, was : BOOLEAN]
    /\ heal \in 0..3 /\ boot \in BOOLEAN /\ odd \subseteq {"cut", "unrestored", "dangling", "overtaken"}
    /\ faults \in 0..MaxFaults /\ ops \in 0..MaxOps

\* Between operations, traffic of a connection that the state names leaves through the
\* tunnel of that profile: one netifd interface serves all profiles, and whether it is
\* configured again hangs on PreparedAWGProfileID.  Exceptions: an operation cut off
\* between the interface and its record, and a return to the previous profile that
\* failed half way.
TunnelAsNamed ==
    Idle /\ Connected /\ ~st.busy /\ st.active # None /\ xr.run /\ xr.sel = st.tag /\ Carried(xr.sel)
        => net.cfg = st.active \/ odd \cap {"cut", "unrestored"} # {}

\* Between operations, traffic is not sent through a tunnel that the state does not
\* name as its connection or as the end of an interrupted switch.  Exceptions: as above,
\* and a connect that failed after a disconnect, which leaves SelectedOutboundTag in
\* the state, so that the rollback returns to the tunnel of the ended connection; and a
\* connect that failed over the intent of an interrupted one, which it then removes.
TunnelRecorded ==
    Idle => \/ Recorded(st, xr)
            \/ ~st.conn /\ st.tag = xr.sel
            \/ odd \cap {"cut", "unrestored", "overtaken"} # {}

\* A check works on an interface of its own: it neither reconfigures nor takes down
\* the permanent one, nor moves the traffic of a running Xray; so does the check that
\* precedes the replacement of a connected profile.
CheckIsIsolated ==
    [][/\ ~Idle /\ faults' = faults
       /\ job.by \in {"check", "heal"} \/ (job.by = "connect" /\ job.orig = None /\ job.id # None /\ OtherActive(job.id))
       => /\ net'.cfg = net.cfg /\ (net.up => net'.up)
          /\ xr.run /\ xr.sel # "none" => xr'.sel = xr.sel]_vars

\* At every instant, crashes and failed calls included, a profile that an import or the
\* old layout left in the user's hands is listed and readable, or still in the old
\* file, until its removal.  One exception: an import over the index entry of a removal
\* that was cut off, which SaveAWGProfile takes for the profile itself.
ProfilesKept == owned \subseteq (index \cap files) \cup {legacy} \/ "dangling" \in odd

\* A connect does not cost a working connection: whatever fails in it, it ends
\* connected if it began connected, unless the process was killed or the return to the
\* previous profile failed as well.
ConnectKeepsConnection == Idle /\ job.by = "connect" /\ job.was => st.conn \/ "unrestored" \in odd
=============================================================================
