-------------------------- MODULE AmneziaWG_proofs --------------------------
(***************************************************************************)
(* Proofs about module AmneziaWG for every set of profiles, every choice   *)
(* of addresses and any number of operations and faults: its types, the    *)
(* tunnel that carries a named connection (TunnelAsNamed), the traffic     *)
(* that the state records (TunnelRecorded), the profiles of the user       *)
(* (ProfilesKept), the connection a connect begins with                    *)
(* (ConnectKeepsConnection) and the isolation of checks (CheckIsIsolated). *)
(*                                                                         *)
(* An operation is a program in `todo'.  Every program that occurs is the  *)
(* rest of an operation from one of finitely many points on (Prog), and    *)
(* the invariant says of the point the operation has reached what holds    *)
(* there (Holds): what the operation has set up so far, what the state it  *)
(* may go back to looks like, and which of the promises is broken until    *)
(* the next save.                                                          *)
(***************************************************************************)
EXTENDS AmneziaWG, TLAPS

-------------------------------------------------------------------------------
(* The points of the operations.  A point is a label and the track of its  *)
(* operation: `attempt' is a connect after it ended the connection it      *)
(* replaces, `active' the removal of the connected profile.                *)

Tracks == {"import", "check", "heal", "connect", "attempt", "reapply", "restore", "remove", "active",
           "disconnect", "failopen"}
By(t) == CASE t = "attempt" -> "connect" [] t = "active" -> "remove" [] OTHER -> t

\* What an operation loads the state for.
Loaded(t) == CASE t = "heal" -> "check" [] t \in {"attempt", "reapply", "restore"} -> "attempt" [] OTHER -> t

\* The program from each label on, the last ones first.
AtOff(t) == Do("heal", "off", End, End)
AtOn(t) == Do("heal", "on", End, End)
AtFailSave(t) == Do("save", "failed", End, End)
AtFailStop(t) == Do("stop", "xray", End, AtFailSave(t))
\* The second degradation of restoreRuntime.
Degraded(t) == IF t = "restore" THEN AtFailStop(t) ELSE End
AtOpenSave(t) == Do("save", "failopen", Degraded(t), End)
AtOpenSelect(t) == Do("select", "direct", Degraded(t), AtOpenSave(t))
AtRetMode(t) == Do("settings", "orig", End, End)
AtRetSave(t) == Do("save", "orig", End, AtRetMode(t))
AtRetEgress(t) == Do("egress", "tag", End, AtRetSave(t))
AtRetSelect(t) == Do("select", "tag", End, AtRetEgress(t))
AtRetRuntime(t) == Do("runtime", "awg", End, AtRetSelect(t))
AtRetIfup(t) == Do("ifup", "awg", End, AtRetRuntime(t))
AtRetConfigure(t) == Do("configure", "orig", End, AtRetIfup(t))
AtRetUnconfigure(t) == Do("unconfigure", "awg", End, AtRetConfigure(t))
AtRetDown(t) == Do("down", "awg", End, AtRetUnconfigure(t))
AtRetProfile(t) == Do("profile", "orig", End, AtRetDown(t))
AtMode(t) == Do("settings", "job", End, End)
\* What runs when a step of the operation fails.
Handler(t) == CASE t = "heal" -> AtOff(t) [] t = "restore" -> AtOpenSelect(t) [] t = "attempt" -> AtRetProfile(t) [] OTHER -> End
AtBack(t) == Do("save", "back", Handler(t), Handler(t))
AtUndo(t) == Do("select", "prev", AtBack(t), AtBack(t))
AtConnected(t) == Do("save", "connected", AtUndo(t), AtMode(t))
AtEgress(t) == Do("egress", "tag", AtUndo(t), AtConnected(t))
AtSelect(t) == Do("select", "tag", AtBack(t), AtEgress(t))
AtIntent(t) == Do("save", "intent", Handler(t), AtSelect(t))
\* What follows the probe of the permanent interface, and of an isolated one.
Verified(t) == CASE t = "check" -> End [] t = "heal" -> AtOn(t) [] OTHER -> AtIntent(t)
AtNote(t) == Do("save", "probe", Handler(t), Verified(t))
AtProbe(t) == Do("probe", "awg", Handler(t), AtNote(t))
AtRuntime(t) == Do("runtime", "awg", Handler(t), AtProbe(t))
AtIfup(t) == Do("ifup", "awg", Handler(t), AtRuntime(t))
AtRequire(t) == Do("require", "up", Handler(t), AtIfup(t))
AtPrepared(t) == Do("save", "prepared", Handler(t), AtIfup(t))
AtConfigure(t) == Do("configure", "id", Handler(t), AtPrepared(t))
AtUnconfigure(t) == Do("unconfigure", "awg", Handler(t), AtConfigure(t))
AtDown(t) == Do("down", "awg", Handler(t), AtUnconfigure(t))
AtAskRequire(t) == Do("profile", "id", Handler(t), AtRequire(t))
AtAskDown(t) == Do("profile", "id", Handler(t), AtDown(t))
AtAskConfigure(t) == Do("profile", "id", Handler(t), AtConfigure(t))
AtAskIfup(t) == Do("profile", "id", Handler(t), AtIfup(t))
AtReadyRuntime(t) == Do("runtime", "awg", AtAskRequire(t), AtIntent(t))
AtReadyIfup(t) == Do("ifup", "awg", Handler(t), AtReadyRuntime(t))
AtQuickRuntime(t) == Do("runtime", "awg", AtAskIfup(t), AtIntent(t))
AtQuickIfup(t) == Do("ifup", "awg", Handler(t), AtQuickRuntime(t))
AtLoad(t) == Do("load", Loaded(t), Handler(t), End)
\* What follows the end of a connection, the migration, and the removal.
Ended(t) == IF t = "attempt" THEN AtLoad(t) ELSE End
AtEndMode(t) == Do("settings", "off", Handler(t), Ended(t))
AtEndSave(t) == Do("save", "disconnected", Handler(t), AtEndMode(t))
AtEndDown(t) == Do("down", "awg", Handler(t), AtEndSave(t))
AtEndSelect(t) == Do("select", "direct", Handler(t), AtEndDown(t))
AtOnlyDown(t) == Do("down", "awg", End, End)
AtKeep(t) == Do("keep", "orig", End, AtEndSelect("attempt"))
Checked(t) == CASE t = "check" -> End [] t = "heal" -> AtOn(t) [] OTHER -> AtKeep(t)
AtIsoEnd(t) == Do("deisolate", "id", Handler(t), Checked(t))
AtIsoFail(t) == Do("deisolate", "id", Handler(t), Handler(t))
AtIsoNote(t) == Do("save", "probe", AtIsoFail(t), AtIsoEnd(t))
AtIsoProbe(t) == Do("probe", "iso", AtIsoFail(t), AtIsoNote(t))
AtIsoRuntime(t) == Do("runtime", "iso", AtIsoFail(t), AtIsoProbe(t))
AtIsolate(t) == Do("isolate", "id", Handler(t), AtIsoRuntime(t))
AtAskIsolate(t) == Do("profile", "id", Handler(t), AtIsolate(t))
AtImported(t) == Do("imported", "id", End, End)
AtNewUnlink(t) == Do("unlink", "id", End, End)
AtNewList(t) == Do("list", "id", AtNewUnlink(t), AtImported(t))
AtNewWrite(t) == Do("write", "id", End, AtNewList(t))
AtReload(t) == Do("reload", "xray", End, AtLoad(t))
Migrated(t) == IF t = "reapply" THEN AtReload(t) ELSE AtLoad(t)
AtDrop(t) == Do("dropold", "legacy", Handler(t), Migrated(t))
AtAdopt(t) == Do("save", "adopted", Handler(t), AtDrop(t))
AtUnlink(t) == Do("unlink", "legacy", Handler(t), Handler(t))
AtList(t) == Do("list", "legacy", AtUnlink(t), AtAdopt(t))
AtWrite(t) == Do("write", "legacy", Handler(t), AtList(t))
AtRmMode(t) == Do("settings", "off", End, End)
Removed(t) == IF t = "active" THEN AtRmMode(t) ELSE End
AtRmSave(t) == Do("save", "removed", End, Removed(t))
AtRmUnlist(t) == Do("unlist", "id", End, AtRmSave(t))
AtRmUnlink(t) == Do("unlink", "id", End, AtRmUnlist(t))
AtRmUnconfigure(t) == Do("unconfigure", "awg", End, AtRmUnlink(t))
AtRmDown(t) == Do("down", "awg", End, AtRmUnconfigure(t))
AtRmSelect(t) == Do("select", "direct", End, AtRmDown(t))
AtDirectSave(t) == Do("save", "direct", End, End)
AtDirectSelect(t) == Do("select", "direct", End, AtDirectSave(t))
AtStop(t) == Do("stop", "xray", End, End)
AtStart(t) == Do("start", "node", AtFailStop(t), End)

Prog(at, t) ==
    CASE at = "off" -> AtOff(t) [] at = "on" -> AtOn(t) [] at = "fail_save" -> AtFailSave(t)
      [] at = "fail_stop" -> AtFailStop(t) [] at = "open_save" -> AtOpenSave(t)
      [] at = "open_select" -> AtOpenSelect(t) [] at = "ret_mode" -> AtRetMode(t) [] at = "ret_save" -> AtRetSave(t)
      [] at = "ret_egress" -> AtRetEgress(t) [] at = "ret_select" -> AtRetSelect(t)
      [] at = "ret_runtime" -> AtRetRuntime(t) [] at = "ret_ifup" -> AtRetIfup(t)
      [] at = "ret_configure" -> AtRetConfigure(t) [] at = "ret_unconfigure" -> AtRetUnconfigure(t)
      [] at = "ret_down" -> AtRetDown(t) [] at = "ret_profile" -> AtRetProfile(t) [] at = "mode" -> AtMode(t)
      [] at = "back" -> AtBack(t) [] at = "undo" -> AtUndo(t) [] at = "connected" -> AtConnected(t)
      [] at = "egress" -> AtEgress(t) [] at = "select" -> AtSelect(t) [] at = "intent" -> AtIntent(t)
      [] at = "note" -> AtNote(t) [] at = "probe" -> AtProbe(t) [] at = "runtime" -> AtRuntime(t)
      [] at = "ifup" -> AtIfup(t) [] at = "require" -> AtRequire(t) [] at = "prepared" -> AtPrepared(t)
      [] at = "configure" -> AtConfigure(t) [] at = "unconfigure" -> AtUnconfigure(t) [] at = "down" -> AtDown(t)
      [] at = "ask_require" -> AtAskRequire(t) [] at = "ask_down" -> AtAskDown(t)
      [] at = "ask_configure" -> AtAskConfigure(t) [] at = "ask_ifup" -> AtAskIfup(t)
      [] at = "ready_runtime" -> AtReadyRuntime(t) [] at = "ready_ifup" -> AtReadyIfup(t)
      [] at = "quick_runtime" -> AtQuickRuntime(t) [] at = "quick_ifup" -> AtQuickIfup(t)
      [] at = "load" -> AtLoad(t) [] at = "end_mode" -> AtEndMode(t) [] at = "end_save" -> AtEndSave(t)
      [] at = "end_down" -> AtEndDown(t) [] at = "end_select" -> AtEndSelect(t) [] at = "only_down" -> AtOnlyDown(t)
      [] at = "keep" -> AtKeep(t) [] at = "iso_end" -> AtIsoEnd(t) [] at = "iso_fail" -> AtIsoFail(t)
      [] at = "iso_note" -> AtIsoNote(t) [] at = "iso_probe" -> AtIsoProbe(t)
      [] at = "iso_runtime" -> AtIsoRuntime(t) [] at = "isolate" -> AtIsolate(t)
      [] at = "ask_isolate" -> AtAskIsolate(t) [] at = "imported" -> AtImported(t)
      [] at = "new_unlink" -> AtNewUnlink(t) [] at = "new_list" -> AtNewList(t) [] at = "new_write" -> AtNewWrite(t)
      [] at = "reload" -> AtReload(t) [] at = "drop" -> AtDrop(t) [] at = "adopt" -> AtAdopt(t)
      [] at = "unlink" -> AtUnlink(t) [] at = "list" -> AtList(t) [] at = "write" -> AtWrite(t)
      [] at = "rm_mode" -> AtRmMode(t) [] at = "rm_save" -> AtRmSave(t) [] at = "rm_unlist" -> AtRmUnlist(t)
      [] at = "rm_unlink" -> AtRmUnlink(t) [] at = "rm_unconfigure" -> AtRmUnconfigure(t)
      [] at = "rm_down" -> AtRmDown(t) [] at = "rm_select" -> AtRmSelect(t) [] at = "direct_save" -> AtDirectSave(t)
      [] at = "direct_select" -> AtDirectSelect(t) [] at = "stop" -> AtStop(t) [] at = "start" -> AtStart(t)
      [] OTHER -> End

\* The call at each label.
Call(at, t) ==
    CASE at = "off" -> <<"heal", "off">> [] at = "on" -> <<"heal", "on">>
      [] at = "fail_save" -> <<"save", "failed">> [] at = "fail_stop" -> <<"stop", "xray">>
      [] at = "open_save" -> <<"save", "failopen">> [] at = "open_select" -> <<"select", "direct">>
      [] at = "ret_mode" -> <<"settings", "orig">> [] at = "ret_save" -> <<"save", "orig">>
      [] at = "ret_egress" -> <<"egress", "tag">> [] at = "ret_select" -> <<"select", "tag">>
      [] at = "ret_runtime" -> <<"runtime", "awg">> [] at = "ret_ifup" -> <<"ifup", "awg">>
      [] at = "ret_configure" -> <<"configure", "orig">> [] at = "ret_unconfigure" -> <<"unconfigure", "awg">>
      [] at = "ret_down" -> <<"down", "awg">> [] at = "ret_profile" -> <<"profile", "orig">>
      [] at = "mode" -> <<"settings", "job">> [] at = "back" -> <<"save", "back">>
      [] at = "undo" -> <<"select", "prev">> [] at = "connected" -> <<"save", "connected">>
      [] at = "egress" -> <<"egress", "tag">> [] at = "select" -> <<"select", "tag">>
      [] at = "intent" -> <<"save", "intent">> [] at = "note" -> <<"save", "probe">>
      [] at = "probe" -> <<"probe", "awg">> [] at = "runtime" -> <<"runtime", "awg">>
      [] at = "ifup" -> <<"ifup", "awg">> [] at = "require" -> <<"require", "up">>
      [] at = "prepared" -> <<"save", "prepared">> [] at = "configure" -> <<"configure", "id">>
      [] at = "unconfigure" -> <<"unconfigure", "awg">> [] at = "down" -> <<"down", "awg">>
      [] at = "ask_require" -> <<"profile", "id">> [] at = "ask_down" -> <<"profile", "id">>
      [] at = "ask_configure" -> <<"profile", "id">> [] at = "ask_ifup" -> <<"profile", "id">>
      [] at = "ready_runtime" -> <<"runtime", "awg">> [] at = "ready_ifup" -> <<"ifup", "awg">>
      [] at = "quick_runtime" -> <<"runtime", "awg">> [] at = "quick_ifup" -> <<"ifup", "awg">>
      [] at = "load" -> <<"load", Loaded(t)>> [] at = "end_mode" -> <<"settings", "off">>
      [] at = "end_save" -> <<"save", "disconnected">> [] at = "end_down" -> <<"down", "awg">>
      [] at = "end_select" -> <<"select", "direct">> [] at = "only_down" -> <<"down", "awg">>
      [] at = "keep" -> <<"keep", "orig">> [] at = "iso_end" -> <<"deisolate", "id">>
      [] at = "iso_fail" -> <<"deisolate", "id">> [] at = "iso_note" -> <<"save", "probe">>
      [] at = "iso_probe" -> <<"probe", "iso">> [] at = "iso_runtime" -> <<"runtime", "iso">>
      [] at = "isolate" -> <<"isolate", "id">> [] at = "ask_isolate" -> <<"profile", "id">>
      [] at = "imported" -> <<"imported", "id">> [] at = "new_unlink" -> <<"unlink", "id">>
      [] at = "new_list" -> <<"list", "id">> [] at = "new_write" -> <<"write", "id">>
      [] at = "reload" -> <<"reload", "xray">> [] at = "drop" -> <<"dropold", "legacy">>
      [] at = "adopt" -> <<"save", "adopted">> [] at = "unlink" -> <<"unlink", "legacy">>
      [] at = "list" -> <<"list", "legacy">> [] at = "write" -> <<"write", "legacy">>
      [] at = "rm_mode" -> <<"settings", "off">> [] at = "rm_save" -> <<"save", "removed">>
      [] at = "rm_unlist" -> <<"unlist", "id">> [] at = "rm_unlink" -> <<"unlink", "id">>
      [] at = "rm_unconfigure" -> <<"unconfigure", "awg">> [] at = "rm_down" -> <<"down", "awg">>
      [] at = "rm_select" -> <<"select", "direct">> [] at = "direct_save" -> <<"save", "direct">>
      [] at = "direct_select" -> <<"select", "direct">> [] at = "stop" -> <<"stop", "xray">>
      [] at = "start" -> <<"start", "node">> [] OTHER -> <<"end", "end">>

\* The label an operation goes to when a step fails.
Entry(t) == CASE t = "heal" -> "off" [] t = "restore" -> "open_select" [] t = "attempt" -> "ret_profile" [] OTHER -> "end"
Err(at, t) ==
    CASE at \in {"open_save", "open_select"} -> (IF t = "restore" THEN "fail_stop" ELSE "end")
      [] at \in {"undo", "select"} -> "back"
      [] at \in {"connected", "egress"} -> "undo"
      [] at = "ready_runtime" -> "ask_require"
      [] at = "quick_runtime" -> "ask_ifup"
      [] at \in {"iso_note", "iso_probe", "iso_runtime"} -> "iso_fail"
      [] at = "new_list" -> "new_unlink"
      [] at = "list" -> "unlink"
      [] at = "start" -> "fail_stop"
      [] at \in {"back", "intent", "note", "probe", "runtime", "ifup", "require", "prepared", "configure",
                 "unconfigure", "down", "ask_require", "ask_down", "ask_configure", "ask_ifup", "ready_ifup",
                 "quick_ifup", "load", "end_mode", "end_save", "end_down", "end_select", "iso_end", "iso_fail",
                 "isolate", "ask_isolate", "drop", "adopt", "unlink", "write"} -> Entry(t)
      [] OTHER -> "end"

\* The labels of each part of the operations, and the tracks that pass through it.
Moving == {"write", "list", "unlink", "adopt", "drop"}
Loading == {"load"}
Reloading == {"reload"}
Importing == {"new_write", "new_list", "new_unlink", "imported"}
Isolated == {"ask_isolate", "isolate", "iso_runtime", "iso_probe", "iso_note", "iso_fail", "iso_end"}
Verifying == {"ask_require", "require", "ifup", "runtime", "probe", "note"}
Configuring == {"ask_down", "down", "unconfigure", "ask_configure", "configure"}
Configured == {"prepared", "ask_ifup", "quick_ifup", "quick_runtime"}
Starting == {"ready_ifup", "ready_runtime", "intent"}
Switching == {"select", "egress", "connected", "undo", "back"}
Recording == {"mode"}
Keeping == {"keep"}
Ending == {"end_select", "end_down", "end_save", "end_mode"}
Lowering == {"only_down"}
Returning == {"ret_profile", "ret_down", "ret_unconfigure", "ret_configure"}
Returned == {"ret_ifup", "ret_runtime", "ret_select", "ret_egress", "ret_save"}
Settled == {"ret_mode"}
Erasing == {"rm_down", "rm_unconfigure", "rm_unlink", "rm_unlist", "rm_save"}
Ceasing == {"rm_select", "rm_mode"}
Opening == {"open_select", "open_save"}
Restoring == {"fail_stop", "fail_save", "direct_select", "direct_save", "stop", "start"}
Healing == {"on", "off"}
Checks == {"check", "heal"}
Connects == {"connect", "attempt", "reapply", "restore"}
Migrations == {"import", "check", "heal", "connect", "remove", "reapply", "restore"}

Point(at, t) ==
    \/ at = "end" /\ t \in Tracks
    \/ at \in Moving /\ t \in Migrations
    \/ at \in Loading /\ t \in Migrations \cup {"attempt"}
    \/ at \in Reloading /\ t \in {"reapply"}
    \/ at \in Importing /\ t \in {"import"}
    \/ at \in Isolated /\ t \in Checks \cup {"connect"}
    \/ at \in Verifying /\ t \in Checks \cup Connects
    \/ at \in Configuring /\ t \in {"connect", "attempt"}
    \/ at \in Configured /\ t \in {"connect", "attempt"}
    \/ at \in Starting /\ t \in Connects
    \/ at \in Switching /\ t \in Connects
    \/ at \in Recording /\ t \in Connects
    \/ at \in Keeping /\ t \in {"connect"}
    \/ at \in Ending /\ t \in {"disconnect", "attempt"}
    \/ at \in Lowering /\ t \in {"disconnect"}
    \/ at \in Returning /\ t \in {"attempt"}
    \/ at \in Returned /\ t \in {"attempt"}
    \/ at \in Settled /\ t \in {"attempt"}
    \/ at \in Erasing /\ t \in {"remove", "active"}
    \/ at \in Ceasing /\ t \in {"active"}
    \/ at \in Opening /\ t \in {"failopen", "restore"}
    \/ at \in Restoring /\ t \in {"restore"}
    \/ at \in Healing /\ t \in {"heal"}

-------------------------------------------------------------------------------
(* The programs, one step at a time. *)

\* Looking a label up.
LEMMA ProgAt ==
  ASSUME NEW t
  PROVE
    /\ Prog("off", t) = AtOff(t)
    /\ Prog("on", t) = AtOn(t)
    /\ Prog("fail_save", t) = AtFailSave(t)
    /\ Prog("fail_stop", t) = AtFailStop(t)
    /\ Prog("open_save", t) = AtOpenSave(t)
    /\ Prog("open_select", t) = AtOpenSelect(t)
    /\ Prog("ret_mode", t) = AtRetMode(t)
    /\ Prog("ret_save", t) = AtRetSave(t)
    /\ Prog("ret_egress", t) = AtRetEgress(t)
    /\ Prog("ret_select", t) = AtRetSelect(t)
    /\ Prog("ret_runtime", t) = AtRetRuntime(t)
    /\ Prog("ret_ifup", t) = AtRetIfup(t)
    /\ Prog("ret_configure", t) = AtRetConfigure(t)
    /\ Prog("ret_unconfigure", t) = AtRetUnconfigure(t)
    /\ Prog("ret_down", t) = AtRetDown(t)
    /\ Prog("ret_profile", t) = AtRetProfile(t)
    /\ Prog("mode", t) = AtMode(t)
    /\ Prog("back", t) = AtBack(t)
    /\ Prog("undo", t) = AtUndo(t)
    /\ Prog("connected", t) = AtConnected(t)
    /\ Prog("egress", t) = AtEgress(t)
    /\ Prog("select", t) = AtSelect(t)
    /\ Prog("intent", t) = AtIntent(t)
    /\ Prog("note", t) = AtNote(t)
    /\ Prog("probe", t) = AtProbe(t)
    /\ Prog("runtime", t) = AtRuntime(t)
    /\ Prog("ifup", t) = AtIfup(t)
    /\ Prog("require", t) = AtRequire(t)
    /\ Prog("prepared", t) = AtPrepared(t)
    /\ Prog("configure", t) = AtConfigure(t)
    /\ Prog("unconfigure", t) = AtUnconfigure(t)
    /\ Prog("down", t) = AtDown(t)
    /\ Prog("ask_require", t) = AtAskRequire(t)
    /\ Prog("ask_down", t) = AtAskDown(t)
    /\ Prog("ask_configure", t) = AtAskConfigure(t)
    /\ Prog("ask_ifup", t) = AtAskIfup(t)
    /\ Prog("ready_runtime", t) = AtReadyRuntime(t)
    /\ Prog("ready_ifup", t) = AtReadyIfup(t)
    /\ Prog("quick_runtime", t) = AtQuickRuntime(t)
    /\ Prog("quick_ifup", t) = AtQuickIfup(t)
    /\ Prog("load", t) = AtLoad(t)
    /\ Prog("end_mode", t) = AtEndMode(t)
    /\ Prog("end_save", t) = AtEndSave(t)
    /\ Prog("end_down", t) = AtEndDown(t)
    /\ Prog("end_select", t) = AtEndSelect(t)
    /\ Prog("only_down", t) = AtOnlyDown(t)
    /\ Prog("keep", t) = AtKeep(t)
    /\ Prog("iso_end", t) = AtIsoEnd(t)
    /\ Prog("iso_fail", t) = AtIsoFail(t)
    /\ Prog("iso_note", t) = AtIsoNote(t)
    /\ Prog("iso_probe", t) = AtIsoProbe(t)
    /\ Prog("iso_runtime", t) = AtIsoRuntime(t)
    /\ Prog("isolate", t) = AtIsolate(t)
    /\ Prog("ask_isolate", t) = AtAskIsolate(t)
    /\ Prog("imported", t) = AtImported(t)
    /\ Prog("new_unlink", t) = AtNewUnlink(t)
    /\ Prog("new_list", t) = AtNewList(t)
    /\ Prog("new_write", t) = AtNewWrite(t)
    /\ Prog("reload", t) = AtReload(t)
    /\ Prog("drop", t) = AtDrop(t)
    /\ Prog("adopt", t) = AtAdopt(t)
    /\ Prog("unlink", t) = AtUnlink(t)
    /\ Prog("list", t) = AtList(t)
    /\ Prog("write", t) = AtWrite(t)
    /\ Prog("rm_mode", t) = AtRmMode(t)
    /\ Prog("rm_save", t) = AtRmSave(t)
    /\ Prog("rm_unlist", t) = AtRmUnlist(t)
    /\ Prog("rm_unlink", t) = AtRmUnlink(t)
    /\ Prog("rm_unconfigure", t) = AtRmUnconfigure(t)
    /\ Prog("rm_down", t) = AtRmDown(t)
    /\ Prog("rm_select", t) = AtRmSelect(t)
    /\ Prog("direct_save", t) = AtDirectSave(t)
    /\ Prog("direct_select", t) = AtDirectSelect(t)
    /\ Prog("stop", t) = AtStop(t)
    /\ Prog("start", t) = AtStart(t)
    /\ Prog("end", t) = End
BY DEF Prog

\* The rest of the migration from each of its labels.
LEMMA MovingProg ==
  ASSUME NEW t
  PROVE  /\ Prog("write", t) = Do("write", "legacy", Handler(t), Prog("list", t))
         /\ Prog("list", t) = Do("list", "legacy", Prog("unlink", t), Prog("adopt", t))
         /\ Prog("unlink", t) = Do("unlink", "legacy", Handler(t), Handler(t))
         /\ Prog("adopt", t) = Do("save", "adopted", Handler(t), Prog("drop", t))
         /\ Prog("drop", t) = Do("dropold", "legacy", Handler(t), Migrated(t))
BY ONLY ProgAt DEF AtWrite, AtList, AtUnlink, AtAdopt, AtDrop

\* The load of the state.
LEMMA LoadingProg ==
  ASSUME NEW t
  PROVE  /\ Prog("load", t) = Do("load", Loaded(t), Handler(t), End)
BY ONLY ProgAt DEF AtLoad

\* The reload of Xray after a settings change.
LEMMA ReloadingProg ==
  ASSUME NEW t
  PROVE  /\ Prog("reload", t) = Do("reload", "xray", End, Prog("load", t))
BY ONLY ProgAt DEF AtReload

\* The rest of an import.
LEMMA ImportingProg ==
  ASSUME NEW t
  PROVE  /\ Prog("new_write", t) = Do("write", "id", End, Prog("new_list", t))
         /\ Prog("new_list", t) = Do("list", "id", Prog("new_unlink", t), Prog("imported", t))
         /\ Prog("new_unlink", t) = Do("unlink", "id", End, End)
         /\ Prog("imported", t) = Do("imported", "id", End, End)
BY ONLY ProgAt DEF AtNewWrite, AtNewList, AtNewUnlink, AtImported

\* The rest of a check on an interface of its own.
LEMMA IsolatedProg ==
  ASSUME NEW t
  PROVE  /\ Prog("ask_isolate", t) = Do("profile", "id", Handler(t), Prog("isolate", t))
         /\ Prog("isolate", t) = Do("isolate", "id", Handler(t), Prog("iso_runtime", t))
         /\ Prog("iso_runtime", t) = Do("runtime", "iso", Prog("iso_fail", t), Prog("iso_probe", t))
         /\ Prog("iso_probe", t) = Do("probe", "iso", Prog("iso_fail", t), Prog("iso_note", t))
         /\ Prog("iso_note", t) = Do("save", "probe", Prog("iso_fail", t), Prog("iso_end", t))
         /\ Prog("iso_fail", t) = Do("deisolate", "id", Handler(t), Handler(t))
         /\ Prog("iso_end", t) = Do("deisolate", "id", Handler(t), Checked(t))
BY ONLY ProgAt DEF AtAskIsolate, AtIsolate, AtIsoRuntime, AtIsoProbe, AtIsoNote, AtIsoFail, AtIsoEnd

\* The rest of a verification of the permanent interface.
LEMMA VerifyingProg ==
  ASSUME NEW t
  PROVE  /\ Prog("ask_require", t) = Do("profile", "id", Handler(t), Prog("require", t))
         /\ Prog("require", t) = Do("require", "up", Handler(t), Prog("ifup", t))
         /\ Prog("ifup", t) = Do("ifup", "awg", Handler(t), Prog("runtime", t))
         /\ Prog("runtime", t) = Do("runtime", "awg", Handler(t), Prog("probe", t))
         /\ Prog("probe", t) = Do("probe", "awg", Handler(t), Prog("note", t))
         /\ Prog("note", t) = Do("save", "probe", Handler(t), Verified(t))
BY ONLY ProgAt DEF AtAskRequire, AtRequire, AtIfup, AtRuntime, AtProbe, AtNote

\* The permanent interface is configured for another profile.
LEMMA ConfiguringProg ==
  ASSUME NEW t
  PROVE  /\ Prog("ask_down", t) = Do("profile", "id", Handler(t), Prog("down", t))
         /\ Prog("down", t) = Do("down", "awg", Handler(t), Prog("unconfigure", t))
         /\ Prog("unconfigure", t) = Do("unconfigure", "awg", Handler(t), Prog("configure", t))
         /\ Prog("ask_configure", t) = Do("profile", "id", Handler(t), Prog("configure", t))
         /\ Prog("configure", t) = Do("configure", "id", Handler(t), Prog("prepared", t))
BY ONLY ProgAt DEF AtAskDown, AtDown, AtUnconfigure, AtAskConfigure, AtConfigure

\* The interface is configured, or was found prepared.
LEMMA ConfiguredProg ==
  ASSUME NEW t
  PROVE  /\ Prog("prepared", t) = Do("save", "prepared", Handler(t), Prog("ifup", t))
         /\ Prog("ask_ifup", t) = Do("profile", "id", Handler(t), Prog("ifup", t))
         /\ Prog("quick_ifup", t) = Do("ifup", "awg", Handler(t), Prog("quick_runtime", t))
         /\ Prog("quick_runtime", t) = Do("runtime", "awg", Prog("ask_ifup", t), Prog("intent", t))
BY ONLY ProgAt DEF AtPrepared, AtAskIfup, AtQuickIfup, AtQuickRuntime

\* A prepared interface of the connected profile, and the intent.
LEMMA StartingProg ==
  ASSUME NEW t
  PROVE  /\ Prog("ready_ifup", t) = Do("ifup", "awg", Handler(t), Prog("ready_runtime", t))
         /\ Prog("ready_runtime", t) = Do("runtime", "awg", Prog("ask_require", t), Prog("intent", t))
         /\ Prog("intent", t) = Do("save", "intent", Handler(t), Prog("select", t))
BY ONLY ProgAt DEF AtReadyIfup, AtReadyRuntime, AtIntent

\* The switch of the traffic and its undo.
LEMMA SwitchingProg ==
  ASSUME NEW t
  PROVE  /\ Prog("select", t) = Do("select", "tag", Prog("back", t), Prog("egress", t))
         /\ Prog("egress", t) = Do("egress", "tag", Prog("undo", t), Prog("connected", t))
         /\ Prog("connected", t) = Do("save", "connected", Prog("undo", t), Prog("mode", t))
         /\ Prog("undo", t) = Do("select", "prev", Prog("back", t), Prog("back", t))
         /\ Prog("back", t) = Do("save", "back", Handler(t), Handler(t))
BY ONLY ProgAt DEF AtSelect, AtEgress, AtConnected, AtUndo, AtBack

\* The mode of a connection that was recorded.
LEMMA RecordingProg ==
  ASSUME NEW t
  PROVE  /\ Prog("mode", t) = Do("settings", "job", End, End)
BY ONLY ProgAt DEF AtMode

\* The connection that is about to be replaced is kept.
LEMMA KeepingProg ==
  ASSUME NEW t
  PROVE  /\ Prog("keep", t) = Do("keep", "orig", End, Prog("end_select", "attempt"))
<1>1. Prog("end_select", "attempt") = AtEndSelect("attempt")
  BY ONLY ProgAt
<1> QED BY ONLY <1>1, ProgAt DEF AtKeep

\* The end of a connection.
LEMMA EndingProg ==
  ASSUME NEW t
  PROVE  /\ Prog("end_select", t) = Do("select", "direct", Handler(t), Prog("end_down", t))
         /\ Prog("end_down", t) = Do("down", "awg", Handler(t), Prog("end_save", t))
         /\ Prog("end_save", t) = Do("save", "disconnected", Handler(t), Prog("end_mode", t))
         /\ Prog("end_mode", t) = Do("settings", "off", Handler(t), Ended(t))
BY ONLY ProgAt DEF AtEndSelect, AtEndDown, AtEndSave, AtEndMode

\* A disconnect without a connection.
LEMMA LoweringProg ==
  ASSUME NEW t
  PROVE  /\ Prog("only_down", t) = Do("down", "awg", End, End)
BY ONLY ProgAt DEF AtOnlyDown

\* The return to the previous profile, up to its interface.
LEMMA ReturningProg ==
  ASSUME NEW t
  PROVE  /\ Prog("ret_profile", t) = Do("profile", "orig", End, Prog("ret_down", t))
         /\ Prog("ret_down", t) = Do("down", "awg", End, Prog("ret_unconfigure", t))
         /\ Prog("ret_unconfigure", t) = Do("unconfigure", "awg", End, Prog("ret_configure", t))
         /\ Prog("ret_configure", t) = Do("configure", "orig", End, Prog("ret_ifup", t))
BY ONLY ProgAt DEF AtRetProfile, AtRetDown, AtRetUnconfigure, AtRetConfigure

\* The return from the interface to the record.
LEMMA ReturnedProg ==
  ASSUME NEW t
  PROVE  /\ Prog("ret_ifup", t) = Do("ifup", "awg", End, Prog("ret_runtime", t))
         /\ Prog("ret_runtime", t) = Do("runtime", "awg", End, Prog("ret_select", t))
         /\ Prog("ret_select", t) = Do("select", "tag", End, Prog("ret_egress", t))
         /\ Prog("ret_egress", t) = Do("egress", "tag", End, Prog("ret_save", t))
         /\ Prog("ret_save", t) = Do("save", "orig", End, Prog("ret_mode", t))
BY ONLY ProgAt DEF AtRetIfup, AtRetRuntime, AtRetSelect, AtRetEgress, AtRetSave

\* The mode of the connection that was returned to.
LEMMA SettledProg ==
  ASSUME NEW t
  PROVE  /\ Prog("ret_mode", t) = Do("settings", "orig", End, End)
BY ONLY ProgAt DEF AtRetMode

\* A profile is erased.
LEMMA ErasingProg ==
  ASSUME NEW t
  PROVE  /\ Prog("rm_down", t) = Do("down", "awg", End, Prog("rm_unconfigure", t))
         /\ Prog("rm_unconfigure", t) = Do("unconfigure", "awg", End, Prog("rm_unlink", t))
         /\ Prog("rm_unlink", t) = Do("unlink", "id", End, Prog("rm_unlist", t))
         /\ Prog("rm_unlist", t) = Do("unlist", "id", End, Prog("rm_save", t))
         /\ Prog("rm_save", t) = Do("save", "removed", End, Removed(t))
BY ONLY ProgAt DEF AtRmDown, AtRmUnconfigure, AtRmUnlink, AtRmUnlist, AtRmSave

\* What the removal of the connected profile adds.
LEMMA CeasingProg ==
  ASSUME NEW t
  PROVE  /\ Prog("rm_select", t) = Do("select", "direct", End, Prog("rm_down", t))
         /\ Prog("rm_mode", t) = Do("settings", "off", End, End)
BY ONLY ProgAt DEF AtRmSelect, AtRmMode

\* The direct route of a fail-open.
LEMMA OpeningProg ==
  ASSUME NEW t
  PROVE  /\ Prog("open_select", t) = Do("select", "direct", Degraded(t), Prog("open_save", t))
         /\ Prog("open_save", t) = Do("save", "failopen", Degraded(t), End)
BY ONLY ProgAt DEF AtOpenSelect, AtOpenSave

\* What the start of the daemon restores, and its degradation.
LEMMA RestoringProg ==
  ASSUME NEW t
  PROVE  /\ Prog("fail_stop", t) = Do("stop", "xray", End, Prog("fail_save", t))
         /\ Prog("fail_save", t) = Do("save", "failed", End, End)
         /\ Prog("direct_select", t) = Do("select", "direct", End, Prog("direct_save", t))
         /\ Prog("direct_save", t) = Do("save", "direct", End, End)
         /\ Prog("stop", t) = Do("stop", "xray", End, End)
         /\ Prog("start", t) = Do("start", "node", Prog("fail_stop", t), End)
BY ONLY ProgAt DEF AtFailStop, AtFailSave, AtDirectSelect, AtDirectSave, AtStop, AtStart

\* The result of the watch's check.
LEMMA HealingProg ==
  ASSUME NEW t
  PROVE  /\ Prog("on", t) = Do("heal", "on", End, End)
         /\ Prog("off", t) = Do("heal", "off", End, End)
BY ONLY ProgAt DEF AtOn, AtOff

\* Which tracks pass through a part, by label.
LEMMA Passing ==
  ASSUME NEW t
  PROVE  /\ Point("end", t) <=> t \in Tracks
         /\ \A a \in Moving : Point(a, t) <=> t \in Migrations
         /\ \A a \in Loading : Point(a, t) <=> t \in Migrations \cup {"attempt"}
         /\ \A a \in Reloading : Point(a, t) <=> t \in {"reapply"}
         /\ \A a \in Importing : Point(a, t) <=> t \in {"import"}
         /\ \A a \in Isolated : Point(a, t) <=> t \in Checks \cup {"connect"}
         /\ \A a \in Verifying : Point(a, t) <=> t \in Checks \cup Connects
         /\ \A a \in Configuring : Point(a, t) <=> t \in {"connect", "attempt"}
         /\ \A a \in Configured : Point(a, t) <=> t \in {"connect", "attempt"}
         /\ \A a \in Starting : Point(a, t) <=> t \in Connects
         /\ \A a \in Switching : Point(a, t) <=> t \in Connects
         /\ \A a \in Recording : Point(a, t) <=> t \in Connects
         /\ \A a \in Keeping : Point(a, t) <=> t \in {"connect"}
         /\ \A a \in Ending : Point(a, t) <=> t \in {"disconnect", "attempt"}
         /\ \A a \in Lowering : Point(a, t) <=> t \in {"disconnect"}
         /\ \A a \in Returning : Point(a, t) <=> t \in {"attempt"}
         /\ \A a \in Returned : Point(a, t) <=> t \in {"attempt"}
         /\ \A a \in Settled : Point(a, t) <=> t \in {"attempt"}
         /\ \A a \in Erasing : Point(a, t) <=> t \in {"remove", "active"}
         /\ \A a \in Ceasing : Point(a, t) <=> t \in {"active"}
         /\ \A a \in Opening : Point(a, t) <=> t \in {"failopen", "restore"}
         /\ \A a \in Restoring : Point(a, t) <=> t \in {"restore"}
         /\ \A a \in Healing : Point(a, t) <=> t \in {"heal"}
<1> USE DEF Point, Moving, Loading, Reloading, Importing, Isolated, Verifying, Configuring, Configured, Starting,
          Switching, Recording,
            Keeping, Ending, Lowering, Returning, Returned, Settled, Erasing, Ceasing, Opening, Restoring, Healing
<1>1. ASSUME NEW a \in Moving PROVE Point(a, t) <=> t \in Migrations
  OBVIOUS
<1>2. ASSUME NEW a \in Loading PROVE Point(a, t) <=> t \in Migrations \cup {"attempt"}
  OBVIOUS
<1>3. ASSUME NEW a \in Reloading PROVE Point(a, t) <=> t \in {"reapply"}
  OBVIOUS
<1>4. ASSUME NEW a \in Importing PROVE Point(a, t) <=> t \in {"import"}
  OBVIOUS
<1>5. ASSUME NEW a \in Isolated PROVE Point(a, t) <=> t \in Checks \cup {"connect"}
  OBVIOUS
<1>6. ASSUME NEW a \in Verifying PROVE Point(a, t) <=> t \in Checks \cup Connects
  OBVIOUS
<1>7. ASSUME NEW a \in Configuring PROVE Point(a, t) <=> t \in {"connect", "attempt"}
  OBVIOUS
<1>8. ASSUME NEW a \in Configured PROVE Point(a, t) <=> t \in {"connect", "attempt"}
  OBVIOUS
<1>9. ASSUME NEW a \in Starting PROVE Point(a, t) <=> t \in Connects
  OBVIOUS
<1>10. ASSUME NEW a \in Switching PROVE Point(a, t) <=> t \in Connects
  OBVIOUS
<1>11. ASSUME NEW a \in Recording PROVE Point(a, t) <=> t \in Connects
  OBVIOUS
<1>12. ASSUME NEW a \in Keeping PROVE Point(a, t) <=> t \in {"connect"}
  OBVIOUS
<1>13. ASSUME NEW a \in Ending PROVE Point(a, t) <=> t \in {"disconnect", "attempt"}
  OBVIOUS
<1>14. ASSUME NEW a \in Lowering PROVE Point(a, t) <=> t \in {"disconnect"}
  OBVIOUS
<1>15. ASSUME NEW a \in Returning PROVE Point(a, t) <=> t \in {"attempt"}
  OBVIOUS
<1>16. ASSUME NEW a \in Returned PROVE Point(a, t) <=> t \in {"attempt"}
  OBVIOUS
<1>17. ASSUME NEW a \in Settled PROVE Point(a, t) <=> t \in {"attempt"}
  OBVIOUS
<1>18. ASSUME NEW a \in Erasing PROVE Point(a, t) <=> t \in {"remove", "active"}
  OBVIOUS
<1>19. ASSUME NEW a \in Ceasing PROVE Point(a, t) <=> t \in {"active"}
  OBVIOUS
<1>20. ASSUME NEW a \in Opening PROVE Point(a, t) <=> t \in {"failopen", "restore"}
  OBVIOUS
<1>21. ASSUME NEW a \in Restoring PROVE Point(a, t) <=> t \in {"restore"}
  OBVIOUS
<1>22. ASSUME NEW a \in Healing PROVE Point(a, t) <=> t \in {"heal"}
  OBVIOUS
<1>23. Point("end", t) <=> t \in Tracks
  OBVIOUS
<1> QED
  BY ONLY <1>1, <1>2, <1>3, <1>4, <1>5, <1>6, <1>7, <1>8, <1>9, <1>10, <1>11, <1>12, <1>13, <1>14, <1>15, <1>16, <1>17,
     <1>18, <1>19, <1>20, <1>21, <1>22, <1>23

\* What the programs that depend on the track come to.
LEMMA HandlerProg ==
  ASSUME NEW t
  PROVE  Handler(t) = Prog(Entry(t), t)
<1>1. CASE t = "heal"
  BY ONLY <1>1, ProgAt DEF Handler, Entry
<1>2. CASE t = "restore"
  BY ONLY <1>2, ProgAt DEF Handler, Entry
<1>3. CASE t = "attempt"
  BY ONLY <1>3, ProgAt DEF Handler, Entry
<1>4. CASE t \notin {"heal", "restore", "attempt"}
  BY ONLY <1>4, ProgAt DEF Handler, Entry
<1> QED BY <1>1, <1>2, <1>3, <1>4

\* What follows a part, by track.
LEMMA BranchProg ==
  ASSUME NEW t
  PROVE  /\ Degraded(t) = IF t = "restore" THEN Prog("fail_stop", t) ELSE End
         /\ Verified(t) = CASE t = "check" -> End [] t = "heal" -> Prog("on", t) [] OTHER -> Prog("intent", t)
         /\ Checked(t) = CASE t = "check" -> End [] t = "heal" -> Prog("on", t) [] OTHER -> Prog("keep", t)
         /\ Ended(t) = IF t = "attempt" THEN Prog("load", t) ELSE End
         /\ Migrated(t) = IF t = "reapply" THEN Prog("reload", t) ELSE Prog("load", t)
         /\ Removed(t) = IF t = "active" THEN Prog("rm_mode", t) ELSE End
BY ONLY ProgAt DEF Degraded, Verified, Checked, Ended, Migrated, Removed

\* A program made of a call.
LEMMA DoFields ==
  ASSUME NEW v, NEW a, NEW e, NEW n
  PROVE  Do(v, a, e, n).call = <<v, a>> /\ Do(v, a, e, n).err = e /\ Do(v, a, e, n).next = n
BY DEF Do

\* The call of a program is the one of its label, and only `end' has none.
LEMMA ProgCall ==
  ASSUME NEW at, NEW t, Point(at, t)
  PROVE  Prog(at, t).call = Call(at, t)
<1> DEFINE Goal(a) == Prog(a, t).call = Call(a, t)
<1>1. ASSUME NEW a \in Moving PROVE Goal(a)
  <2>1. Goal("write")
    BY ONLY MovingProg DEF Call, Do
  <2>2. Goal("list")
    BY ONLY MovingProg DEF Call, Do
  <2>3. Goal("unlink")
    BY ONLY MovingProg DEF Call, Do
  <2>4. Goal("adopt")
    BY ONLY MovingProg DEF Call, Do
  <2>5. Goal("drop")
    BY ONLY MovingProg DEF Call, Do
  <2> QED BY ONLY <1>1, <2>1, <2>2, <2>3, <2>4, <2>5 DEF Moving
<1>2. ASSUME NEW a \in Loading PROVE Goal(a)
  <2>1. Goal("load")
    BY ONLY LoadingProg DEF Call, Do
  <2> QED BY ONLY <1>2, <2>1 DEF Loading
<1>3. ASSUME NEW a \in Reloading PROVE Goal(a)
  <2>1. Goal("reload")
    BY ONLY ReloadingProg DEF Call, Do
  <2> QED BY ONLY <1>3, <2>1 DEF Reloading
<1>4. ASSUME NEW a \in Importing PROVE Goal(a)
  <2>1. Goal("new_write")
    BY ONLY ImportingProg DEF Call, Do
  <2>2. Goal("new_list")
    BY ONLY ImportingProg DEF Call, Do
  <2>3. Goal("new_unlink")
    BY ONLY ImportingProg DEF Call, Do
  <2>4. Goal("imported")
    BY ONLY ImportingProg DEF Call, Do
  <2> QED BY ONLY <1>4, <2>1, <2>2, <2>3, <2>4 DEF Importing
<1>5. ASSUME NEW a \in Isolated PROVE Goal(a)
  <2>1. Goal("ask_isolate")
    BY ONLY IsolatedProg DEF Call, Do
  <2>2. Goal("isolate")
    BY ONLY IsolatedProg DEF Call, Do
  <2>3. Goal("iso_runtime")
    BY ONLY IsolatedProg DEF Call, Do
  <2>4. Goal("iso_probe")
    BY ONLY IsolatedProg DEF Call, Do
  <2>5. Goal("iso_note")
    BY ONLY IsolatedProg DEF Call, Do
  <2>6. Goal("iso_fail")
    BY ONLY IsolatedProg DEF Call, Do
  <2>7. Goal("iso_end")
    BY ONLY IsolatedProg DEF Call, Do
  <2> QED BY ONLY <1>5, <2>1, <2>2, <2>3, <2>4, <2>5, <2>6, <2>7 DEF Isolated
<1>6. ASSUME NEW a \in Verifying PROVE Goal(a)
  <2>1. Goal("ask_require")
    BY ONLY VerifyingProg DEF Call, Do
  <2>2. Goal("require")
    BY ONLY VerifyingProg DEF Call, Do
  <2>3. Goal("ifup")
    BY ONLY VerifyingProg DEF Call, Do
  <2>4. Goal("runtime")
    BY ONLY VerifyingProg DEF Call, Do
  <2>5. Goal("probe")
    BY ONLY VerifyingProg DEF Call, Do
  <2>6. Goal("note")
    BY ONLY VerifyingProg DEF Call, Do
  <2> QED BY ONLY <1>6, <2>1, <2>2, <2>3, <2>4, <2>5, <2>6 DEF Verifying
<1>7. ASSUME NEW a \in Configuring PROVE Goal(a)
  <2>1. Goal("ask_down")
    BY ONLY ConfiguringProg DEF Call, Do
  <2>2. Goal("down")
    BY ONLY ConfiguringProg DEF Call, Do
  <2>3. Goal("unconfigure")
    BY ONLY ConfiguringProg DEF Call, Do
  <2>4. Goal("ask_configure")
    BY ONLY ConfiguringProg DEF Call, Do
  <2>5. Goal("configure")
    BY ONLY ConfiguringProg DEF Call, Do
  <2> QED BY ONLY <1>7, <2>1, <2>2, <2>3, <2>4, <2>5 DEF Configuring
<1>8. ASSUME NEW a \in Configured PROVE Goal(a)
  <2>1. Goal("prepared")
    BY ONLY ConfiguredProg DEF Call, Do
  <2>2. Goal("ask_ifup")
    BY ONLY ConfiguredProg DEF Call, Do
  <2>3. Goal("quick_ifup")
    BY ONLY ConfiguredProg DEF Call, Do
  <2>4. Goal("quick_runtime")
    BY ONLY ConfiguredProg DEF Call, Do
  <2> QED BY ONLY <1>8, <2>1, <2>2, <2>3, <2>4 DEF Configured
<1>9. ASSUME NEW a \in Starting PROVE Goal(a)
  <2>1. Goal("ready_ifup")
    BY ONLY StartingProg DEF Call, Do
  <2>2. Goal("ready_runtime")
    BY ONLY StartingProg DEF Call, Do
  <2>3. Goal("intent")
    BY ONLY StartingProg DEF Call, Do
  <2> QED BY ONLY <1>9, <2>1, <2>2, <2>3 DEF Starting
<1>10. ASSUME NEW a \in Switching PROVE Goal(a)
  <2>1. Goal("select")
    BY ONLY SwitchingProg DEF Call, Do
  <2>2. Goal("egress")
    BY ONLY SwitchingProg DEF Call, Do
  <2>3. Goal("connected")
    BY ONLY SwitchingProg DEF Call, Do
  <2>4. Goal("undo")
    BY ONLY SwitchingProg DEF Call, Do
  <2>5. Goal("back")
    BY ONLY SwitchingProg DEF Call, Do
  <2> QED BY ONLY <1>10, <2>1, <2>2, <2>3, <2>4, <2>5 DEF Switching
<1>11. ASSUME NEW a \in Recording PROVE Goal(a)
  <2>1. Goal("mode")
    BY ONLY RecordingProg DEF Call, Do
  <2> QED BY ONLY <1>11, <2>1 DEF Recording
<1>12. ASSUME NEW a \in Keeping PROVE Goal(a)
  <2>1. Goal("keep")
    BY ONLY KeepingProg DEF Call, Do
  <2> QED BY ONLY <1>12, <2>1 DEF Keeping
<1>13. ASSUME NEW a \in Ending PROVE Goal(a)
  <2>1. Goal("end_select")
    BY ONLY EndingProg DEF Call, Do
  <2>2. Goal("end_down")
    BY ONLY EndingProg DEF Call, Do
  <2>3. Goal("end_save")
    BY ONLY EndingProg DEF Call, Do
  <2>4. Goal("end_mode")
    BY ONLY EndingProg DEF Call, Do
  <2> QED BY ONLY <1>13, <2>1, <2>2, <2>3, <2>4 DEF Ending
<1>14. ASSUME NEW a \in Lowering PROVE Goal(a)
  <2>1. Goal("only_down")
    BY ONLY LoweringProg DEF Call, Do
  <2> QED BY ONLY <1>14, <2>1 DEF Lowering
<1>15. ASSUME NEW a \in Returning PROVE Goal(a)
  <2>1. Goal("ret_profile")
    BY ONLY ReturningProg DEF Call, Do
  <2>2. Goal("ret_down")
    BY ONLY ReturningProg DEF Call, Do
  <2>3. Goal("ret_unconfigure")
    BY ONLY ReturningProg DEF Call, Do
  <2>4. Goal("ret_configure")
    BY ONLY ReturningProg DEF Call, Do
  <2> QED BY ONLY <1>15, <2>1, <2>2, <2>3, <2>4 DEF Returning
<1>16. ASSUME NEW a \in Returned PROVE Goal(a)
  <2>1. Goal("ret_ifup")
    BY ONLY ReturnedProg DEF Call, Do
  <2>2. Goal("ret_runtime")
    BY ONLY ReturnedProg DEF Call, Do
  <2>3. Goal("ret_select")
    BY ONLY ReturnedProg DEF Call, Do
  <2>4. Goal("ret_egress")
    BY ONLY ReturnedProg DEF Call, Do
  <2>5. Goal("ret_save")
    BY ONLY ReturnedProg DEF Call, Do
  <2> QED BY ONLY <1>16, <2>1, <2>2, <2>3, <2>4, <2>5 DEF Returned
<1>17. ASSUME NEW a \in Settled PROVE Goal(a)
  <2>1. Goal("ret_mode")
    BY ONLY SettledProg DEF Call, Do
  <2> QED BY ONLY <1>17, <2>1 DEF Settled
<1>18. ASSUME NEW a \in Erasing PROVE Goal(a)
  <2>1. Goal("rm_down")
    BY ONLY ErasingProg DEF Call, Do
  <2>2. Goal("rm_unconfigure")
    BY ONLY ErasingProg DEF Call, Do
  <2>3. Goal("rm_unlink")
    BY ONLY ErasingProg DEF Call, Do
  <2>4. Goal("rm_unlist")
    BY ONLY ErasingProg DEF Call, Do
  <2>5. Goal("rm_save")
    BY ONLY ErasingProg DEF Call, Do
  <2> QED BY ONLY <1>18, <2>1, <2>2, <2>3, <2>4, <2>5 DEF Erasing
<1>19. ASSUME NEW a \in Ceasing PROVE Goal(a)
  <2>1. Goal("rm_select")
    BY ONLY CeasingProg DEF Call, Do
  <2>2. Goal("rm_mode")
    BY ONLY CeasingProg DEF Call, Do
  <2> QED BY ONLY <1>19, <2>1, <2>2 DEF Ceasing
<1>20. ASSUME NEW a \in Opening PROVE Goal(a)
  <2>1. Goal("open_select")
    BY ONLY OpeningProg DEF Call, Do
  <2>2. Goal("open_save")
    BY ONLY OpeningProg DEF Call, Do
  <2> QED BY ONLY <1>20, <2>1, <2>2 DEF Opening
<1>21. ASSUME NEW a \in Restoring PROVE Goal(a)
  <2>1. Goal("fail_stop")
    BY ONLY RestoringProg DEF Call, Do
  <2>2. Goal("fail_save")
    BY ONLY RestoringProg DEF Call, Do
  <2>3. Goal("direct_select")
    BY ONLY RestoringProg DEF Call, Do
  <2>4. Goal("direct_save")
    BY ONLY RestoringProg DEF Call, Do
  <2>5. Goal("stop")
    BY ONLY RestoringProg DEF Call, Do
  <2>6. Goal("start")
    BY ONLY RestoringProg DEF Call, Do
  <2> QED BY ONLY <1>21, <2>1, <2>2, <2>3, <2>4, <2>5, <2>6 DEF Restoring
<1>22. ASSUME NEW a \in Healing PROVE Goal(a)
  <2>1. Goal("on")
    BY ONLY HealingProg DEF Call, Do
  <2>2. Goal("off")
    BY ONLY HealingProg DEF Call, Do
  <2> QED BY ONLY <1>22, <2>1, <2>2 DEF Healing
<1>23. Goal("end")
  BY ONLY ProgAt DEF Call, End
<1> QED BY ONLY Point(at, t), <1>1, <1>2, <1>3, <1>4, <1>5, <1>6, <1>7, <1>8, <1>9, <1>10, <1>11, <1>12, <1>13, <1>14,
        <1>15, <1>16, <1>17, <1>18, <1>19, <1>20, <1>21, <1>22, <1>23 DEF Point

\* An operation that fails can go to its handler, and can end.
LEMMA EntryPoint ==
  ASSUME NEW t \in Tracks
  PROVE  Point(Entry(t), t) /\ Point("end", t)
<1>1. Entry(t) \in {"end", "off", "open_select", "ret_profile"}
  BY ONLY DEF Entry
<1>2. (Entry(t) = "off" => t = "heal") /\ (Entry(t) = "open_select" => t = "restore") /\ (Entry(t) = "ret_profile"
            => t = "attempt")
  BY ONLY DEF Entry
<1> QED BY ONLY <1>1, <1>2, t \in Tracks, Passing DEF Healing, Opening, Returning

\* A failing call leads to the program of another label.
LEMMA ProgErr ==
  ASSUME NEW at, NEW t, Point(at, t), at # "end"
  PROVE  Prog(at, t).err = Prog(Err(at, t), t) /\ Point(Err(at, t), t)
<1> DEFINE Goal(a) == Prog(a, t).err = Prog(Err(a, t), t) /\ Point(Err(a, t), t)
<1>1. ASSUME NEW a \in Moving, t \in Migrations PROVE Goal(a)
  <2>0. t \in Tracks
    BY ONLY <1>1 DEF Tracks, Migrations, Checks, Connects
  <2>1. Goal("write")
    <3>1. Err("write", t) = Entry(t)
      BY DEF Err
    <3> QED BY ONLY <3>1, <2>0, EntryPoint, MovingProg, DoFields, ProgAt, HandlerProg
  <2>2. Goal("list")
    <3>1. Err("list", t) = "unlink"
      BY DEF Err
    <3> QED BY ONLY <3>1, <1>1, Passing, MovingProg, DoFields, ProgAt DEF Checks, Connects, Migrations, Moving, Tracks
  <2>3. Goal("unlink")
    <3>1. Err("unlink", t) = Entry(t)
      BY DEF Err
    <3> QED BY ONLY <3>1, <2>0, EntryPoint, MovingProg, DoFields, ProgAt, HandlerProg
  <2>4. Goal("adopt")
    <3>1. Err("adopt", t) = Entry(t)
      BY DEF Err
    <3> QED BY ONLY <3>1, <2>0, EntryPoint, MovingProg, DoFields, ProgAt, HandlerProg
  <2>5. Goal("drop")
    <3>1. Err("drop", t) = Entry(t)
      BY DEF Err
    <3> QED BY ONLY <3>1, <2>0, EntryPoint, MovingProg, DoFields, ProgAt, HandlerProg
  <2> QED BY ONLY <1>1, <2>1, <2>2, <2>3, <2>4, <2>5 DEF Moving
<1>2. ASSUME NEW a \in Loading, t \in Migrations \cup {"attempt"} PROVE Goal(a)
  <2>0. t \in Tracks
    BY ONLY <1>2 DEF Tracks, Migrations, Checks, Connects
  <2>1. Goal("load")
    <3>1. Err("load", t) = Entry(t)
      BY DEF Err
    <3> QED BY ONLY <3>1, <2>0, EntryPoint, LoadingProg, DoFields, ProgAt, HandlerProg
  <2> QED BY ONLY <1>2, <2>1 DEF Loading
<1>3. ASSUME NEW a \in Reloading, t \in {"reapply"} PROVE Goal(a)
  <2>0. t \in Tracks
    BY ONLY <1>3 DEF Tracks, Migrations, Checks, Connects
  <2>1. Goal("reload")
    <3>1. Err("reload", t) = "end"
      BY DEF Err
    <3> QED BY ONLY <3>1, <2>0, EntryPoint, ReloadingProg, DoFields, ProgAt
  <2> QED BY ONLY <1>3, <2>1 DEF Reloading
<1>4. ASSUME NEW a \in Importing, t \in {"import"} PROVE Goal(a)
  <2>0. t \in Tracks
    BY ONLY <1>4 DEF Tracks, Migrations, Checks, Connects
  <2>1. Goal("new_write")
    <3>1. Err("new_write", t) = "end"
      BY DEF Err
    <3> QED BY ONLY <3>1, <2>0, EntryPoint, ImportingProg, DoFields, ProgAt
  <2>2. Goal("new_list")
    <3>1. Err("new_list", t) = "new_unlink"
      BY DEF Err
    <3> QED BY ONLY <3>1, <1>4, Passing, ImportingProg, DoFields, ProgAt DEF Checks, Connects, Importing, Migrations, Tracks
  <2>3. Goal("new_unlink")
    <3>1. Err("new_unlink", t) = "end"
      BY DEF Err
    <3> QED BY ONLY <3>1, <2>0, EntryPoint, ImportingProg, DoFields, ProgAt
  <2>4. Goal("imported")
    <3>1. Err("imported", t) = "end"
      BY DEF Err
    <3> QED BY ONLY <3>1, <2>0, EntryPoint, ImportingProg, DoFields, ProgAt
  <2> QED BY ONLY <1>4, <2>1, <2>2, <2>3, <2>4 DEF Importing
<1>5. ASSUME NEW a \in Isolated, t \in Checks \cup {"connect"} PROVE Goal(a)
  <2>0. t \in Tracks
    BY ONLY <1>5 DEF Tracks, Migrations, Checks, Connects
  <2>1. Goal("ask_isolate")
    <3>1. Err("ask_isolate", t) = Entry(t)
      BY DEF Err
    <3> QED BY ONLY <3>1, <2>0, EntryPoint, IsolatedProg, DoFields, ProgAt, HandlerProg
  <2>2. Goal("isolate")
    <3>1. Err("isolate", t) = Entry(t)
      BY DEF Err
    <3> QED BY ONLY <3>1, <2>0, EntryPoint, IsolatedProg, DoFields, ProgAt, HandlerProg
  <2>3. Goal("iso_runtime")
    <3>1. Err("iso_runtime", t) = "iso_fail"
      BY DEF Err
    <3> QED BY ONLY <3>1, <1>5, Passing, IsolatedProg, DoFields, ProgAt DEF Checks, Connects, Isolated, Migrations, Tracks
  <2>4. Goal("iso_probe")
    <3>1. Err("iso_probe", t) = "iso_fail"
      BY DEF Err
    <3> QED BY ONLY <3>1, <1>5, Passing, IsolatedProg, DoFields, ProgAt DEF Checks, Connects, Isolated, Migrations, Tracks
  <2>5. Goal("iso_note")
    <3>1. Err("iso_note", t) = "iso_fail"
      BY DEF Err
    <3> QED BY ONLY <3>1, <1>5, Passing, IsolatedProg, DoFields, ProgAt DEF Checks, Connects, Isolated, Migrations, Tracks
  <2>6. Goal("iso_fail")
    <3>1. Err("iso_fail", t) = Entry(t)
      BY DEF Err
    <3> QED BY ONLY <3>1, <2>0, EntryPoint, IsolatedProg, DoFields, ProgAt, HandlerProg
  <2>7. Goal("iso_end")
    <3>1. Err("iso_end", t) = Entry(t)
      BY DEF Err
    <3> QED BY ONLY <3>1, <2>0, EntryPoint, IsolatedProg, DoFields, ProgAt, HandlerProg
  <2> QED BY ONLY <1>5, <2>1, <2>2, <2>3, <2>4, <2>5, <2>6, <2>7 DEF Isolated
<1>6. ASSUME NEW a \in Verifying, t \in Checks \cup Connects PROVE Goal(a)
  <2>0. t \in Tracks
    BY ONLY <1>6 DEF Tracks, Migrations, Checks, Connects
  <2>1. Goal("ask_require")
    <3>1. Err("ask_require", t) = Entry(t)
      BY DEF Err
    <3> QED BY ONLY <3>1, <2>0, EntryPoint, VerifyingProg, DoFields, ProgAt, HandlerProg
  <2>2. Goal("require")
    <3>1. Err("require", t) = Entry(t)
      BY DEF Err
    <3> QED BY ONLY <3>1, <2>0, EntryPoint, VerifyingProg, DoFields, ProgAt, HandlerProg
  <2>3. Goal("ifup")
    <3>1. Err("ifup", t) = Entry(t)
      BY DEF Err
    <3> QED BY ONLY <3>1, <2>0, EntryPoint, VerifyingProg, DoFields, ProgAt, HandlerProg
  <2>4. Goal("runtime")
    <3>1. Err("runtime", t) = Entry(t)
      BY DEF Err
    <3> QED BY ONLY <3>1, <2>0, EntryPoint, VerifyingProg, DoFields, ProgAt, HandlerProg
  <2>5. Goal("probe")
    <3>1. Err("probe", t) = Entry(t)
      BY DEF Err
    <3> QED BY ONLY <3>1, <2>0, EntryPoint, VerifyingProg, DoFields, ProgAt, HandlerProg
  <2>6. Goal("note")
    <3>1. Err("note", t) = Entry(t)
      BY DEF Err
    <3> QED BY ONLY <3>1, <2>0, EntryPoint, VerifyingProg, DoFields, ProgAt, HandlerProg
  <2> QED BY ONLY <1>6, <2>1, <2>2, <2>3, <2>4, <2>5, <2>6 DEF Verifying
<1>7. ASSUME NEW a \in Configuring, t \in {"connect", "attempt"} PROVE Goal(a)
  <2>0. t \in Tracks
    BY ONLY <1>7 DEF Tracks, Migrations, Checks, Connects
  <2>1. Goal("ask_down")
    <3>1. Err("ask_down", t) = Entry(t)
      BY DEF Err
    <3> QED BY ONLY <3>1, <2>0, EntryPoint, ConfiguringProg, DoFields, ProgAt, HandlerProg
  <2>2. Goal("down")
    <3>1. Err("down", t) = Entry(t)
      BY DEF Err
    <3> QED BY ONLY <3>1, <2>0, EntryPoint, ConfiguringProg, DoFields, ProgAt, HandlerProg
  <2>3. Goal("unconfigure")
    <3>1. Err("unconfigure", t) = Entry(t)
      BY DEF Err
    <3> QED BY ONLY <3>1, <2>0, EntryPoint, ConfiguringProg, DoFields, ProgAt, HandlerProg
  <2>4. Goal("ask_configure")
    <3>1. Err("ask_configure", t) = Entry(t)
      BY DEF Err
    <3> QED BY ONLY <3>1, <2>0, EntryPoint, ConfiguringProg, DoFields, ProgAt, HandlerProg
  <2>5. Goal("configure")
    <3>1. Err("configure", t) = Entry(t)
      BY DEF Err
    <3> QED BY ONLY <3>1, <2>0, EntryPoint, ConfiguringProg, DoFields, ProgAt, HandlerProg
  <2> QED BY ONLY <1>7, <2>1, <2>2, <2>3, <2>4, <2>5 DEF Configuring
<1>8. ASSUME NEW a \in Configured, t \in {"connect", "attempt"} PROVE Goal(a)
  <2>0. t \in Tracks
    BY ONLY <1>8 DEF Tracks, Migrations, Checks, Connects
  <2>1. Goal("prepared")
    <3>1. Err("prepared", t) = Entry(t)
      BY DEF Err
    <3> QED BY ONLY <3>1, <2>0, EntryPoint, ConfiguredProg, DoFields, ProgAt, HandlerProg
  <2>2. Goal("ask_ifup")
    <3>1. Err("ask_ifup", t) = Entry(t)
      BY DEF Err
    <3> QED BY ONLY <3>1, <2>0, EntryPoint, ConfiguredProg, DoFields, ProgAt, HandlerProg
  <2>3. Goal("quick_ifup")
    <3>1. Err("quick_ifup", t) = Entry(t)
      BY DEF Err
    <3> QED BY ONLY <3>1, <2>0, EntryPoint, ConfiguredProg, DoFields, ProgAt, HandlerProg
  <2>4. Goal("quick_runtime")
    <3>1. Err("quick_runtime", t) = "ask_ifup"
      BY DEF Err
    <3> QED BY ONLY <3>1, <1>8, Passing, ConfiguredProg, DoFields, ProgAt DEF Checks, Configured, Connects, Migrations,
            Tracks
  <2> QED BY ONLY <1>8, <2>1, <2>2, <2>3, <2>4 DEF Configured
<1>9. ASSUME NEW a \in Starting, t \in Connects PROVE Goal(a)
  <2>0. t \in Tracks
    BY ONLY <1>9 DEF Tracks, Migrations, Checks, Connects
  <2>1. Goal("ready_ifup")
    <3>1. Err("ready_ifup", t) = Entry(t)
      BY DEF Err
    <3> QED BY ONLY <3>1, <2>0, EntryPoint, StartingProg, DoFields, ProgAt, HandlerProg
  <2>2. Goal("ready_runtime")
    <3>1. Err("ready_runtime", t) = "ask_require"
      BY DEF Err
    <3> QED BY ONLY <3>1, <1>9, Passing, StartingProg, DoFields, ProgAt DEF Checks, Connects, Migrations, Starting, Tracks,
            Verifying
  <2>3. Goal("intent")
    <3>1. Err("intent", t) = Entry(t)
      BY DEF Err
    <3> QED BY ONLY <3>1, <2>0, EntryPoint, StartingProg, DoFields, ProgAt, HandlerProg
  <2> QED BY ONLY <1>9, <2>1, <2>2, <2>3 DEF Starting
<1>10. ASSUME NEW a \in Switching, t \in Connects PROVE Goal(a)
  <2>0. t \in Tracks
    BY ONLY <1>10 DEF Tracks, Migrations, Checks, Connects
  <2>1. Goal("select")
    <3>1. Err("select", t) = "back"
      BY DEF Err
    <3> QED BY ONLY <3>1, <1>10, Passing, SwitchingProg, DoFields, ProgAt DEF Checks, Connects, Migrations, Switching,
            Tracks
  <2>2. Goal("egress")
    <3>1. Err("egress", t) = "undo"
      BY DEF Err
    <3> QED BY ONLY <3>1, <1>10, Passing, SwitchingProg, DoFields, ProgAt DEF Checks, Connects, Migrations, Switching,
            Tracks
  <2>3. Goal("connected")
    <3>1. Err("connected", t) = "undo"
      BY DEF Err
    <3> QED BY ONLY <3>1, <1>10, Passing, SwitchingProg, DoFields, ProgAt DEF Checks, Connects, Migrations, Switching,
            Tracks
  <2>4. Goal("undo")
    <3>1. Err("undo", t) = "back"
      BY DEF Err
    <3> QED BY ONLY <3>1, <1>10, Passing, SwitchingProg, DoFields, ProgAt DEF Checks, Connects, Migrations, Switching,
            Tracks
  <2>5. Goal("back")
    <3>1. Err("back", t) = Entry(t)
      BY DEF Err
    <3> QED BY ONLY <3>1, <2>0, EntryPoint, SwitchingProg, DoFields, ProgAt, HandlerProg
  <2> QED BY ONLY <1>10, <2>1, <2>2, <2>3, <2>4, <2>5 DEF Switching
<1>11. ASSUME NEW a \in Recording, t \in Connects PROVE Goal(a)
  <2>0. t \in Tracks
    BY ONLY <1>11 DEF Tracks, Migrations, Checks, Connects
  <2>1. Goal("mode")
    <3>1. Err("mode", t) = "end"
      BY DEF Err
    <3> QED BY ONLY <3>1, <2>0, EntryPoint, RecordingProg, DoFields, ProgAt
  <2> QED BY ONLY <1>11, <2>1 DEF Recording
<1>12. ASSUME NEW a \in Keeping, t \in {"connect"} PROVE Goal(a)
  <2>0. t \in Tracks
    BY ONLY <1>12 DEF Tracks, Migrations, Checks, Connects
  <2>1. Goal("keep")
    <3>1. Err("keep", t) = "end"
      BY DEF Err
    <3> QED BY ONLY <3>1, <2>0, EntryPoint, KeepingProg, DoFields, ProgAt
  <2> QED BY ONLY <1>12, <2>1 DEF Keeping
<1>13. ASSUME NEW a \in Ending, t \in {"disconnect", "attempt"} PROVE Goal(a)
  <2>0. t \in Tracks
    BY ONLY <1>13 DEF Tracks, Migrations, Checks, Connects
  <2>1. Goal("end_select")
    <3>1. Err("end_select", t) = Entry(t)
      BY DEF Err
    <3> QED BY ONLY <3>1, <2>0, EntryPoint, EndingProg, DoFields, ProgAt, HandlerProg
  <2>2. Goal("end_down")
    <3>1. Err("end_down", t) = Entry(t)
      BY DEF Err
    <3> QED BY ONLY <3>1, <2>0, EntryPoint, EndingProg, DoFields, ProgAt, HandlerProg
  <2>3. Goal("end_save")
    <3>1. Err("end_save", t) = Entry(t)
      BY DEF Err
    <3> QED BY ONLY <3>1, <2>0, EntryPoint, EndingProg, DoFields, ProgAt, HandlerProg
  <2>4. Goal("end_mode")
    <3>1. Err("end_mode", t) = Entry(t)
      BY DEF Err
    <3> QED BY ONLY <3>1, <2>0, EntryPoint, EndingProg, DoFields, ProgAt, HandlerProg
  <2> QED BY ONLY <1>13, <2>1, <2>2, <2>3, <2>4 DEF Ending
<1>14. ASSUME NEW a \in Lowering, t \in {"disconnect"} PROVE Goal(a)
  <2>0. t \in Tracks
    BY ONLY <1>14 DEF Tracks, Migrations, Checks, Connects
  <2>1. Goal("only_down")
    <3>1. Err("only_down", t) = "end"
      BY DEF Err
    <3> QED BY ONLY <3>1, <2>0, EntryPoint, LoweringProg, DoFields, ProgAt
  <2> QED BY ONLY <1>14, <2>1 DEF Lowering
<1>15. ASSUME NEW a \in Returning, t \in {"attempt"} PROVE Goal(a)
  <2>0. t \in Tracks
    BY ONLY <1>15 DEF Tracks, Migrations, Checks, Connects
  <2>1. Goal("ret_profile")
    <3>1. Err("ret_profile", t) = "end"
      BY DEF Err
    <3> QED BY ONLY <3>1, <2>0, EntryPoint, ReturningProg, DoFields, ProgAt
  <2>2. Goal("ret_down")
    <3>1. Err("ret_down", t) = "end"
      BY DEF Err
    <3> QED BY ONLY <3>1, <2>0, EntryPoint, ReturningProg, DoFields, ProgAt
  <2>3. Goal("ret_unconfigure")
    <3>1. Err("ret_unconfigure", t) = "end"
      BY DEF Err
    <3> QED BY ONLY <3>1, <2>0, EntryPoint, ReturningProg, DoFields, ProgAt
  <2>4. Goal("ret_configure")
    <3>1. Err("ret_configure", t) = "end"
      BY DEF Err
    <3> QED BY ONLY <3>1, <2>0, EntryPoint, ReturningProg, DoFields, ProgAt
  <2> QED BY ONLY <1>15, <2>1, <2>2, <2>3, <2>4 DEF Returning
<1>16. ASSUME NEW a \in Returned, t \in {"attempt"} PROVE Goal(a)
  <2>0. t \in Tracks
    BY ONLY <1>16 DEF Tracks, Migrations, Checks, Connects
  <2>1. Goal("ret_ifup")
    <3>1. Err("ret_ifup", t) = "end"
      BY DEF Err
    <3> QED BY ONLY <3>1, <2>0, EntryPoint, ReturnedProg, DoFields, ProgAt
  <2>2. Goal("ret_runtime")
    <3>1. Err("ret_runtime", t) = "end"
      BY DEF Err
    <3> QED BY ONLY <3>1, <2>0, EntryPoint, ReturnedProg, DoFields, ProgAt
  <2>3. Goal("ret_select")
    <3>1. Err("ret_select", t) = "end"
      BY DEF Err
    <3> QED BY ONLY <3>1, <2>0, EntryPoint, ReturnedProg, DoFields, ProgAt
  <2>4. Goal("ret_egress")
    <3>1. Err("ret_egress", t) = "end"
      BY DEF Err
    <3> QED BY ONLY <3>1, <2>0, EntryPoint, ReturnedProg, DoFields, ProgAt
  <2>5. Goal("ret_save")
    <3>1. Err("ret_save", t) = "end"
      BY DEF Err
    <3> QED BY ONLY <3>1, <2>0, EntryPoint, ReturnedProg, DoFields, ProgAt
  <2> QED BY ONLY <1>16, <2>1, <2>2, <2>3, <2>4, <2>5 DEF Returned
<1>17. ASSUME NEW a \in Settled, t \in {"attempt"} PROVE Goal(a)
  <2>0. t \in Tracks
    BY ONLY <1>17 DEF Tracks, Migrations, Checks, Connects
  <2>1. Goal("ret_mode")
    <3>1. Err("ret_mode", t) = "end"
      BY DEF Err
    <3> QED BY ONLY <3>1, <2>0, EntryPoint, SettledProg, DoFields, ProgAt
  <2> QED BY ONLY <1>17, <2>1 DEF Settled
<1>18. ASSUME NEW a \in Erasing, t \in {"remove", "active"} PROVE Goal(a)
  <2>0. t \in Tracks
    BY ONLY <1>18 DEF Tracks, Migrations, Checks, Connects
  <2>1. Goal("rm_down")
    <3>1. Err("rm_down", t) = "end"
      BY DEF Err
    <3> QED BY ONLY <3>1, <2>0, EntryPoint, ErasingProg, DoFields, ProgAt
  <2>2. Goal("rm_unconfigure")
    <3>1. Err("rm_unconfigure", t) = "end"
      BY DEF Err
    <3> QED BY ONLY <3>1, <2>0, EntryPoint, ErasingProg, DoFields, ProgAt
  <2>3. Goal("rm_unlink")
    <3>1. Err("rm_unlink", t) = "end"
      BY DEF Err
    <3> QED BY ONLY <3>1, <2>0, EntryPoint, ErasingProg, DoFields, ProgAt
  <2>4. Goal("rm_unlist")
    <3>1. Err("rm_unlist", t) = "end"
      BY DEF Err
    <3> QED BY ONLY <3>1, <2>0, EntryPoint, ErasingProg, DoFields, ProgAt
  <2>5. Goal("rm_save")
    <3>1. Err("rm_save", t) = "end"
      BY DEF Err
    <3> QED BY ONLY <3>1, <2>0, EntryPoint, ErasingProg, DoFields, ProgAt
  <2> QED BY ONLY <1>18, <2>1, <2>2, <2>3, <2>4, <2>5 DEF Erasing
<1>19. ASSUME NEW a \in Ceasing, t \in {"active"} PROVE Goal(a)
  <2>0. t \in Tracks
    BY ONLY <1>19 DEF Tracks, Migrations, Checks, Connects
  <2>1. Goal("rm_select")
    <3>1. Err("rm_select", t) = "end"
      BY DEF Err
    <3> QED BY ONLY <3>1, <2>0, EntryPoint, CeasingProg, DoFields, ProgAt
  <2>2. Goal("rm_mode")
    <3>1. Err("rm_mode", t) = "end"
      BY DEF Err
    <3> QED BY ONLY <3>1, <2>0, EntryPoint, CeasingProg, DoFields, ProgAt
  <2> QED BY ONLY <1>19, <2>1, <2>2 DEF Ceasing
<1>20. ASSUME NEW a \in Opening, t \in {"failopen", "restore"} PROVE Goal(a)
  <2>0. t \in Tracks
    BY ONLY <1>20 DEF Tracks, Migrations, Checks, Connects
  <2>1. Goal("open_select")
    <3>1. Err("open_select", t) = (IF t = "restore" THEN "fail_stop" ELSE "end")
      BY DEF Err
    <3> QED BY ONLY <3>1, <1>20, Passing, OpeningProg, DoFields, ProgAt, BranchProg DEF Checks, Connects, Migrations,
            Opening, Restoring, Tracks
  <2>2. Goal("open_save")
    <3>1. Err("open_save", t) = (IF t = "restore" THEN "fail_stop" ELSE "end")
      BY DEF Err
    <3> QED BY ONLY <3>1, <1>20, Passing, OpeningProg, DoFields, ProgAt, BranchProg DEF Checks, Connects, Migrations,
            Opening, Restoring, Tracks
  <2> QED BY ONLY <1>20, <2>1, <2>2 DEF Opening
<1>21. ASSUME NEW a \in Restoring, t \in {"restore"} PROVE Goal(a)
  <2>0. t \in Tracks
    BY ONLY <1>21 DEF Tracks, Migrations, Checks, Connects
  <2>1. Goal("fail_stop")
    <3>1. Err("fail_stop", t) = "end"
      BY DEF Err
    <3> QED BY ONLY <3>1, <2>0, EntryPoint, RestoringProg, DoFields, ProgAt
  <2>2. Goal("fail_save")
    <3>1. Err("fail_save", t) = "end"
      BY DEF Err
    <3> QED BY ONLY <3>1, <2>0, EntryPoint, RestoringProg, DoFields, ProgAt
  <2>3. Goal("direct_select")
    <3>1. Err("direct_select", t) = "end"
      BY DEF Err
    <3> QED BY ONLY <3>1, <2>0, EntryPoint, RestoringProg, DoFields, ProgAt
  <2>4. Goal("direct_save")
    <3>1. Err("direct_save", t) = "end"
      BY DEF Err
    <3> QED BY ONLY <3>1, <2>0, EntryPoint, RestoringProg, DoFields, ProgAt
  <2>5. Goal("stop")
    <3>1. Err("stop", t) = "end"
      BY DEF Err
    <3> QED BY ONLY <3>1, <2>0, EntryPoint, RestoringProg, DoFields, ProgAt
  <2>6. Goal("start")
    <3>1. Err("start", t) = "fail_stop"
      BY DEF Err
    <3> QED BY ONLY <3>1, <1>21, Passing, RestoringProg, DoFields, ProgAt DEF Checks, Connects, Migrations, Restoring,
            Tracks
  <2> QED BY ONLY <1>21, <2>1, <2>2, <2>3, <2>4, <2>5, <2>6 DEF Restoring
<1>22. ASSUME NEW a \in Healing, t \in {"heal"} PROVE Goal(a)
  <2>0. t \in Tracks
    BY ONLY <1>22 DEF Tracks, Migrations, Checks, Connects
  <2>1. Goal("on")
    <3>1. Err("on", t) = "end"
      BY DEF Err
    <3> QED BY ONLY <3>1, <2>0, EntryPoint, HealingProg, DoFields, ProgAt
  <2>2. Goal("off")
    <3>1. Err("off", t) = "end"
      BY DEF Err
    <3> QED BY ONLY <3>1, <2>0, EntryPoint, HealingProg, DoFields, ProgAt
  <2> QED BY ONLY <1>22, <2>1, <2>2 DEF Healing
<1> QED BY ONLY Point(at, t), at # "end", <1>1, <1>2, <1>3, <1>4, <1>5, <1>6, <1>7, <1>8, <1>9, <1>10, <1>11, <1>12, <1>13,
        <1>14, <1>15, <1>16, <1>17, <1>18, <1>19, <1>20, <1>21, <1>22 DEF Point

\* The labels of a call.
LEMMA CallAt ==
  ASSUME NEW at, NEW t
  PROVE  /\ Call(at, t) = <<"heal", "off">> => at = "off"
         /\ Call(at, t) = <<"heal", "on">> => at = "on"
         /\ Call(at, t) = <<"save", "failed">> => at = "fail_save"
         /\ Call(at, t) = <<"stop", "xray">> => at \in {"fail_stop", "stop"}
         /\ Call(at, t) = <<"save", "failopen">> => at = "open_save"
         /\ Call(at, t) = <<"select", "direct">> => at \in {"open_select", "end_select", "rm_select", "direct_select"}
         /\ Call(at, t) = <<"settings", "orig">> => at = "ret_mode"
         /\ Call(at, t) = <<"save", "orig">> => at = "ret_save"
         /\ Call(at, t) = <<"egress", "tag">> => at \in {"ret_egress", "egress"}
         /\ Call(at, t) = <<"select", "tag">> => at \in {"ret_select", "select"}
         /\ Call(at, t) = <<"runtime", "awg">> => at \in {"ret_runtime", "runtime", "ready_runtime", "quick_runtime"}
         /\ Call(at, t) = <<"ifup", "awg">> => at \in {"ret_ifup", "ifup", "ready_ifup", "quick_ifup"}
         /\ Call(at, t) = <<"configure", "orig">> => at = "ret_configure"
         /\ Call(at, t) = <<"unconfigure", "awg">> => at \in {"ret_unconfigure", "unconfigure", "rm_unconfigure"}
         /\ Call(at, t) = <<"down", "awg">> => at \in {"ret_down", "down", "end_down", "only_down", "rm_down"}
         /\ Call(at, t) = <<"profile", "orig">> => at = "ret_profile"
         /\ Call(at, t) = <<"settings", "job">> => at = "mode"
         /\ Call(at, t) = <<"save", "back">> => at = "back"
         /\ Call(at, t) = <<"select", "prev">> => at = "undo"
         /\ Call(at, t) = <<"save", "connected">> => at = "connected"
         /\ Call(at, t) = <<"save", "intent">> => at = "intent"
         /\ Call(at, t) = <<"save", "probe">> => at \in {"note", "iso_note"}
         /\ Call(at, t) = <<"probe", "awg">> => at = "probe"
         /\ Call(at, t) = <<"require", "up">> => at = "require"
         /\ Call(at, t) = <<"save", "prepared">> => at = "prepared"
         /\ Call(at, t) = <<"configure", "id">> => at = "configure"
         /\ Call(at, t) = <<"profile", "id">> => at \in {"ask_require", "ask_down", "ask_configure", "ask_ifup",
               "ask_isolate"}
         /\ Call(at, t) = <<"settings", "off">> => at \in {"end_mode", "rm_mode"}
         /\ Call(at, t) = <<"save", "disconnected">> => at = "end_save"
         /\ Call(at, t) = <<"keep", "orig">> => at = "keep"
         /\ Call(at, t) = <<"deisolate", "id">> => at \in {"iso_end", "iso_fail"}
         /\ Call(at, t) = <<"probe", "iso">> => at = "iso_probe"
         /\ Call(at, t) = <<"runtime", "iso">> => at = "iso_runtime"
         /\ Call(at, t) = <<"isolate", "id">> => at = "isolate"
         /\ Call(at, t) = <<"imported", "id">> => at = "imported"
         /\ Call(at, t) = <<"unlink", "id">> => at \in {"new_unlink", "rm_unlink"}
         /\ Call(at, t) = <<"list", "id">> => at = "new_list"
         /\ Call(at, t) = <<"write", "id">> => at = "new_write"
         /\ Call(at, t) = <<"reload", "xray">> => at = "reload"
         /\ Call(at, t) = <<"dropold", "legacy">> => at = "drop"
         /\ Call(at, t) = <<"save", "adopted">> => at = "adopt"
         /\ Call(at, t) = <<"unlink", "legacy">> => at = "unlink"
         /\ Call(at, t) = <<"list", "legacy">> => at = "list"
         /\ Call(at, t) = <<"write", "legacy">> => at = "write"
         /\ Call(at, t) = <<"save", "removed">> => at = "rm_save"
         /\ Call(at, t) = <<"unlist", "id">> => at = "rm_unlist"
         /\ Call(at, t) = <<"save", "direct">> => at = "direct_save"
         /\ Call(at, t) = <<"start", "node">> => at = "start"
<1>1. Call(at, t) = <<"heal", "off">> => at = "off"
  BY Zenon DEF Call, Loaded
<1>2. Call(at, t) = <<"heal", "on">> => at = "on"
  BY Zenon DEF Call, Loaded
<1>3. Call(at, t) = <<"save", "failed">> => at = "fail_save"
  BY Zenon DEF Call, Loaded
<1>4. Call(at, t) = <<"stop", "xray">> => at \in {"fail_stop", "stop"}
  BY Zenon DEF Call, Loaded
<1>5. Call(at, t) = <<"save", "failopen">> => at = "open_save"
  BY Zenon DEF Call, Loaded
<1>6. Call(at, t) = <<"select", "direct">> => at \in {"open_select", "end_select", "rm_select", "direct_select"}
  BY Zenon DEF Call, Loaded
<1>7. Call(at, t) = <<"settings", "orig">> => at = "ret_mode"
  BY Zenon DEF Call, Loaded
<1>8. Call(at, t) = <<"save", "orig">> => at = "ret_save"
  BY Zenon DEF Call, Loaded
<1>9. Call(at, t) = <<"egress", "tag">> => at \in {"ret_egress", "egress"}
  BY Zenon DEF Call, Loaded
<1>10. Call(at, t) = <<"select", "tag">> => at \in {"ret_select", "select"}
  BY Zenon DEF Call, Loaded
<1>11. Call(at, t) = <<"runtime", "awg">> => at \in {"ret_runtime", "runtime", "ready_runtime", "quick_runtime"}
  BY Zenon DEF Call, Loaded
<1>12. Call(at, t) = <<"ifup", "awg">> => at \in {"ret_ifup", "ifup", "ready_ifup", "quick_ifup"}
  BY Zenon DEF Call, Loaded
<1>13. Call(at, t) = <<"configure", "orig">> => at = "ret_configure"
  BY Zenon DEF Call, Loaded
<1>14. Call(at, t) = <<"unconfigure", "awg">> => at \in {"ret_unconfigure", "unconfigure", "rm_unconfigure"}
  BY Zenon DEF Call, Loaded
<1>15. Call(at, t) = <<"down", "awg">> => at \in {"ret_down", "down", "end_down", "only_down", "rm_down"}
  BY Zenon DEF Call, Loaded
<1>16. Call(at, t) = <<"profile", "orig">> => at = "ret_profile"
  BY Zenon DEF Call, Loaded
<1>17. Call(at, t) = <<"settings", "job">> => at = "mode"
  BY Zenon DEF Call, Loaded
<1>18. Call(at, t) = <<"save", "back">> => at = "back"
  BY Zenon DEF Call, Loaded
<1>19. Call(at, t) = <<"select", "prev">> => at = "undo"
  BY Zenon DEF Call, Loaded
<1>20. Call(at, t) = <<"save", "connected">> => at = "connected"
  BY Zenon DEF Call, Loaded
<1>21. Call(at, t) = <<"save", "intent">> => at = "intent"
  BY Zenon DEF Call, Loaded
<1>22. Call(at, t) = <<"save", "probe">> => at \in {"note", "iso_note"}
  BY Zenon DEF Call, Loaded
<1>23. Call(at, t) = <<"probe", "awg">> => at = "probe"
  BY Zenon DEF Call, Loaded
<1>24. Call(at, t) = <<"require", "up">> => at = "require"
  BY Zenon DEF Call, Loaded
<1>25. Call(at, t) = <<"save", "prepared">> => at = "prepared"
  BY Zenon DEF Call, Loaded
<1>26. Call(at, t) = <<"configure", "id">> => at = "configure"
  BY Zenon DEF Call, Loaded
<1>27. Call(at, t) = <<"profile", "id">> => at \in {"ask_require", "ask_down", "ask_configure", "ask_ifup", "ask_isolate"}
  BY Zenon DEF Call, Loaded
<1>28. Call(at, t) = <<"settings", "off">> => at \in {"end_mode", "rm_mode"}
  BY Zenon DEF Call, Loaded
<1>29. Call(at, t) = <<"save", "disconnected">> => at = "end_save"
  BY Zenon DEF Call, Loaded
<1>30. Call(at, t) = <<"keep", "orig">> => at = "keep"
  BY Zenon DEF Call, Loaded
<1>31. Call(at, t) = <<"deisolate", "id">> => at \in {"iso_end", "iso_fail"}
  BY Zenon DEF Call, Loaded
<1>32. Call(at, t) = <<"probe", "iso">> => at = "iso_probe"
  BY Zenon DEF Call, Loaded
<1>33. Call(at, t) = <<"runtime", "iso">> => at = "iso_runtime"
  BY Zenon DEF Call, Loaded
<1>34. Call(at, t) = <<"isolate", "id">> => at = "isolate"
  BY Zenon DEF Call, Loaded
<1>35. Call(at, t) = <<"imported", "id">> => at = "imported"
  BY Zenon DEF Call, Loaded
<1>36. Call(at, t) = <<"unlink", "id">> => at \in {"new_unlink", "rm_unlink"}
  BY Zenon DEF Call, Loaded
<1>37. Call(at, t) = <<"list", "id">> => at = "new_list"
  BY Zenon DEF Call, Loaded
<1>38. Call(at, t) = <<"write", "id">> => at = "new_write"
  BY Zenon DEF Call, Loaded
<1>39. Call(at, t) = <<"reload", "xray">> => at = "reload"
  BY Zenon DEF Call, Loaded
<1>40. Call(at, t) = <<"dropold", "legacy">> => at = "drop"
  BY Zenon DEF Call, Loaded
<1>41. Call(at, t) = <<"save", "adopted">> => at = "adopt"
  BY Zenon DEF Call, Loaded
<1>42. Call(at, t) = <<"unlink", "legacy">> => at = "unlink"
  BY Zenon DEF Call, Loaded
<1>43. Call(at, t) = <<"list", "legacy">> => at = "list"
  BY Zenon DEF Call, Loaded
<1>44. Call(at, t) = <<"write", "legacy">> => at = "write"
  BY Zenon DEF Call, Loaded
<1>45. Call(at, t) = <<"save", "removed">> => at = "rm_save"
  BY Zenon DEF Call, Loaded
<1>46. Call(at, t) = <<"unlist", "id">> => at = "rm_unlist"
  BY Zenon DEF Call, Loaded
<1>47. Call(at, t) = <<"save", "direct">> => at = "direct_save"
  BY Zenon DEF Call, Loaded
<1>48. Call(at, t) = <<"start", "node">> => at = "start"
  BY Zenon DEF Call, Loaded
<1> QED BY ONLY <1>1, <1>2, <1>3, <1>4, <1>5, <1>6, <1>7, <1>8, <1>9, <1>10, <1>11, <1>12, <1>13, <1>14, <1>15, <1>16,
        <1>17, <1>18, <1>19, <1>20, <1>21, <1>22, <1>23, <1>24, <1>25, <1>26, <1>27, <1>28, <1>29, <1>30, <1>31, <1>32,
        <1>33, <1>34, <1>35, <1>36, <1>37, <1>38, <1>39, <1>40, <1>41, <1>42, <1>43, <1>44, <1>45, <1>46, <1>47, <1>48

-------------------------------------------------------------------------------
(* The invariant. *)

\* The parts of a connect that raises the interface, and all of it up to its record.
Raising == Verifying \cup Configured \cup Starting
Acting == Configuring \cup Raising \cup Switching
Removing == Erasing \cup Ceasing

\* A state whose route, kind and connection agree.
Sane(s) ==
    /\ s.kind = "xray" => s.tag \notin Addresses
    /\ s.kind = "none" => ~s.conn
    /\ s.kind = "awg" /\ s.conn => s.tag \in Addresses

\* The job of the operation, and what its steps so far have set.
Frame(at, t) ==
    /\ at # "end" => /\ job.by = By(t) /\ job.base \in States /\ Sane(job.base)
                     /\ job.orig # None <=> t = "attempt"
                     /\ t = "heal" => heal \in {1, 2}
    /\ Sane(st)
    /\ t = "attempt" /\ at # "end" =>
          job.orig \in States /\ job.orig.kind = "awg" /\ job.orig.conn /\ job.orig.active \in Profile
    /\ at \in Acting \cup Isolated \cup Importing \cup Removing \cup Keeping \/ (at # "end" /\ t \in {"attempt", "import"})
          => job.id \in Profile
    /\ net.up => net.cfg # None
    /\ at \in {"unconfigure", "rm_unconfigure", "ret_unconfigure"} => ~net.up
    /\ at \in {"ask_ifup", "prepared", "ifup", "runtime", "ready_ifup", "ready_runtime", "quick_ifup", "quick_runtime",
               "ret_ifup", "ret_runtime"} => net.cfg # None
    /\ at \in {"probe", "note", "intent", "ret_select", "ret_egress", "ret_save"} \cup Switching => job.tag \in Addresses
    /\ at \in Switching => /\ st = [job.base EXCEPT !.rec = TRUE, !.busy = TRUE]
                           /\ job.prev = IF job.base.tag = "none" THEN "direct" ELSE job.base.tag

\* While the old layout is there, its profile is the only one.
OldLayout(at, t) ==
    /\ Connected /\ st.active = None => legacy # None
    /\ at = "drop" => (st.kind = "awg" => st.active # None)
    /\ legacy # None => /\ index \subseteq {legacy}
                        /\ {st.active, st.prepared, net.cfg} \subseteq {None, legacy}
                        /\ at # "end" => {job.base.active, job.base.prepared} \subseteq {None, legacy}
    /\ at \in Moving => legacy # None
    /\ at \in Loading \cup Reloading \cup Keeping \cup Acting \cup Isolated \cup Importing \cup Removing
          \/ (at # "end" /\ t = "attempt") => legacy = None \/ (t = "connect" /\ job.id = legacy)

\* Which connection the state names, for an operation that chose its way by it.
Choice(at, t) ==
    /\ t \in {"reapply", "restore"} /\ at \in Moving \cup Loading \cup Reloading \cup Acting =>
          Connected /\ job.id \in Profile /\ (st.active = job.id \/ (st.active = None /\ legacy = job.id))
    /\ t = "connect" /\ at \in Acting => ~OtherActive(job.id)
    /\ t = "connect" /\ at \in Isolated \cup Keeping => OtherActive(job.id)
    /\ t = "remove" /\ at \in Erasing => ~(st.kind = "awg" /\ st.active = job.id)
    /\ t = "attempt" /\ at \in Acting \cup Loading \cup {"end_mode"} => ~Connected
    /\ t = "attempt" /\ at \notin Recording \cup {"end"} /\ Connected => st.active = job.orig.active

\* The interface is the one of the profile that is connected, and of the one that is
\* recorded as prepared.
Lost == odd \cap {"cut", "unrestored"} # {}
NamedBy(s) == s.prepared # None => net.cfg \in {None, s.prepared}
Named(at, t) ==
    Lost \/ (/\ Connected /\ st.active # None => net.cfg \in {None, st.active}
             /\ at \notin Returned \cup {"prepared"} => NamedBy(st)
             /\ at \in Returned \cup Settled => net.cfg = job.orig.active
             /\ at = "prepared" => net.cfg = job.id
             /\ t \in Connects /\ at \in Raising \cup {"select", "egress", "connected"} => net.cfg \in {None, job.id}
             /\ t \in {"failopen", "restore"} /\ at # "end" => NamedBy(job.base))

\* Traffic in a tunnel is in the state, or in the one the operation returns to.
Excused == odd \cap {"cut", "unrestored", "overtaken"} # {}
Known(s) == Recorded(s, xr) \/ (~s.conn /\ s.tag = xr.sel)
Route(at, t) ==
    /\ Excused \/ at \in {"ret_egress", "ret_save"} \/ Known(st)
    /\ at \in {"select", "back"} => Excused \/ Known(job.base)
    /\ at \in {"egress", "connected", "ret_egress", "ret_save"} /\ xr.run /\ xr.sel \in Addresses => xr.sel = job.tag
    /\ at \in {"end_down", "end_save", "open_save", "direct_save", "fail_save"} \/ (t = "active" /\ at \in Erasing)
          => xr.sel \notin Addresses

\* A connect that found a connection has one, or returns to it.
Kept(at, t) ==
    /\ t = "connect" /\ at # "end" /\ job.was => st.conn
    /\ at \in Recording \cup Settled => st.conn
    /\ at = "end" /\ job.by = "connect" /\ job.was => st.conn \/ "unrestored" \in odd

\* The profiles of the user are in the index and in their files, up to the step that
\* the operation is at.
Listed(at, t) ==
    \/ "dangling" \in odd
    \/ /\ owned \subseteq (index \cap files) \cup {legacy}
       /\ at # "rm_unlist" => index \subseteq files
       /\ at = "rm_unlist" => index \ {job.id} \subseteq files /\ job.id \notin owned
       /\ at \in {"write", "list", "unlink"} => legacy \notin index
       /\ at = "list" => legacy \in files
       /\ at \in {"adopt", "drop"} => legacy \in index \cap files
       /\ at \in {"new_write", "new_list", "new_unlink"} => job.id \notin index
       /\ at = "new_list" => job.id \in files
       /\ at = "imported" => job.id \in index \cap files

Holds(at, t) ==
    Frame(at, t) /\ OldLayout(at, t) /\ Choice(at, t) /\ Named(at, t) /\ Route(at, t) /\ Kept(at, t) /\ Listed(at, t)
Reached(at, t) == Point(at, t) /\ todo = Prog(at, t) /\ Holds(at, t)
Inv == TypeOK /\ \E at, t : Reached(at, t)

\* The steps on the profile files.
LEMMA FilesStep ==
  ASSUME NEW at, NEW t, TypeOK, Reached(at, t), Files
  PROVE  Inv'
<1> USE DEF Reached, Holds, Frame, OldLayout, Choice, Named, Route, Kept, Listed, NamedBy, Known, Excused, Lost, Sane,
            Connected, OtherActive, Recorded, Acting, Raising, Removing, Moving, Loading, Reloading, Importing,
            Isolated, Verifying, Configuring, Configured, Starting, Switching, Recording, Keeping, Returned, Settled,
            Erasing, Ceasing, Migrations, Connects, Checks, By, Entry, TypeOK
<1>1. CASE at = "write"
  <2>1. todo.call = <<"write", "legacy">> /\ todo.next = Prog("list", t)
    BY ONLY <1>1, MovingProg, DoFields, Reached(at, t) DEF Reached
  <2>2. /\ files' = files \cup {legacy}
        /\ todo' = Prog("list", t) /\ UNCHANGED <<addr, index, legacy, st, smode, net, iso, xr, job, heal, boot, owned,
              odd, faults, ops>>
    BY ONLY <1>1, <2>1, Files DEF Files, At, Go, Advance, disk, runtime, kept, ProfileOf
  <2>3. t \in Migrations /\ Point("list", t)
    BY ONLY <1>1, Reached(at, t), Passing DEF Reached, Checks, Connects, Migrations, Moving, Tracks
  <2>4. TypeOK'
    BY <1>1, <2>2, <2>3
  <2>5. Holds("list", t)'
    BY <1>1, <2>2, <2>3
  <2> QED BY ONLY <2>2, <2>3, <2>4, <2>5 DEF Inv, Reached
<1>2. CASE at = "list"
  <2>1. todo.call = <<"list", "legacy">> /\ todo.next = Prog("adopt", t)
    BY ONLY <1>2, MovingProg, DoFields, Reached(at, t) DEF Reached
  <2>2. /\ index' = index \cup {legacy}
        /\ todo' = Prog("adopt", t) /\ UNCHANGED <<addr, files, legacy, st, smode, net, iso, xr, job, heal, boot, owned,
              odd, faults, ops>>
    BY ONLY <1>2, <2>1, Files DEF Files, At, Go, Advance, disk, runtime, kept, ProfileOf
  <2>3. t \in Migrations /\ Point("adopt", t)
    BY ONLY <1>2, Reached(at, t), Passing DEF Reached, Checks, Connects, Migrations, Moving, Tracks
  <2>4. TypeOK'
    BY <1>2, <2>2, <2>3
  <2>5. Holds("adopt", t)'
    BY <1>2, <2>2, <2>3
  <2> QED BY ONLY <2>2, <2>3, <2>4, <2>5 DEF Inv, Reached
<1>3. CASE at = "unlink"
  <2>1. todo.call = <<"unlink", "legacy">> /\ todo.next = Prog(Entry(t), t)
    BY ONLY <1>3, MovingProg, DoFields, Reached(at, t), HandlerProg DEF Reached
  <2>2. /\ files' = files \ {legacy} 
        /\ todo' = Prog(Entry(t), t) /\ UNCHANGED <<addr, index, legacy, st, smode, net, iso, xr, job, heal, boot, owned,
              odd, faults, ops>>
    BY ONLY <1>3, <2>1, Files DEF Files, At, Go, Advance, disk, runtime, kept, ProfileOf
  <2>3. t \in Migrations /\ Point(Entry(t), t)
    BY ONLY <1>3, Reached(at, t), Passing DEF Reached, Checks, Connects, Entry, Healing, Migrations, Moving, Opening,
       Returning, Tracks
  <2>4. TypeOK'
    BY <1>3, <2>2, <2>3
  <2>5. Holds(Entry(t), t)'
    BY <1>3, <2>2, <2>3
  <2> QED BY ONLY <2>2, <2>3, <2>4, <2>5 DEF Inv, Reached
<1>4. CASE at = "drop"
  <2>1. todo.call = <<"dropold", "legacy">> /\ todo.next = Migrated(t)
    BY ONLY <1>4, MovingProg, DoFields, Reached(at, t) DEF Reached
  <2>2. /\ legacy' = None
        /\ todo' = Migrated(t) /\ UNCHANGED <<addr, index, files, st, smode, net, iso, xr, job, heal, boot, owned, odd,
              faults, ops>>
    BY ONLY <1>4, <2>1, Files DEF Files, At, Go, Advance, disk, runtime, kept, ProfileOf
  <2>3. t \in Migrations
    BY ONLY <1>4, Reached(at, t), Passing DEF Reached, Moving
  <2>4. TypeOK'
    BY <1>4, <2>2, <2>3
  <2>5. CASE t = "reapply"
    <3>1. todo' = Prog("reload", t)
      BY ONLY <2>2, <2>5, <2>3, BranchProg, ProgAt DEF Connects, Checks, Migrations
    <3>2. Point("reload", t)
      BY ONLY <2>5, <2>3, Passing DEF Checks, Connects, Migrations, Reloading, Tracks
    <3>3. Holds("reload", t)'
      BY <1>4, <2>2, <2>3, <2>5
    <3> QED BY ONLY <2>4, <3>1, <3>2, <3>3 DEF Inv, Reached
  <2>6. CASE t # "reapply"
    <3>1. todo' = Prog("load", t)
      BY ONLY <2>2, <2>6, <2>3, BranchProg, ProgAt DEF Connects, Checks, Migrations
    <3>2. Point("load", t)
      BY ONLY <2>6, <2>3, Passing DEF Checks, Connects, Loading, Migrations, Tracks
    <3>3. Holds("load", t)'
      BY <1>4, <2>2, <2>3, <2>6
    <3> QED BY ONLY <2>4, <3>1, <3>2, <3>3 DEF Inv, Reached
  <2> QED BY ONLY <2>3, <2>5, <2>6 DEF Connects, Checks
<1>5. CASE at = "new_write"
  <2>1. todo.call = <<"write", "id">> /\ todo.next = Prog("new_list", t)
    BY ONLY <1>5, ImportingProg, DoFields, Reached(at, t) DEF Reached
  <2>2. /\ files' = files \cup {job.id}
        /\ todo' = Prog("new_list", t) /\ UNCHANGED <<addr, index, legacy, st, smode, net, iso, xr, job, heal, boot, owned,
              odd, faults, ops>>
    BY ONLY <1>5, <2>1, Files DEF Files, At, Go, Advance, disk, runtime, kept, ProfileOf
  <2>3. t \in {"import"} /\ Point("new_list", t)
    BY ONLY <1>5, Reached(at, t), Passing DEF Reached, Checks, Connects, Importing, Migrations, Tracks
  <2>4. TypeOK'
    BY <1>5, <2>2, <2>3
  <2>5. Holds("new_list", t)'
    BY <1>5, <2>2, <2>3
  <2> QED BY ONLY <2>2, <2>3, <2>4, <2>5 DEF Inv, Reached
<1>6. CASE at = "new_list"
  <2>1. todo.call = <<"list", "id">> /\ todo.next = Prog("imported", t)
    BY ONLY <1>6, ImportingProg, DoFields, Reached(at, t) DEF Reached
  <2>2. /\ index' = index \cup {job.id}
        /\ todo' = Prog("imported", t) /\ UNCHANGED <<addr, files, legacy, st, smode, net, iso, xr, job, heal, boot, owned,
              odd, faults, ops>>
    BY ONLY <1>6, <2>1, Files DEF Files, At, Go, Advance, disk, runtime, kept, ProfileOf
  <2>3. t \in {"import"} /\ Point("imported", t)
    BY ONLY <1>6, Reached(at, t), Passing DEF Reached, Checks, Connects, Importing, Migrations, Tracks
  <2>4. TypeOK'
    BY <1>6, <2>2, <2>3
  <2>5. Holds("imported", t)'
    BY <1>6, <2>2, <2>3
  <2> QED BY ONLY <2>2, <2>3, <2>4, <2>5 DEF Inv, Reached
<1>7. CASE at = "new_unlink"
  <2>1. todo.call = <<"unlink", "id">> /\ todo.next = Prog("end", t)
    BY ONLY <1>7, ImportingProg, DoFields, Reached(at, t), ProgAt DEF Reached
  <2>0. job.by = "import"
    BY ONLY <1>7, Reached(at, t), Passing DEF Reached, Holds, Frame, By, Importing
  <2>2. /\ files' = files \ {job.id}
        /\ todo' = Prog("end", t) /\ UNCHANGED <<addr, index, legacy, st, smode, net, iso, xr, job, heal, boot, owned, odd,
              faults, ops>>
    BY ONLY <1>7, <2>1, Files, <2>0 DEF Files, At, Go, Advance, disk, runtime, kept, ProfileOf
  <2>3. t \in {"import"} /\ Point("end", t)
    BY ONLY <1>7, Reached(at, t), Passing DEF Reached, Checks, Connects, Importing, Migrations, Tracks
  <2>4. TypeOK'
    BY <1>7, <2>2, <2>3
  <2>5. Holds("end", t)'
    BY <1>7, <2>2, <2>3
  <2> QED BY ONLY <2>2, <2>3, <2>4, <2>5 DEF Inv, Reached
<1>8. CASE at = "imported"
  <2>1. todo.call = <<"imported", "id">> /\ todo.next = Prog("end", t)
    BY ONLY <1>8, ImportingProg, DoFields, Reached(at, t), ProgAt DEF Reached
  <2>2. /\ owned' = owned \cup {job.id}
        /\ todo' = Prog("end", t) /\ UNCHANGED <<addr, index, files, legacy, st, smode, net, iso, xr, job, heal, boot, odd,
              faults, ops>>
    BY ONLY <1>8, <2>1, Files DEF Files, At, Go, Advance, disk, runtime, kept, ProfileOf
  <2>3. t \in {"import"} /\ Point("end", t)
    BY ONLY <1>8, Reached(at, t), Passing DEF Reached, Checks, Connects, Importing, Migrations, Tracks
  <2>4. TypeOK'
    BY <1>8, <2>2, <2>3
  <2>5. Holds("end", t)'
    BY <1>8, <2>2, <2>3
  <2> QED BY ONLY <2>2, <2>3, <2>4, <2>5 DEF Inv, Reached
<1>9. CASE at = "rm_unlink"
  <2>1. todo.call = <<"unlink", "id">> /\ todo.next = Prog("rm_unlist", t)
    BY ONLY <1>9, ErasingProg, DoFields, Reached(at, t) DEF Reached
  <2>0. job.by = "remove"
    BY ONLY <1>9, Reached(at, t), Passing DEF Reached, Holds, Frame, By, Erasing
  <2>2. /\ files' = files \ {job.id} /\ owned' = owned \ {job.id}
        /\ todo' = Prog("rm_unlist", t) /\ UNCHANGED <<addr, index, legacy, st, smode, net, iso, xr, job, heal, boot, odd,
              faults, ops>>
    BY ONLY <1>9, <2>1, Files, <2>0 DEF Files, At, Go, Advance, disk, runtime, kept, ProfileOf
  <2>3. t \in {"remove", "active"} /\ Point("rm_unlist", t)
    BY ONLY <1>9, Reached(at, t), Passing DEF Reached, Checks, Connects, Erasing, Migrations, Tracks
  <2>4. TypeOK'
    BY <1>9, <2>2, <2>3
  <2>5. Holds("rm_unlist", t)'
    BY <1>9, <2>2, <2>3
  <2> QED BY ONLY <2>2, <2>3, <2>4, <2>5 DEF Inv, Reached
<1>10. CASE at = "rm_unlist"
  <2>1. todo.call = <<"unlist", "id">> /\ todo.next = Prog("rm_save", t)
    BY ONLY <1>10, ErasingProg, DoFields, Reached(at, t) DEF Reached
  <2>2. /\ index' = index \ {job.id}
        /\ todo' = Prog("rm_save", t) /\ UNCHANGED <<addr, files, legacy, st, smode, net, iso, xr, job, heal, boot, owned,
              odd, faults, ops>>
    BY ONLY <1>10, <2>1, Files DEF Files, At, Go, Advance, disk, runtime, kept, ProfileOf
  <2>3. t \in {"remove", "active"} /\ Point("rm_save", t)
    BY ONLY <1>10, Reached(at, t), Passing DEF Reached, Checks, Connects, Erasing, Migrations, Tracks
  <2>4. TypeOK'
    BY <1>10, <2>2, <2>3
  <2>5. Holds("rm_save", t)'
    BY <1>10, <2>2, <2>3
  <2> QED BY ONLY <2>2, <2>3, <2>4, <2>5 DEF Inv, Reached
<1>11. at \in {"write", "list", "unlink", "drop", "new_write", "new_list", "new_unlink", "imported", "rm_unlink",
           "rm_unlist"}
  <2>1. todo.call = Call(at, t)
    BY ONLY Reached(at, t), ProgCall DEF Reached
  <2>2. todo.call \in {<<"write", "legacy">>, <<"list", "legacy">>, <<"unlink", "legacy">>, <<"dropold", "legacy">>,
              <<"write", "id">>, <<"list", "id">>, <<"unlink", "id">>, <<"imported", "id">>, <<"unlist", "id">>}
    BY ONLY Files DEF Files, At
  <2> QED BY ONLY <2>1, <2>2, CallAt
<1> QED BY ONLY <1>1, <1>2, <1>3, <1>4, <1>5, <1>6, <1>7, <1>8, <1>9, <1>10, <1>11

\* The steps on the permanent interface.
LEMMA InterfaceStep ==
  ASSUME NEW at, NEW t, TypeOK, Reached(at, t), Interface
  PROVE  Inv'
<1> USE DEF Reached, Holds, Frame, OldLayout, Choice, Named, Route, Kept, Listed, NamedBy, Known, Excused, Lost, Sane,
            Connected, OtherActive, Recorded, Acting, Raising, Removing, Moving, Loading, Reloading, Importing,
            Isolated, Verifying, Configuring, Configured, Starting, Switching, Recording, Keeping, Returned, Settled,
            Erasing, Ceasing, Migrations, Connects, Checks, By, Entry, TypeOK
<1>1. CASE at = "down"
  <2>1. todo.call = <<"down", "awg">> /\ todo.next = Prog("unconfigure", t)
    BY ONLY <1>1, ConfiguringProg, DoFields, Reached(at, t) DEF Reached
  <2>2. /\ net' = [net EXCEPT !.up = FALSE, !.rule = FALSE]
        /\ todo' = Prog("unconfigure", t) /\ UNCHANGED <<addr, index, files, legacy, st, smode, iso, xr, job, heal, boot,
              owned, odd, faults, ops>>
    BY ONLY <1>1, <2>1, Interface DEF Interface, At, Go, Advance, disk, runtime, kept
  <2>3. t \in {"connect", "attempt"} /\ Point("unconfigure", t)
    BY ONLY <1>1, Reached(at, t), Passing DEF Reached, Checks, Configuring, Connects, Migrations, Tracks
  <2>4. TypeOK'
    BY <1>1, <2>2, <2>3
  <2>5. Holds("unconfigure", t)'
    BY <1>1, <2>2, <2>3
  <2> QED BY ONLY <2>2, <2>3, <2>4, <2>5 DEF Inv, Reached
<1>2. CASE at = "end_down"
  <2>1. todo.call = <<"down", "awg">> /\ todo.next = Prog("end_save", t)
    BY ONLY <1>2, EndingProg, DoFields, Reached(at, t) DEF Reached
  <2>2. /\ net' = [net EXCEPT !.up = FALSE, !.rule = FALSE]
        /\ todo' = Prog("end_save", t) /\ UNCHANGED <<addr, index, files, legacy, st, smode, iso, xr, job, heal, boot,
              owned, odd, faults, ops>>
    BY ONLY <1>2, <2>1, Interface DEF Interface, At, Go, Advance, disk, runtime, kept
  <2>3. t \in {"disconnect", "attempt"} /\ Point("end_save", t)
    BY ONLY <1>2, Reached(at, t), Passing DEF Reached, Checks, Connects, Ending, Migrations, Tracks
  <2>4. TypeOK'
    BY <1>2, <2>2, <2>3
  <2>5. Holds("end_save", t)'
    BY <1>2, <2>2, <2>3
  <2> QED BY ONLY <2>2, <2>3, <2>4, <2>5 DEF Inv, Reached
<1>3. CASE at = "only_down"
  <2>1. todo.call = <<"down", "awg">> /\ todo.next = Prog("end", t)
    BY ONLY <1>3, LoweringProg, DoFields, Reached(at, t), ProgAt DEF Reached
  <2>2. /\ net' = [net EXCEPT !.up = FALSE, !.rule = FALSE]
        /\ todo' = Prog("end", t) /\ UNCHANGED <<addr, index, files, legacy, st, smode, iso, xr, job, heal, boot, owned,
              odd, faults, ops>>
    BY ONLY <1>3, <2>1, Interface DEF Interface, At, Go, Advance, disk, runtime, kept
  <2>3. t \in {"disconnect"} /\ Point("end", t)
    BY ONLY <1>3, Reached(at, t), Passing DEF Reached, Checks, Connects, Lowering, Migrations, Tracks
  <2>4. TypeOK'
    BY <1>3, <2>2, <2>3
  <2>5. Holds("end", t)'
    BY <1>3, <2>2, <2>3
  <2> QED BY ONLY <2>2, <2>3, <2>4, <2>5 DEF Inv, Reached
<1>4. CASE at = "rm_down"
  <2>1. todo.call = <<"down", "awg">> /\ todo.next = Prog("rm_unconfigure", t)
    BY ONLY <1>4, ErasingProg, DoFields, Reached(at, t) DEF Reached
  <2>2. /\ net' = [net EXCEPT !.up = FALSE, !.rule = FALSE]
        /\ todo' = Prog("rm_unconfigure", t) /\ UNCHANGED <<addr, index, files, legacy, st, smode, iso, xr, job, heal,
              boot, owned, odd, faults, ops>>
    BY ONLY <1>4, <2>1, Interface DEF Interface, At, Go, Advance, disk, runtime, kept
  <2>3. t \in {"remove", "active"} /\ Point("rm_unconfigure", t)
    BY ONLY <1>4, Reached(at, t), Passing DEF Reached, Checks, Connects, Erasing, Migrations, Tracks
  <2>4. TypeOK'
    BY <1>4, <2>2, <2>3
  <2>5. Holds("rm_unconfigure", t)'
    BY <1>4, <2>2, <2>3
  <2> QED BY ONLY <2>2, <2>3, <2>4, <2>5 DEF Inv, Reached
<1>5. CASE at = "ret_down"
  <2>1. todo.call = <<"down", "awg">> /\ todo.next = Prog("ret_unconfigure", t)
    BY ONLY <1>5, ReturningProg, DoFields, Reached(at, t) DEF Reached
  <2>2. /\ net' = [net EXCEPT !.up = FALSE, !.rule = FALSE]
        /\ todo' = Prog("ret_unconfigure", t) /\ UNCHANGED <<addr, index, files, legacy, st, smode, iso, xr, job, heal,
              boot, owned, odd, faults, ops>>
    BY ONLY <1>5, <2>1, Interface DEF Interface, At, Go, Advance, disk, runtime, kept
  <2>3. t \in {"attempt"} /\ Point("ret_unconfigure", t)
    BY ONLY <1>5, Reached(at, t), Passing DEF Reached, Checks, Connects, Migrations, Returning, Tracks
  <2>4. TypeOK'
    BY <1>5, <2>2, <2>3
  <2>5. Holds("ret_unconfigure", t)'
    BY <1>5, <2>2, <2>3
  <2> QED BY ONLY <2>2, <2>3, <2>4, <2>5 DEF Inv, Reached
<1>6. CASE at = "unconfigure"
  <2>1. todo.call = <<"unconfigure", "awg">> /\ todo.next = Prog("configure", t)
    BY ONLY <1>6, ConfiguringProg, DoFields, Reached(at, t) DEF Reached
  <2>2. /\ net' = [net EXCEPT !.cfg = None]
        /\ todo' = Prog("configure", t) /\ UNCHANGED <<addr, index, files, legacy, st, smode, iso, xr, job, heal, boot,
              owned, odd, faults, ops>>
    BY ONLY <1>6, <2>1, Interface DEF Interface, At, Go, Advance, disk, runtime, kept
  <2>3. t \in {"connect", "attempt"} /\ Point("configure", t)
    BY ONLY <1>6, Reached(at, t), Passing DEF Reached, Checks, Configuring, Connects, Migrations, Tracks
  <2>4. TypeOK'
    BY <1>6, <2>2, <2>3
  <2>5. Holds("configure", t)'
    BY <1>6, <2>2, <2>3
  <2> QED BY ONLY <2>2, <2>3, <2>4, <2>5 DEF Inv, Reached
<1>7. CASE at = "rm_unconfigure"
  <2>1. todo.call = <<"unconfigure", "awg">> /\ todo.next = Prog("rm_unlink", t)
    BY ONLY <1>7, ErasingProg, DoFields, Reached(at, t) DEF Reached
  <2>2. /\ net' = [net EXCEPT !.cfg = None]
        /\ todo' = Prog("rm_unlink", t) /\ UNCHANGED <<addr, index, files, legacy, st, smode, iso, xr, job, heal, boot,
              owned, odd, faults, ops>>
    BY ONLY <1>7, <2>1, Interface DEF Interface, At, Go, Advance, disk, runtime, kept
  <2>3. t \in {"remove", "active"} /\ Point("rm_unlink", t)
    BY ONLY <1>7, Reached(at, t), Passing DEF Reached, Checks, Connects, Erasing, Migrations, Tracks
  <2>4. TypeOK'
    BY <1>7, <2>2, <2>3
  <2>5. Holds("rm_unlink", t)'
    BY <1>7, <2>2, <2>3
  <2> QED BY ONLY <2>2, <2>3, <2>4, <2>5 DEF Inv, Reached
<1>8. CASE at = "ret_unconfigure"
  <2>1. todo.call = <<"unconfigure", "awg">> /\ todo.next = Prog("ret_configure", t)
    BY ONLY <1>8, ReturningProg, DoFields, Reached(at, t) DEF Reached
  <2>2. /\ net' = [net EXCEPT !.cfg = None]
        /\ todo' = Prog("ret_configure", t) /\ UNCHANGED <<addr, index, files, legacy, st, smode, iso, xr, job, heal, boot,
              owned, odd, faults, ops>>
    BY ONLY <1>8, <2>1, Interface DEF Interface, At, Go, Advance, disk, runtime, kept
  <2>3. t \in {"attempt"} /\ Point("ret_configure", t)
    BY ONLY <1>8, Reached(at, t), Passing DEF Reached, Checks, Connects, Migrations, Returning, Tracks
  <2>4. TypeOK'
    BY <1>8, <2>2, <2>3
  <2>5. Holds("ret_configure", t)'
    BY <1>8, <2>2, <2>3
  <2> QED BY ONLY <2>2, <2>3, <2>4, <2>5 DEF Inv, Reached
<1>9. CASE at = "configure"
  <2>1. todo.call = <<"configure", "id">> /\ todo.next = Prog("prepared", t)
    BY ONLY <1>9, ConfiguringProg, DoFields, Reached(at, t) DEF Reached
  <2>2. /\ net'.cfg = job.id /\ (\E up \in BOOLEAN : net' = [cfg |-> job.id, up |-> up, rule |-> FALSE])
        /\ todo' = Prog("prepared", t) /\ UNCHANGED <<addr, index, files, legacy, st, smode, iso, xr, job, heal, boot,
              owned, odd, faults, ops>>
    BY ONLY <1>9, <2>1, Interface DEF Interface, At, Go, Advance, disk, runtime, kept, ProfileOf
  <2>3. t \in {"connect", "attempt"} /\ Point("prepared", t)
    BY ONLY <1>9, Reached(at, t), Passing DEF Reached, Checks, Configured, Configuring, Connects, Migrations, Tracks
  <2>4. TypeOK'
    BY <1>9, <2>2, <2>3
  <2>5. Holds("prepared", t)'
    <3>1. Frame("prepared", t)'
      BY <1>9, <2>2, <2>3, ProfileAssumption
    <3>2. OldLayout("prepared", t)'
      BY <1>9, <2>2, <2>3
    <3>3. Choice("prepared", t)'
      BY <1>9, <2>2, <2>3
    <3>4. Named("prepared", t)'
      BY <1>9, <2>2, <2>3
    <3>5. Route("prepared", t)'
      BY <1>9, <2>2, <2>3
    <3>6. Kept("prepared", t)'
      BY <1>9, <2>2, <2>3
    <3>7. Listed("prepared", t)'
      BY <1>9, <2>2, <2>3
    <3> QED BY ONLY <3>1, <3>2, <3>3, <3>4, <3>5, <3>6, <3>7 DEF Holds
  <2> QED BY ONLY <2>2, <2>3, <2>4, <2>5 DEF Inv, Reached
<1>10. CASE at = "ret_configure"
  <2>1. todo.call = <<"configure", "orig">> /\ todo.next = Prog("ret_ifup", t)
    BY ONLY <1>10, ReturningProg, DoFields, Reached(at, t) DEF Reached
  <2>2. /\ net'.cfg = job.orig.active /\ (\E up \in BOOLEAN : net' = [cfg |-> job.orig.active, up |-> up, rule |-> FALSE])
        /\ todo' = Prog("ret_ifup", t) /\ UNCHANGED <<addr, index, files, legacy, st, smode, iso, xr, job, heal, boot,
              owned, odd, faults, ops>>
    BY ONLY <1>10, <2>1, Interface DEF Interface, At, Go, Advance, disk, runtime, kept, ProfileOf
  <2>3. t \in {"attempt"} /\ Point("ret_ifup", t)
    BY ONLY <1>10, Reached(at, t), Passing DEF Reached, Checks, Connects, Migrations, Returned, Returning, Tracks
  <2>4. TypeOK'
    BY <1>10, <2>2, <2>3
  <2>5. Holds("ret_ifup", t)'
    <3>1. Frame("ret_ifup", t)'
      BY <1>10, <2>2, <2>3, ProfileAssumption
    <3>2. OldLayout("ret_ifup", t)'
      BY <1>10, <2>2, <2>3
    <3>3. Choice("ret_ifup", t)'
      BY <1>10, <2>2, <2>3
    <3>4. Named("ret_ifup", t)'
      BY <1>10, <2>2, <2>3
    <3>5. Route("ret_ifup", t)'
      BY <1>10, <2>2, <2>3
    <3>6. Kept("ret_ifup", t)'
      BY <1>10, <2>2, <2>3
    <3>7. Listed("ret_ifup", t)'
      BY <1>10, <2>2, <2>3
    <3> QED BY ONLY <3>1, <3>2, <3>3, <3>4, <3>5, <3>6, <3>7 DEF Holds
  <2> QED BY ONLY <2>2, <2>3, <2>4, <2>5 DEF Inv, Reached
<1>11. CASE at = "ifup"
  <2>1. todo.call = <<"ifup", "awg">> /\ todo.next = Prog("runtime", t)
    BY ONLY <1>11, VerifyingProg, DoFields, Reached(at, t) DEF Reached
  <2>2. /\ net' = [net EXCEPT !.up = TRUE, !.rule = TRUE]
        /\ todo' = Prog("runtime", t) /\ UNCHANGED <<addr, index, files, legacy, st, smode, iso, xr, job, heal, boot,
              owned, odd, faults, ops>>
    BY ONLY <1>11, <2>1, Interface DEF Interface, At, Go, Advance, disk, runtime, kept
  <2>3. t \in Checks \cup Connects /\ Point("runtime", t)
    BY ONLY <1>11, Reached(at, t), Passing DEF Reached, Checks, Connects, Migrations, Tracks, Verifying
  <2>4. TypeOK'
    BY <1>11, <2>2, <2>3
  <2>5. Holds("runtime", t)'
    BY <1>11, <2>2, <2>3
  <2> QED BY ONLY <2>2, <2>3, <2>4, <2>5 DEF Inv, Reached
<1>12. CASE at = "ready_ifup"
  <2>1. todo.call = <<"ifup", "awg">> /\ todo.next = Prog("ready_runtime", t)
    BY ONLY <1>12, StartingProg, DoFields, Reached(at, t) DEF Reached
  <2>2. /\ net' = [net EXCEPT !.up = TRUE, !.rule = TRUE]
        /\ todo' = Prog("ready_runtime", t) /\ UNCHANGED <<addr, index, files, legacy, st, smode, iso, xr, job, heal, boot,
              owned, odd, faults, ops>>
    BY ONLY <1>12, <2>1, Interface DEF Interface, At, Go, Advance, disk, runtime, kept
  <2>3. t \in Connects /\ Point("ready_runtime", t)
    BY ONLY <1>12, Reached(at, t), Passing DEF Reached, Checks, Connects, Migrations, Starting, Tracks
  <2>4. TypeOK'
    BY <1>12, <2>2, <2>3
  <2>5. Holds("ready_runtime", t)'
    BY <1>12, <2>2, <2>3
  <2> QED BY ONLY <2>2, <2>3, <2>4, <2>5 DEF Inv, Reached
<1>13. CASE at = "quick_ifup"
  <2>1. todo.call = <<"ifup", "awg">> /\ todo.next = Prog("quick_runtime", t)
    BY ONLY <1>13, ConfiguredProg, DoFields, Reached(at, t) DEF Reached
  <2>2. /\ net' = [net EXCEPT !.up = TRUE, !.rule = TRUE]
        /\ todo' = Prog("quick_runtime", t) /\ UNCHANGED <<addr, index, files, legacy, st, smode, iso, xr, job, heal, boot,
              owned, odd, faults, ops>>
    BY ONLY <1>13, <2>1, Interface DEF Interface, At, Go, Advance, disk, runtime, kept
  <2>3. t \in {"connect", "attempt"} /\ Point("quick_runtime", t)
    BY ONLY <1>13, Reached(at, t), Passing DEF Reached, Checks, Configured, Connects, Migrations, Tracks
  <2>4. TypeOK'
    BY <1>13, <2>2, <2>3
  <2>5. Holds("quick_runtime", t)'
    BY <1>13, <2>2, <2>3
  <2> QED BY ONLY <2>2, <2>3, <2>4, <2>5 DEF Inv, Reached
<1>14. CASE at = "ret_ifup"
  <2>1. todo.call = <<"ifup", "awg">> /\ todo.next = Prog("ret_runtime", t)
    BY ONLY <1>14, ReturnedProg, DoFields, Reached(at, t) DEF Reached
  <2>2. /\ net' = [net EXCEPT !.up = TRUE, !.rule = TRUE]
        /\ todo' = Prog("ret_runtime", t) /\ UNCHANGED <<addr, index, files, legacy, st, smode, iso, xr, job, heal, boot,
              owned, odd, faults, ops>>
    BY ONLY <1>14, <2>1, Interface DEF Interface, At, Go, Advance, disk, runtime, kept
  <2>3. t \in {"attempt"} /\ Point("ret_runtime", t)
    BY ONLY <1>14, Reached(at, t), Passing DEF Reached, Checks, Connects, Migrations, Returned, Tracks
  <2>4. TypeOK'
    BY <1>14, <2>2, <2>3
  <2>5. Holds("ret_runtime", t)'
    BY <1>14, <2>2, <2>3
  <2> QED BY ONLY <2>2, <2>3, <2>4, <2>5 DEF Inv, Reached
<1>15. at \in {"down", "end_down", "only_down", "rm_down", "ret_down", "unconfigure", "rm_unconfigure",
           "ret_unconfigure", "configure", "ret_configure", "ifup", "ready_ifup", "quick_ifup", "ret_ifup"}
  <2>1. todo.call = Call(at, t)
    BY ONLY Reached(at, t), ProgCall DEF Reached
  <2>2. todo.call \in {<<"down", "awg">>, <<"unconfigure", "awg">>, <<"configure", "id">>, <<"configure", "orig">>,
              <<"ifup", "awg">>}
    BY ONLY Interface DEF Interface, At
  <2> QED BY ONLY <2>1, <2>2, CallAt
<1> QED BY ONLY <1>1, <1>2, <1>3, <1>4, <1>5, <1>6, <1>7, <1>8, <1>9, <1>10, <1>11, <1>12, <1>13, <1>14, <1>15

\* The steps on the isolated interface.
LEMMA IsolateStep ==
  ASSUME NEW at, NEW t, TypeOK, Reached(at, t), Isolate
  PROVE  Inv'
<1> USE DEF Reached, Holds, Frame, OldLayout, Choice, Named, Route, Kept, Listed, NamedBy, Known, Excused, Lost, Sane,
            Connected, OtherActive, Recorded, Acting, Raising, Removing, Moving, Loading, Reloading, Importing,
            Isolated, Verifying, Configuring, Configured, Starting, Switching, Recording, Keeping, Returned, Settled,
            Erasing, Ceasing, Migrations, Connects, Checks, By, Entry, TypeOK
<1>1. CASE at = "isolate"
  <2>1. todo.call = <<"isolate", "id">> /\ todo.next = Prog("iso_runtime", t)
    BY ONLY <1>1, IsolatedProg, DoFields, Reached(at, t) DEF Reached
  <2>2. /\ iso' = job.id
        /\ todo' = Prog("iso_runtime", t) /\ UNCHANGED <<addr, index, files, legacy, st, smode, net, xr, job, heal, boot,
              owned, odd, faults, ops>>
    BY ONLY <1>1, <2>1, Isolate DEF Isolate, At, Go, Advance, disk, runtime, kept
  <2>3. t \in Checks \cup {"connect"} /\ Point("iso_runtime", t)
    BY ONLY <1>1, Reached(at, t), Passing DEF Reached, Checks, Connects, Isolated, Migrations, Tracks
  <2>4. TypeOK'
    BY <1>1, <2>2, <2>3
  <2>5. Holds("iso_runtime", t)'
    BY <1>1, <2>2, <2>3
  <2> QED BY ONLY <2>2, <2>3, <2>4, <2>5 DEF Inv, Reached
<1>2. CASE at = "iso_fail"
  <2>1. todo.call = <<"deisolate", "id">> /\ todo.next = Prog(Entry(t), t)
    BY ONLY <1>2, IsolatedProg, DoFields, Reached(at, t), HandlerProg DEF Reached
  <2>2. /\ iso' = None
        /\ todo' = Prog(Entry(t), t) /\ UNCHANGED <<addr, index, files, legacy, st, smode, net, xr, job, heal, boot, owned,
              odd, faults, ops>>
    BY ONLY <1>2, <2>1, Isolate DEF Isolate, At, Go, Advance, disk, runtime, kept
  <2>3. t \in Checks \cup {"connect"} /\ Point(Entry(t), t)
    BY ONLY <1>2, Reached(at, t), Passing DEF Reached, Checks, Connects, Entry, Healing, Isolated, Migrations, Opening,
       Returning, Tracks
  <2>4. TypeOK'
    BY <1>2, <2>2, <2>3
  <2>5. Holds(Entry(t), t)'
    BY <1>2, <2>2, <2>3
  <2> QED BY ONLY <2>2, <2>3, <2>4, <2>5 DEF Inv, Reached
<1>3. CASE at = "iso_end"
  <2>1. todo.call = <<"deisolate", "id">> /\ todo.next = Checked(t)
    BY ONLY <1>3, IsolatedProg, DoFields, Reached(at, t) DEF Reached
  <2>2. /\ iso' = None
        /\ todo' = Checked(t) /\ UNCHANGED <<addr, index, files, legacy, st, smode, net, xr, job, heal, boot, owned, odd,
              faults, ops>>
    BY ONLY <1>3, <2>1, Isolate DEF Isolate, At, Go, Advance, disk, runtime, kept
  <2>3. t \in Checks \cup {"connect"}
    BY ONLY <1>3, Reached(at, t), Passing DEF Reached, Isolated
  <2>4. TypeOK'
    BY <1>3, <2>2, <2>3
  <2>5. CASE t = "check"
    <3>1. todo' = Prog("end", t)
      BY ONLY <2>2, <2>5, <2>3, BranchProg, ProgAt DEF Connects, Checks, Migrations
    <3>2. Point("end", t)
      BY ONLY <2>5, <2>3, Passing DEF Checks, Connects, Migrations, Tracks
    <3>3. Holds("end", t)'
      BY <1>3, <2>2, <2>3, <2>5
    <3> QED BY ONLY <2>4, <3>1, <3>2, <3>3 DEF Inv, Reached
  <2>6. CASE t = "heal"
    <3>1. todo' = Prog("on", t)
      BY ONLY <2>2, <2>6, <2>3, BranchProg, ProgAt DEF Connects, Checks, Migrations
    <3>2. Point("on", t)
      BY ONLY <2>6, <2>3, Passing DEF Checks, Connects, Healing, Migrations, Tracks
    <3>3. Holds("on", t)'
      BY <1>3, <2>2, <2>3, <2>6
    <3> QED BY ONLY <2>4, <3>1, <3>2, <3>3 DEF Inv, Reached
  <2>7. CASE t = "connect"
    <3>1. todo' = Prog("keep", t)
      BY ONLY <2>2, <2>7, <2>3, BranchProg, ProgAt DEF Connects, Checks, Migrations
    <3>2. Point("keep", t)
      BY ONLY <2>7, <2>3, Passing DEF Checks, Connects, Keeping, Migrations, Tracks
    <3>3. Holds("keep", t)'
      BY <1>3, <2>2, <2>3, <2>7
    <3> QED BY ONLY <2>4, <3>1, <3>2, <3>3 DEF Inv, Reached
  <2> QED BY ONLY <2>3, <2>5, <2>6, <2>7 DEF Connects, Checks
<1>4. at \in {"isolate", "iso_fail", "iso_end"}
  <2>1. todo.call = Call(at, t)
    BY ONLY Reached(at, t), ProgCall DEF Reached
  <2>2. todo.call \in {<<"isolate", "id">>, <<"deisolate", "id">>}
    BY ONLY Isolate DEF Isolate, At
  <2> QED BY ONLY <2>1, <2>2, CallAt
<1> QED BY ONLY <1>1, <1>2, <1>3, <1>4

\* The addresses of the profiles are addresses.
LEMMA AddressOf ==
  ASSUME addr \in Addressing, NEW p \in Profile
  PROVE  addr[p] \in Addresses
BY DEF Addresses

\* A pinned runtime has the override it had, none of a tunnel, or the recorded one.
LEMMA PinnedRoute ==
  ASSUME TypeOK, Sane(st), xr' = IF xr.run THEN [xr EXCEPT !.sel = Pinned] ELSE [run |-> TRUE, sel |-> "none"]
  PROVE  /\ xr' \in [run : BOOLEAN, sel : Tags]
         /\ \/ xr.run /\ xr'.run /\ xr'.sel = xr.sel
            \/ xr'.sel \notin Addresses
            \/ st.kind = "awg" /\ st.conn /\ xr'.sel = st.tag
<1>1. CASE ~xr.run
  BY <1>1, ProfileAssumption DEF Tags
<1>2. CASE xr.run
  <2>1. xr' = [xr EXCEPT !.sel = Pinned]
    BY <1>2
  <2>2. xr \in [run : BOOLEAN, sel : Tags] /\ st \in States
    BY DEF TypeOK
  <2>3. Pinned \in Tags
    BY <2>2 DEF Pinned, Tags, States
  <2>4. xr'.run /\ xr'.sel = Pinned /\ xr' \in [run : BOOLEAN, sel : Tags]
    BY <1>2, <2>1, <2>2, <2>3
  <2> QED BY <1>2, <2>2, <2>4, ProfileAssumption DEF Pinned, Sane, States
<1> QED BY <1>1, <1>2

\* The runtime is started, or pinned to the recorded route.
LEMMA RuntimeStep ==
  ASSUME NEW at, NEW t, TypeOK, Reached(at, t), ensureAWGManagedRuntime
  PROVE  Inv'
<1> USE DEF Reached, Holds, Frame, OldLayout, Choice, Named, Route, Kept, Listed, NamedBy, Known, Excused, Lost, Sane,
            Connected, OtherActive, Recorded, Acting, Raising, Removing, Moving, Loading, Reloading, Importing,
            Isolated, Verifying, Configuring, Configured, Starting, Switching, Recording, Keeping, Returned, Settled,
            Erasing, Ceasing, Migrations, Connects, Checks, By, Entry, TypeOK
<1>1. CASE at = "runtime"
  <2>1. todo.call = <<"runtime", "awg">> /\ todo.next = Prog("probe", t)
    BY ONLY <1>1, VerifyingProg, DoFields, Reached(at, t) DEF Reached
  <2>0. addr[net.cfg] \in Addresses
    BY <1>1, AddressOf DEF TypeOK
  <2>2. /\ job' = [job EXCEPT !.tag = addr[net.cfg]]
        /\ todo' = Prog("probe", t) /\ UNCHANGED <<addr, index, files, legacy, st, smode, net, iso, heal, boot, owned, odd,
              faults, ops>>
    BY ONLY <1>1, <2>1, ensureAWGManagedRuntime DEF ensureAWGManagedRuntime, At, Go, Advance, disk, runtime, kept
  <2>8. xr' = IF xr.run THEN [xr EXCEPT !.sel = Pinned] ELSE [run |-> TRUE, sel |-> "none"]
    BY ONLY <1>1, <2>1, ensureAWGManagedRuntime DEF ensureAWGManagedRuntime, At, Go, Advance, disk, runtime, kept
  <2>9. /\ xr' \in [run : BOOLEAN, sel : Tags]
        /\ \/ xr.run /\ xr'.run /\ xr'.sel = xr.sel
           \/ xr'.sel \notin Addresses
           \/ st.kind = "awg" /\ st.conn /\ xr'.sel = st.tag
    BY ONLY <2>8, TypeOK, Reached(at, t), PinnedRoute DEF Reached, Holds, Frame
  <2>3. t \in Checks \cup Connects /\ Point("probe", t)
    BY ONLY <1>1, Reached(at, t), Passing DEF Reached, Checks, Connects, Migrations, Tracks, Verifying
  <2>4. TypeOK'
    BY <1>1, <2>2, <2>3, <2>9, <2>0 DEF Tags, States
  <2>5. Holds("probe", t)'
    BY <1>1, <2>2, <2>3, <2>9, <2>0
  <2> QED BY ONLY <2>2, <2>3, <2>4, <2>5 DEF Inv, Reached
<1>2. CASE at = "ready_runtime"
  <2>1. todo.call = <<"runtime", "awg">> /\ todo.next = Prog("intent", t)
    BY ONLY <1>2, StartingProg, DoFields, Reached(at, t) DEF Reached
  <2>0. addr[net.cfg] \in Addresses
    BY <1>2, AddressOf DEF TypeOK
  <2>2. /\ job' = [job EXCEPT !.tag = addr[net.cfg]]
        /\ todo' = Prog("intent", t) /\ UNCHANGED <<addr, index, files, legacy, st, smode, net, iso, heal, boot, owned,
              odd, faults, ops>>
    BY ONLY <1>2, <2>1, ensureAWGManagedRuntime DEF ensureAWGManagedRuntime, At, Go, Advance, disk, runtime, kept
  <2>8. xr' = IF xr.run THEN [xr EXCEPT !.sel = Pinned] ELSE [run |-> TRUE, sel |-> "none"]
    BY ONLY <1>2, <2>1, ensureAWGManagedRuntime DEF ensureAWGManagedRuntime, At, Go, Advance, disk, runtime, kept
  <2>9. /\ xr' \in [run : BOOLEAN, sel : Tags]
        /\ \/ xr.run /\ xr'.run /\ xr'.sel = xr.sel
           \/ xr'.sel \notin Addresses
           \/ st.kind = "awg" /\ st.conn /\ xr'.sel = st.tag
    BY ONLY <2>8, TypeOK, Reached(at, t), PinnedRoute DEF Reached, Holds, Frame
  <2>3. t \in Connects /\ Point("intent", t)
    BY ONLY <1>2, Reached(at, t), Passing DEF Reached, Checks, Connects, Migrations, Starting, Tracks
  <2>4. TypeOK'
    BY <1>2, <2>2, <2>3, <2>9, <2>0 DEF Tags, States
  <2>5. Holds("intent", t)'
    BY <1>2, <2>2, <2>3, <2>9, <2>0
  <2> QED BY ONLY <2>2, <2>3, <2>4, <2>5 DEF Inv, Reached
<1>3. CASE at = "quick_runtime"
  <2>1. todo.call = <<"runtime", "awg">> /\ todo.next = Prog("intent", t)
    BY ONLY <1>3, ConfiguredProg, DoFields, Reached(at, t) DEF Reached
  <2>0. addr[net.cfg] \in Addresses
    BY <1>3, AddressOf DEF TypeOK
  <2>2. /\ job' = [job EXCEPT !.tag = addr[net.cfg]]
        /\ todo' = Prog("intent", t) /\ UNCHANGED <<addr, index, files, legacy, st, smode, net, iso, heal, boot, owned,
              odd, faults, ops>>
    BY ONLY <1>3, <2>1, ensureAWGManagedRuntime DEF ensureAWGManagedRuntime, At, Go, Advance, disk, runtime, kept
  <2>8. xr' = IF xr.run THEN [xr EXCEPT !.sel = Pinned] ELSE [run |-> TRUE, sel |-> "none"]
    BY ONLY <1>3, <2>1, ensureAWGManagedRuntime DEF ensureAWGManagedRuntime, At, Go, Advance, disk, runtime, kept
  <2>9. /\ xr' \in [run : BOOLEAN, sel : Tags]
        /\ \/ xr.run /\ xr'.run /\ xr'.sel = xr.sel
           \/ xr'.sel \notin Addresses
           \/ st.kind = "awg" /\ st.conn /\ xr'.sel = st.tag
    BY ONLY <2>8, TypeOK, Reached(at, t), PinnedRoute DEF Reached, Holds, Frame
  <2>3. t \in {"connect", "attempt"} /\ Point("intent", t)
    BY ONLY <1>3, Reached(at, t), Passing DEF Reached, Checks, Configured, Connects, Migrations, Starting, Tracks
  <2>4. TypeOK'
    BY <1>3, <2>2, <2>3, <2>9, <2>0 DEF Tags, States
  <2>5. Holds("intent", t)'
    BY <1>3, <2>2, <2>3, <2>9, <2>0
  <2> QED BY ONLY <2>2, <2>3, <2>4, <2>5 DEF Inv, Reached
<1>4. CASE at = "ret_runtime"
  <2>1. todo.call = <<"runtime", "awg">> /\ todo.next = Prog("ret_select", t)
    BY ONLY <1>4, ReturnedProg, DoFields, Reached(at, t) DEF Reached
  <2>0. addr[net.cfg] \in Addresses
    BY <1>4, AddressOf DEF TypeOK
  <2>2. /\ job' = [job EXCEPT !.tag = addr[net.cfg]]
        /\ todo' = Prog("ret_select", t) /\ UNCHANGED <<addr, index, files, legacy, st, smode, net, iso, heal, boot, owned,
              odd, faults, ops>>
    BY ONLY <1>4, <2>1, ensureAWGManagedRuntime DEF ensureAWGManagedRuntime, At, Go, Advance, disk, runtime, kept
  <2>8. xr' = IF xr.run THEN [xr EXCEPT !.sel = Pinned] ELSE [run |-> TRUE, sel |-> "none"]
    BY ONLY <1>4, <2>1, ensureAWGManagedRuntime DEF ensureAWGManagedRuntime, At, Go, Advance, disk, runtime, kept
  <2>9. /\ xr' \in [run : BOOLEAN, sel : Tags]
        /\ \/ xr.run /\ xr'.run /\ xr'.sel = xr.sel
           \/ xr'.sel \notin Addresses
           \/ st.kind = "awg" /\ st.conn /\ xr'.sel = st.tag
    BY ONLY <2>8, TypeOK, Reached(at, t), PinnedRoute DEF Reached, Holds, Frame
  <2>3. t \in {"attempt"} /\ Point("ret_select", t)
    BY ONLY <1>4, Reached(at, t), Passing DEF Reached, Checks, Connects, Migrations, Returned, Tracks
  <2>4. TypeOK'
    BY <1>4, <2>2, <2>3, <2>9, <2>0 DEF Tags, States
  <2>5. Holds("ret_select", t)'
    BY <1>4, <2>2, <2>3, <2>9, <2>0
  <2> QED BY ONLY <2>2, <2>3, <2>4, <2>5 DEF Inv, Reached
<1>5. CASE at = "iso_runtime"
  <2>1. todo.call = <<"runtime", "iso">> /\ todo.next = Prog("iso_probe", t)
    BY ONLY <1>5, IsolatedProg, DoFields, Reached(at, t) DEF Reached
  <2>2. todo' = Prog("iso_probe", t) /\ UNCHANGED <<addr, index, files, legacy, st, smode, net, iso, job, heal, boot,
              owned, odd, faults, ops>>
    BY ONLY <1>5, <2>1, ensureAWGManagedRuntime DEF ensureAWGManagedRuntime, At, Go, Advance, disk, runtime, kept
  <2>8. xr' = IF xr.run THEN [xr EXCEPT !.sel = Pinned] ELSE [run |-> TRUE, sel |-> "none"]
    BY ONLY <1>5, <2>1, ensureAWGManagedRuntime DEF ensureAWGManagedRuntime, At, Go, Advance, disk, runtime, kept
  <2>9. /\ xr' \in [run : BOOLEAN, sel : Tags]
        /\ \/ xr.run /\ xr'.run /\ xr'.sel = xr.sel
           \/ xr'.sel \notin Addresses
           \/ st.kind = "awg" /\ st.conn /\ xr'.sel = st.tag
    BY ONLY <2>8, TypeOK, Reached(at, t), PinnedRoute DEF Reached, Holds, Frame
  <2>3. t \in Checks \cup {"connect"} /\ Point("iso_probe", t)
    BY ONLY <1>5, Reached(at, t), Passing DEF Reached, Checks, Connects, Isolated, Migrations, Tracks
  <2>4. TypeOK'
    BY <1>5, <2>2, <2>3, <2>9 DEF Tags, States
  <2>5. Holds("iso_probe", t)'
    BY <1>5, <2>2, <2>3, <2>9
  <2> QED BY ONLY <2>2, <2>3, <2>4, <2>5 DEF Inv, Reached
<1>6. at \in {"runtime", "ready_runtime", "quick_runtime", "ret_runtime", "iso_runtime"}
  <2>1. todo.call = Call(at, t)
    BY ONLY Reached(at, t), ProgCall DEF Reached
  <2>2. todo.call \in {<<"runtime", "awg">>, <<"runtime", "iso">>}
    BY ONLY ensureAWGManagedRuntime DEF ensureAWGManagedRuntime, At
  <2> QED BY ONLY <2>1, <2>2, CallAt
<1> QED BY ONLY <1>1, <1>2, <1>3, <1>4, <1>5, <1>6

\* The transport is restarted or stopped.
LEMMA RestartStep ==
  ASSUME NEW at, NEW t, TypeOK, Reached(at, t), Restart
  PROVE  Inv'
<1> USE DEF Reached, Holds, Frame, OldLayout, Choice, Named, Route, Kept, Listed, NamedBy, Known, Excused, Lost, Sane,
            Connected, OtherActive, Recorded, Acting, Raising, Removing, Moving, Loading, Reloading, Importing,
            Isolated, Verifying, Configuring, Configured, Starting, Switching, Recording, Keeping, Returned, Settled,
            Erasing, Ceasing, Migrations, Connects, Checks, By, Entry, TypeOK
<1>1. CASE at = "reload"
  <2>1. todo.call = <<"reload", "xray">> /\ todo.next = Prog("load", t)
    BY ONLY <1>1, ReloadingProg, DoFields, Reached(at, t) DEF Reached
  <2>2. /\ xr' = [run |-> TRUE, sel |-> "none"]
        /\ todo' = Prog("load", t) /\ UNCHANGED <<addr, index, files, legacy, st, smode, net, iso, job, heal, boot, owned,
              odd, faults, ops>>
    BY ONLY <1>1, <2>1, Restart DEF Restart, At, Go, Advance, disk, runtime, kept
  <2>3. t \in {"reapply"} /\ Point("load", t)
    BY ONLY <1>1, Reached(at, t), Passing DEF Reached, Checks, Connects, Loading, Migrations, Reloading, Tracks
  <2>4. TypeOK'
    BY <1>1, <2>2, <2>3 DEF Tags, Stopped
  <2>5. Holds("load", t)'
    BY <1>1, <2>2, <2>3, ProfileAssumption DEF Stopped
  <2> QED BY ONLY <2>2, <2>3, <2>4, <2>5 DEF Inv, Reached
<1>2. CASE at = "start"
  <2>1. todo.call = <<"start", "node">> /\ todo.next = Prog("end", t)
    BY ONLY <1>2, RestoringProg, DoFields, Reached(at, t), ProgAt DEF Reached
  <2>2. /\ xr' = [run |-> TRUE, sel |-> "node"]
        /\ todo' = Prog("end", t) /\ UNCHANGED <<addr, index, files, legacy, st, smode, net, iso, job, heal, boot, owned,
              odd, faults, ops>>
    BY ONLY <1>2, <2>1, Restart DEF Restart, At, Go, Advance, disk, runtime, kept
  <2>3. t \in {"restore"} /\ Point("end", t)
    BY ONLY <1>2, Reached(at, t), Passing DEF Reached, Checks, Connects, Migrations, Restoring, Tracks
  <2>4. TypeOK'
    BY <1>2, <2>2, <2>3 DEF Tags, Stopped
  <2>5. Holds("end", t)'
    BY <1>2, <2>2, <2>3, ProfileAssumption DEF Stopped
  <2> QED BY ONLY <2>2, <2>3, <2>4, <2>5 DEF Inv, Reached
<1>3. CASE at = "stop"
  <2>1. todo.call = <<"stop", "xray">> /\ todo.next = Prog("end", t)
    BY ONLY <1>3, RestoringProg, DoFields, Reached(at, t), ProgAt DEF Reached
  <2>2. /\ xr' = Stopped
        /\ todo' = Prog("end", t) /\ UNCHANGED <<addr, index, files, legacy, st, smode, net, iso, job, heal, boot, owned,
              odd, faults, ops>>
    BY ONLY <1>3, <2>1, Restart DEF Restart, At, Go, Advance, disk, runtime, kept
  <2>3. t \in {"restore"} /\ Point("end", t)
    BY ONLY <1>3, Reached(at, t), Passing DEF Reached, Checks, Connects, Migrations, Restoring, Tracks
  <2>4. TypeOK'
    BY <1>3, <2>2, <2>3 DEF Tags, Stopped
  <2>5. Holds("end", t)'
    BY <1>3, <2>2, <2>3, ProfileAssumption DEF Stopped
  <2> QED BY ONLY <2>2, <2>3, <2>4, <2>5 DEF Inv, Reached
<1>4. CASE at = "fail_stop"
  <2>1. todo.call = <<"stop", "xray">> /\ todo.next = Prog("fail_save", t)
    BY ONLY <1>4, RestoringProg, DoFields, Reached(at, t) DEF Reached
  <2>2. /\ xr' = Stopped
        /\ todo' = Prog("fail_save", t) /\ UNCHANGED <<addr, index, files, legacy, st, smode, net, iso, job, heal, boot,
              owned, odd, faults, ops>>
    BY ONLY <1>4, <2>1, Restart DEF Restart, At, Go, Advance, disk, runtime, kept
  <2>3. t \in {"restore"} /\ Point("fail_save", t)
    BY ONLY <1>4, Reached(at, t), Passing DEF Reached, Checks, Connects, Migrations, Restoring, Tracks
  <2>4. TypeOK'
    BY <1>4, <2>2, <2>3 DEF Tags, Stopped
  <2>5. Holds("fail_save", t)'
    BY <1>4, <2>2, <2>3, ProfileAssumption DEF Stopped
  <2> QED BY ONLY <2>2, <2>3, <2>4, <2>5 DEF Inv, Reached
<1>5. at \in {"reload", "start", "stop", "fail_stop"}
  <2>1. todo.call = Call(at, t)
    BY ONLY Reached(at, t), ProgCall DEF Reached
  <2>2. todo.call \in {<<"reload", "xray">>, <<"start", "node">>, <<"stop", "xray">>}
    BY ONLY Restart DEF Restart, At
  <2> QED BY ONLY <2>1, <2>2, CallAt
<1> QED BY ONLY <1>1, <1>2, <1>3, <1>4, <1>5

\* A probe is made.
LEMMA ProbeStep ==
  ASSUME NEW at, NEW t, TypeOK, Reached(at, t), Probe
  PROVE  Inv'
<1> USE DEF Reached, Holds, Frame, OldLayout, Choice, Named, Route, Kept, Listed, NamedBy, Known, Excused, Lost, Sane,
            Connected, OtherActive, Recorded, Acting, Raising, Removing, Moving, Loading, Reloading, Importing,
            Isolated, Verifying, Configuring, Configured, Starting, Switching, Recording, Keeping, Returned, Settled,
            Erasing, Ceasing, Migrations, Connects, Checks, By, Entry, TypeOK
<1>1. CASE at = "probe"
  <2>1. todo.call = <<"probe", "awg">> /\ todo.next = Prog("note", t)
    BY ONLY <1>1, VerifyingProg, DoFields, Reached(at, t) DEF Reached
  <2>2. /\ (\E ok \in BOOLEAN : job' = [job EXCEPT !.ok = ok])
        /\ todo' = Prog("note", t) /\ UNCHANGED <<addr, index, files, legacy, st, smode, net, iso, xr, heal, boot, owned,
              odd, faults, ops>>
    BY ONLY <1>1, <2>1, Probe DEF Probe, At, Go, Advance, disk, runtime, kept
  <2>3. t \in Checks \cup Connects /\ Point("note", t)
    BY ONLY <1>1, Reached(at, t), Passing DEF Reached, Checks, Connects, Migrations, Tracks, Verifying
  <2>4. TypeOK'
    BY <1>1, <2>2, <2>3
  <2>5. Holds("note", t)'
    BY <1>1, <2>2, <2>3
  <2> QED BY ONLY <2>2, <2>3, <2>4, <2>5 DEF Inv, Reached
<1>2. CASE at = "iso_probe"
  <2>1. todo.call = <<"probe", "iso">> /\ todo.next = Prog("iso_note", t)
    BY ONLY <1>2, IsolatedProg, DoFields, Reached(at, t) DEF Reached
  <2>2. /\ (\E ok \in BOOLEAN : job' = [job EXCEPT !.ok = ok])
        /\ todo' = Prog("iso_note", t) /\ UNCHANGED <<addr, index, files, legacy, st, smode, net, iso, xr, heal, boot,
              owned, odd, faults, ops>>
    BY ONLY <1>2, <2>1, Probe DEF Probe, At, Go, Advance, disk, runtime, kept
  <2>3. t \in Checks \cup {"connect"} /\ Point("iso_note", t)
    BY ONLY <1>2, Reached(at, t), Passing DEF Reached, Checks, Connects, Isolated, Migrations, Tracks
  <2>4. TypeOK'
    BY <1>2, <2>2, <2>3
  <2>5. Holds("iso_note", t)'
    BY <1>2, <2>2, <2>3
  <2> QED BY ONLY <2>2, <2>3, <2>4, <2>5 DEF Inv, Reached
<1>3. at \in {"probe", "iso_probe"}
  <2>1. todo.call = Call(at, t)
    BY ONLY Reached(at, t), ProgCall DEF Reached
  <2>2. todo.call \in {<<"probe", "awg">>, <<"probe", "iso">>}
    BY ONLY Probe DEF Probe, At
  <2> QED BY ONLY <2>1, <2>2, CallAt
<1> QED BY ONLY <1>1, <1>2, <1>3

\* The mode is saved.
LEMMA SettingsStep ==
  ASSUME NEW at, NEW t, TypeOK, Reached(at, t), SaveSettings
  PROVE  Inv'
<1> USE DEF Reached, Holds, Frame, OldLayout, Choice, Named, Route, Kept, Listed, NamedBy, Known, Excused, Lost, Sane,
            Connected, OtherActive, Recorded, Acting, Raising, Removing, Moving, Loading, Reloading, Importing,
            Isolated, Verifying, Configuring, Configured, Starting, Switching, Recording, Keeping, Returned, Settled,
            Erasing, Ceasing, Migrations, Connects, Checks, By, Entry, TypeOK
<1>1. CASE at = "mode"
  <2>1. todo.call = <<"settings", "job">> /\ todo.next = Prog("end", t)
    BY ONLY <1>1, RecordingProg, DoFields, Reached(at, t), ProgAt DEF Reached
  <2>2. /\ smode' = job.mode
        /\ todo' = Prog("end", t) /\ UNCHANGED <<addr, index, files, legacy, st, net, iso, xr, job, heal, boot, owned, odd,
              faults, ops>>
    BY ONLY <1>1, <2>1, SaveSettings DEF SaveSettings, At, Go, Advance, disk, runtime, kept
  <2>3. t \in Connects /\ Point("end", t)
    BY ONLY <1>1, Reached(at, t), Passing DEF Reached, Checks, Connects, Migrations, Recording, Tracks
  <2>4. TypeOK'
    BY <1>1, <2>2, <2>3 DEF Modes, States
  <2>5. Holds("end", t)'
    BY <1>1, <2>2, <2>3
  <2> QED BY ONLY <2>2, <2>3, <2>4, <2>5 DEF Inv, Reached
<1>2. CASE at = "end_mode"
  <2>1. todo.call = <<"settings", "off">> /\ todo.next = Ended(t)
    BY ONLY <1>2, EndingProg, DoFields, Reached(at, t) DEF Reached
  <2>2. /\ smode' = "disconnected"
        /\ todo' = Ended(t) /\ UNCHANGED <<addr, index, files, legacy, st, net, iso, xr, job, heal, boot, owned, odd,
              faults, ops>>
    BY ONLY <1>2, <2>1, SaveSettings DEF SaveSettings, At, Go, Advance, disk, runtime, kept
  <2>3. t \in {"disconnect", "attempt"}
    BY ONLY <1>2, Reached(at, t), Passing DEF Reached, Ending
  <2>4. TypeOK'
    BY <1>2, <2>2, <2>3 DEF Modes, States
  <2>5. CASE t = "attempt"
    <3>1. todo' = Prog("load", t)
      BY ONLY <2>2, <2>5, <2>3, BranchProg, ProgAt DEF Connects, Checks, Migrations
    <3>2. Point("load", t)
      BY ONLY <2>5, <2>3, Passing DEF Checks, Connects, Loading, Migrations, Tracks
    <3>3. Holds("load", t)'
      BY <1>2, <2>2, <2>3, <2>5
    <3> QED BY ONLY <2>4, <3>1, <3>2, <3>3 DEF Inv, Reached
  <2>6. CASE t # "attempt"
    <3>1. todo' = Prog("end", t)
      BY ONLY <2>2, <2>6, <2>3, BranchProg, ProgAt DEF Connects, Checks, Migrations
    <3>2. Point("end", t)
      BY ONLY <2>6, <2>3, Passing DEF Checks, Connects, Migrations, Tracks
    <3>3. Holds("end", t)'
      BY <1>2, <2>2, <2>3, <2>6
    <3> QED BY ONLY <2>4, <3>1, <3>2, <3>3 DEF Inv, Reached
  <2> QED BY ONLY <2>3, <2>5, <2>6 DEF Connects, Checks
<1>3. CASE at = "rm_mode"
  <2>1. todo.call = <<"settings", "off">> /\ todo.next = Prog("end", t)
    BY ONLY <1>3, CeasingProg, DoFields, Reached(at, t), ProgAt DEF Reached
  <2>2. /\ smode' = "disconnected"
        /\ todo' = Prog("end", t) /\ UNCHANGED <<addr, index, files, legacy, st, net, iso, xr, job, heal, boot, owned, odd,
              faults, ops>>
    BY ONLY <1>3, <2>1, SaveSettings DEF SaveSettings, At, Go, Advance, disk, runtime, kept
  <2>3. t \in {"active"} /\ Point("end", t)
    BY ONLY <1>3, Reached(at, t), Passing DEF Reached, Ceasing, Checks, Connects, Migrations, Tracks
  <2>4. TypeOK'
    BY <1>3, <2>2, <2>3 DEF Modes, States
  <2>5. Holds("end", t)'
    BY <1>3, <2>2, <2>3
  <2> QED BY ONLY <2>2, <2>3, <2>4, <2>5 DEF Inv, Reached
<1>4. CASE at = "ret_mode"
  <2>1. todo.call = <<"settings", "orig">> /\ todo.next = Prog("end", t)
    BY ONLY <1>4, SettledProg, DoFields, Reached(at, t), ProgAt DEF Reached
  <2>2. /\ smode' = job.orig.mode
        /\ todo' = Prog("end", t) /\ UNCHANGED <<addr, index, files, legacy, st, net, iso, xr, job, heal, boot, owned, odd,
              faults, ops>>
    BY ONLY <1>4, <2>1, SaveSettings DEF SaveSettings, At, Go, Advance, disk, runtime, kept
  <2>3. t \in {"attempt"} /\ Point("end", t)
    BY ONLY <1>4, Reached(at, t), Passing DEF Reached, Checks, Connects, Migrations, Settled, Tracks
  <2>4. TypeOK'
    BY <1>4, <2>2, <2>3 DEF Modes, States
  <2>5. Holds("end", t)'
    BY <1>4, <2>2, <2>3
  <2> QED BY ONLY <2>2, <2>3, <2>4, <2>5 DEF Inv, Reached
<1>5. at \in {"mode", "end_mode", "rm_mode", "ret_mode"}
  <2>1. todo.call = Call(at, t)
    BY ONLY Reached(at, t), ProgCall DEF Reached
  <2>2. todo.call \in {<<"settings", "job">>, <<"settings", "off">>, <<"settings", "orig">>}
    BY ONLY SaveSettings DEF SaveSettings, At
  <2> QED BY ONLY <2>1, <2>2, CallAt
<1> QED BY ONLY <1>1, <1>2, <1>3, <1>4, <1>5

\* The watch counts its confirmations.
LEMMA HealedStep ==
  ASSUME NEW at, NEW t, TypeOK, Reached(at, t), Healed
  PROVE  Inv'
<1> USE DEF Reached, Holds, Frame, OldLayout, Choice, Named, Route, Kept, Listed, NamedBy, Known, Excused, Lost, Sane,
            Connected, OtherActive, Recorded, Acting, Raising, Removing, Moving, Loading, Reloading, Importing,
            Isolated, Verifying, Configuring, Configured, Starting, Switching, Recording, Keeping, Returned, Settled,
            Erasing, Ceasing, Migrations, Connects, Checks, By, Entry, TypeOK
<1>1. CASE at = "on"
  <2>1. todo.call = <<"heal", "on">> /\ todo.next = Prog("end", t)
    BY ONLY <1>1, HealingProg, DoFields, Reached(at, t), ProgAt DEF Reached
  <2>2. /\ heal' = heal + 1
        /\ todo' = Prog("end", t) /\ UNCHANGED <<addr, index, files, legacy, st, smode, net, iso, xr, job, boot, owned,
              odd, faults, ops>>
    BY ONLY <1>1, <2>1, Healed DEF Healed, At, Go, Advance, disk, runtime, kept
  <2>3. t \in {"heal"} /\ Point("end", t)
    BY ONLY <1>1, Reached(at, t), Passing DEF Reached, Checks, Connects, Healing, Migrations, Tracks
  <2>4. TypeOK'
    BY <1>1, <2>2, <2>3
  <2>5. Holds("end", t)'
    BY <1>1, <2>2, <2>3
  <2> QED BY ONLY <2>2, <2>3, <2>4, <2>5 DEF Inv, Reached
<1>2. CASE at = "off"
  <2>1. todo.call = <<"heal", "off">> /\ todo.next = Prog("end", t)
    BY ONLY <1>2, HealingProg, DoFields, Reached(at, t), ProgAt DEF Reached
  <2>2. /\ heal' = 0
        /\ todo' = Prog("end", t) /\ UNCHANGED <<addr, index, files, legacy, st, smode, net, iso, xr, job, boot, owned,
              odd, faults, ops>>
    BY ONLY <1>2, <2>1, Healed DEF Healed, At, Go, Advance, disk, runtime, kept
  <2>3. t \in {"heal"} /\ Point("end", t)
    BY ONLY <1>2, Reached(at, t), Passing DEF Reached, Checks, Connects, Healing, Migrations, Tracks
  <2>4. TypeOK'
    BY <1>2, <2>2, <2>3
  <2>5. Holds("end", t)'
    BY <1>2, <2>2, <2>3
  <2> QED BY ONLY <2>2, <2>3, <2>4, <2>5 DEF Inv, Reached
<1>3. at \in {"on", "off"}
  <2>1. todo.call = Call(at, t)
    BY ONLY Reached(at, t), ProgCall DEF Reached
  <2>2. todo.call \in {<<"heal", "on">>, <<"heal", "off">>}
    BY ONLY Healed DEF Healed, At
  <2> QED BY ONLY <2>1, <2>2, CallAt
<1> QED BY ONLY <1>1, <1>2, <1>3

-------------------------------------------------------------------------------
(* Steps that fail. *)

\* A call that fails leaves the interface as it is, or without the profile it has just
\* been given, and leaves behind what the history records.
Falls(at) ==
    /\ todo' = todo.err /\ odd \cup Unrestored \subseteq odd' /\ odd' \subseteq {"cut", "unrestored", "dangling",
          "overtaken"}
    /\ net' \in [cfg : Profile \cup {None}, up : BOOLEAN, rule : BOOLEAN] /\ (net'.up => net.up /\ net'.cfg = net.cfg)
    /\ \/ net'.cfg = net.cfg
       \/ at = "configure" /\ net'.cfg = job.id
       \/ at = "ret_configure"
    /\ at \in {"prepared", "configure"} => net'.cfg \in {None, st.prepared, legacy} \/ "cut" \in odd'
    /\ at = "rm_unlist" => "dangling" \in odd'
    /\ at = "undo" => ~xr.run \/ "cut" \in odd'
    /\ UNCHANGED <<addr, index, files, legacy, st, smode, iso, xr, job, heal, boot, owned>>
    /\ faults' \in 0..MaxFaults /\ ops' = ops

\* Where a failing call may lead, and from where.
LEMMA ErrFrom ==
  ASSUME NEW at, NEW t, Point(at, t)
  PROVE  /\ Err(at, t) \in {"end", "off", "open_select", "ret_profile", "fail_stop", "back", "undo", "ask_require",
                             "ask_ifup", "iso_fail", "new_unlink", "unlink"}
         /\ Err(at, t) = "off" => t = "heal"
         /\ Err(at, t) \in {"open_select", "fail_stop"} => t = "restore"
         /\ Err(at, t) = "ret_profile" => t = "attempt" /\ at \notin Returned \cup Settled \cup Returning \cup Recording
         /\ Err(at, t) = "back" => at \in {"select", "undo"}
         /\ Err(at, t) = "undo" => at \in {"egress", "connected"}
         /\ Err(at, t) = "ask_require" => at = "ready_runtime"
         /\ Err(at, t) = "ask_ifup" => at = "quick_runtime"
         /\ Err(at, t) = "iso_fail" => at \in Isolated \ {"iso_fail", "iso_end"}
         /\ Err(at, t) = "new_unlink" => at = "new_list"
         /\ Err(at, t) = "unlink" => at = "list"
<1>1. Err(at, t) \in {"end", "off", "open_select", "ret_profile", "fail_stop", "back", "undo", "ask_require", "ask_ifup",
                          "iso_fail", "new_unlink", "unlink"}
  BY Zenon DEF Err, Entry
<1>2. Err(at, t) = "off" => t = "heal"
  BY Zenon DEF Err, Entry
<1>3. Err(at, t) \in {"open_select", "fail_stop"} => t = "restore"
  <2>1. Err(at, t) = "open_select" => t = "restore"
    BY Zenon DEF Err, Entry
  <2>2. Err(at, t) = "fail_stop" => t = "restore" \/ at = "start"
    BY Zenon DEF Err, Entry
  <2>3. at = "start" => t = "restore"
    BY Passing DEF Restoring
  <2> QED BY <2>1, <2>2, <2>3
<1>4. Err(at, t) = "ret_profile" => t = "attempt" /\ at \notin Returned \cup Settled \cup Returning \cup Recording
  <2>1. Err(at, t) = "ret_profile" => t = "attempt"
    BY Zenon DEF Err, Entry
  <2>2. at \in Returned \cup Settled \cup Returning \cup Recording => Err(at, t) = "end"
    BY Zenon DEF Err, Returned, Settled, Returning, Recording
  <2> QED BY <2>1, <2>2
<1>5. Err(at, t) = "back" => at \in {"select", "undo"}
  BY Zenon DEF Err, Entry
<1>6. Err(at, t) = "undo" => at \in {"egress", "connected"}
  BY Zenon DEF Err, Entry
<1>7. Err(at, t) = "ask_require" => at = "ready_runtime"
  BY Zenon DEF Err, Entry
<1>8. Err(at, t) = "ask_ifup" => at = "quick_runtime"
  BY Zenon DEF Err, Entry
<1>9. Err(at, t) = "iso_fail" => at \in Isolated \ {"iso_fail", "iso_end"}
  BY Zenon DEF Err, Entry, Isolated
<1>10. Err(at, t) = "new_unlink" => at = "new_list"
  BY Zenon DEF Err, Entry
<1>11. Err(at, t) = "unlink" => at = "list"
  BY Zenon DEF Err, Entry
<1> QED BY ONLY <1>1, <1>2, <1>3, <1>4, <1>5, <1>6, <1>7, <1>8, <1>9, <1>10, <1>11

\* A call that fails keeps the invariant: what it leaves behind is allowed, excused by the
\* history, or undone by the program that it goes to.
LEMMA Failing ==
  ASSUME NEW at, NEW t, TypeOK, Reached(at, t), at # "end", Falls(at)
  PROVE  Inv'
<1> DEFINE e == Err(at, t)
<1>1. todo' = Prog(e, t) /\ Point(e, t)
  BY ONLY Reached(at, t), at # "end", Falls(at), ProgErr DEF Reached, Falls
<1>2. TypeOK'
  BY DEF TypeOK, Falls
<1>3. t = "attempt" /\ e = "end" => "unrestored" \in odd'
  BY <1>1, ProgAt, ProgErr DEF Falls, Unrestored, Reached, Holds, Frame
<1>4. at # "end" /\ Point(at, t) /\ Holds(at, t)
  BY DEF Reached
<1> HIDE DEF e
<1>5. e \in {"end", "off", "open_select", "ret_profile", "fail_stop", "back", "undo", "ask_require", "ask_ifup",
          "iso_fail", "new_unlink", "unlink"}
  BY ONLY <1>4, ErrFrom DEF e
<1>6. ASSUME e \in {"end", "off", "open_select", "ret_profile", "fail_stop"} PROVE Holds(e, t)'
  <2>0. /\ e = "off" => t = "heal"
        /\ e \in {"open_select", "fail_stop"} => t = "restore"
        /\ e = "ret_profile" => t = "attempt" /\ at \notin Returned \cup Settled \cup Returning \cup Recording
    BY ONLY <1>4, ErrFrom DEF e
  <2>8. /\ at \in Returned \cup Settled \cup Returning => t = "attempt" /\ "unrestored" \in odd'
        /\ at \in Configuring => t \in {"connect", "attempt"}
    <3>1. at \in Returned \cup Settled \cup Returning => e = "end"
      BY ONLY Zenon DEF e, Err, Returned, Settled, Returning
    <3> QED BY ONLY <1>3, <1>4, <3>1, Passing
  <2>1. Frame(e, t)'
    BY <1>3, <1>4, <1>6, <2>0, <2>8 DEF Falls, Holds, Frame, Sane, By, Acting, Raising, Removing, Moving, Loading,
       Reloading, Importing, Isolated, Verifying, Configuring, Configured,
            Starting, Switching, Recording, Keeping, Returning, Returned, Settled, Erasing, Ceasing
  <2>2. OldLayout(e, t)'
    BY <1>3, <1>4, <1>6, <2>0, <2>8 DEF Falls, Holds, OldLayout, Frame, Connected, Acting, Raising, Removing, Moving,
       Loading, Reloading, Importing, Isolated, Verifying, Configuring, Configured,
            Starting, Switching, Recording, Keeping, Returning, Returned, Settled, Erasing, Ceasing
  <2>3. Choice(e, t)'
    BY <1>3, <1>4, <1>6, <2>0, <2>8 DEF Falls, Holds, Choice, Connected, OtherActive, Frame, Acting, Raising, Removing,
       Moving, Loading, Reloading, Importing, Isolated, Verifying, Configuring, Configured,
            Starting, Switching, Recording, Keeping, Returning, Returned, Settled, Erasing, Ceasing
  <2>4. Named(e, t)'
    BY <1>3, <1>4, <1>6, <2>0, <2>8 DEF Falls, Holds, Named, Lost, NamedBy, Connected, OtherActive, Choice, OldLayout,
       Connects, Acting, Raising, Removing, Moving, Loading, Reloading, Importing, Isolated, Verifying, Configuring,
       Configured,
            Starting, Switching, Recording, Keeping, Returning, Returned, Settled, Erasing, Ceasing
  <2>5. Route(e, t)'
    BY <1>3, <1>4, <1>6, <2>0, <2>8 DEF Falls, Holds, Route, Known, Excused, Recorded, Frame, Sane, Acting, Raising,
       Removing, Moving, Loading, Reloading, Importing, Isolated, Verifying, Configuring, Configured,
            Starting, Switching, Recording, Keeping, Returning, Returned, Settled, Erasing, Ceasing
  <2>6. Kept(e, t)'
    BY <1>3, <1>4, <1>6, <2>0, <2>8 DEF Falls, Holds, Kept, By, Frame, Acting, Raising, Removing, Moving, Loading,
       Reloading, Importing, Isolated, Verifying, Configuring, Configured,
            Starting, Switching, Recording, Keeping, Returning, Returned, Settled, Erasing, Ceasing
  <2>7. Listed(e, t)'
    BY <1>3, <1>4, <1>6, <2>0, <2>8 DEF Falls, Holds, Listed, Acting, Raising, Removing, Moving, Loading, Reloading,
       Importing, Isolated, Verifying, Configuring, Configured,
            Starting, Switching, Recording, Keeping, Returning, Returned, Settled, Erasing, Ceasing
  <2> QED BY ONLY <2>1, <2>2, <2>3, <2>4, <2>5, <2>6, <2>7 DEF Holds
<1>7. ASSUME e = "back" PROVE Holds(e, t)'
  <2>0. at \in {"select", "undo"}
    BY ONLY <1>7, <1>4, ErrFrom DEF e
  <2>1. Frame(e, t)'
    BY <1>3, <1>4, <1>7, <2>0 DEF Falls, Holds, Frame, Sane, By, Acting, Raising, Removing, Moving, Loading, Reloading,
       Importing, Isolated, Verifying, Configuring, Configured,
            Starting, Switching, Recording, Keeping, Returned, Settled, Erasing, Ceasing
  <2>2. OldLayout(e, t)'
    BY <1>3, <1>4, <1>7, <2>0 DEF Falls, Holds, OldLayout, Frame, Connected, Acting, Raising, Removing, Moving, Loading,
       Reloading, Importing, Isolated, Verifying, Configuring, Configured,
            Starting, Switching, Recording, Keeping, Returned, Settled, Erasing, Ceasing
  <2>3. Choice(e, t)'
    BY <1>3, <1>4, <1>7, <2>0 DEF Falls, Holds, Choice, Connected, OtherActive, Frame, Acting, Raising, Removing, Moving,
       Loading, Reloading, Importing, Isolated, Verifying, Configuring, Configured,
            Starting, Switching, Recording, Keeping, Returned, Settled, Erasing, Ceasing
  <2>4. Named(e, t)'
    BY <1>3, <1>4, <1>7, <2>0 DEF Falls, Holds, Named, Lost, NamedBy, Connected, OtherActive, Choice, OldLayout, Connects,
       Acting, Raising, Removing, Moving, Loading, Reloading, Importing, Isolated, Verifying, Configuring, Configured,
            Starting, Switching, Recording, Keeping, Returned, Settled, Erasing, Ceasing
  <2>5. Route(e, t)'
    BY <1>3, <1>4, <1>7, <2>0 DEF Falls, Holds, Route, Known, Excused, Recorded, Frame, Sane, Acting, Raising, Removing,
       Moving, Loading, Reloading, Importing, Isolated, Verifying, Configuring, Configured,
            Starting, Switching, Recording, Keeping, Returned, Settled, Erasing, Ceasing
  <2>6. Kept(e, t)'
    BY <1>3, <1>4, <1>7, <2>0 DEF Falls, Holds, Kept, By, Frame, Acting, Raising, Removing, Moving, Loading, Reloading,
       Importing, Isolated, Verifying, Configuring, Configured,
            Starting, Switching, Recording, Keeping, Returned, Settled, Erasing, Ceasing
  <2>7. Listed(e, t)'
    BY <1>3, <1>4, <1>7, <2>0 DEF Falls, Holds, Listed, Acting, Raising, Removing, Moving, Loading, Reloading, Importing,
       Isolated, Verifying, Configuring, Configured,
            Starting, Switching, Recording, Keeping, Returned, Settled, Erasing, Ceasing
  <2> QED BY ONLY <2>1, <2>2, <2>3, <2>4, <2>5, <2>6, <2>7 DEF Holds
<1>8. ASSUME e = "undo" PROVE Holds(e, t)'
  <2>0. at \in {"egress", "connected"}
    BY ONLY <1>8, <1>4, ErrFrom DEF e
  <2>1. Frame(e, t)'
    BY <1>3, <1>4, <1>8, <2>0 DEF Falls, Holds, Frame, Sane, By, Acting, Raising, Removing, Moving, Loading, Reloading,
       Importing, Isolated, Verifying, Configuring, Configured,
            Starting, Switching, Recording, Keeping, Returned, Settled, Erasing, Ceasing
  <2>2. OldLayout(e, t)'
    BY <1>3, <1>4, <1>8, <2>0 DEF Falls, Holds, OldLayout, Frame, Connected, Acting, Raising, Removing, Moving, Loading,
       Reloading, Importing, Isolated, Verifying, Configuring, Configured,
            Starting, Switching, Recording, Keeping, Returned, Settled, Erasing, Ceasing
  <2>3. Choice(e, t)'
    BY <1>3, <1>4, <1>8, <2>0 DEF Falls, Holds, Choice, Connected, OtherActive, Frame, Acting, Raising, Removing, Moving,
       Loading, Reloading, Importing, Isolated, Verifying, Configuring, Configured,
            Starting, Switching, Recording, Keeping, Returned, Settled, Erasing, Ceasing
  <2>4. Named(e, t)'
    BY <1>3, <1>4, <1>8, <2>0 DEF Falls, Holds, Named, Lost, NamedBy, Connected, OtherActive, Choice, OldLayout, Connects,
       Acting, Raising, Removing, Moving, Loading, Reloading, Importing, Isolated, Verifying, Configuring, Configured,
            Starting, Switching, Recording, Keeping, Returned, Settled, Erasing, Ceasing
  <2>5. Route(e, t)'
    BY <1>3, <1>4, <1>8, <2>0 DEF Falls, Holds, Route, Known, Excused, Recorded, Frame, Sane, Acting, Raising, Removing,
       Moving, Loading, Reloading, Importing, Isolated, Verifying, Configuring, Configured,
            Starting, Switching, Recording, Keeping, Returned, Settled, Erasing, Ceasing
  <2>6. Kept(e, t)'
    BY <1>3, <1>4, <1>8, <2>0 DEF Falls, Holds, Kept, By, Frame, Acting, Raising, Removing, Moving, Loading, Reloading,
       Importing, Isolated, Verifying, Configuring, Configured,
            Starting, Switching, Recording, Keeping, Returned, Settled, Erasing, Ceasing
  <2>7. Listed(e, t)'
    BY <1>3, <1>4, <1>8, <2>0 DEF Falls, Holds, Listed, Acting, Raising, Removing, Moving, Loading, Reloading, Importing,
       Isolated, Verifying, Configuring, Configured,
            Starting, Switching, Recording, Keeping, Returned, Settled, Erasing, Ceasing
  <2> QED BY ONLY <2>1, <2>2, <2>3, <2>4, <2>5, <2>6, <2>7 DEF Holds
<1>9. ASSUME e = "ask_require" PROVE Holds(e, t)'
  <2>0. at = "ready_runtime"
    BY ONLY <1>9, <1>4, ErrFrom DEF e
  <2>1. Frame(e, t)'
    BY <1>3, <1>4, <1>9, <2>0 DEF Falls, Holds, Frame, Sane, By, Acting, Raising, Removing, Moving, Loading, Reloading,
       Importing, Isolated, Verifying, Configuring, Configured,
            Starting, Switching, Recording, Keeping, Returned, Settled, Erasing, Ceasing
  <2>2. OldLayout(e, t)'
    BY <1>3, <1>4, <1>9, <2>0 DEF Falls, Holds, OldLayout, Frame, Connected, Acting, Raising, Removing, Moving, Loading,
       Reloading, Importing, Isolated, Verifying, Configuring, Configured,
            Starting, Switching, Recording, Keeping, Returned, Settled, Erasing, Ceasing
  <2>3. Choice(e, t)'
    BY <1>3, <1>4, <1>9, <2>0 DEF Falls, Holds, Choice, Connected, OtherActive, Frame, Acting, Raising, Removing, Moving,
       Loading, Reloading, Importing, Isolated, Verifying, Configuring, Configured,
            Starting, Switching, Recording, Keeping, Returned, Settled, Erasing, Ceasing
  <2>4. Named(e, t)'
    BY <1>3, <1>4, <1>9, <2>0 DEF Falls, Holds, Named, Lost, NamedBy, Connected, OtherActive, Choice, OldLayout, Connects,
       Acting, Raising, Removing, Moving, Loading, Reloading, Importing, Isolated, Verifying, Configuring, Configured,
            Starting, Switching, Recording, Keeping, Returned, Settled, Erasing, Ceasing
  <2>5. Route(e, t)'
    BY <1>3, <1>4, <1>9, <2>0 DEF Falls, Holds, Route, Known, Excused, Recorded, Frame, Sane, Acting, Raising, Removing,
       Moving, Loading, Reloading, Importing, Isolated, Verifying, Configuring, Configured,
            Starting, Switching, Recording, Keeping, Returned, Settled, Erasing, Ceasing
  <2>6. Kept(e, t)'
    BY <1>3, <1>4, <1>9, <2>0 DEF Falls, Holds, Kept, By, Frame, Acting, Raising, Removing, Moving, Loading, Reloading,
       Importing, Isolated, Verifying, Configuring, Configured,
            Starting, Switching, Recording, Keeping, Returned, Settled, Erasing, Ceasing
  <2>7. Listed(e, t)'
    BY <1>3, <1>4, <1>9, <2>0 DEF Falls, Holds, Listed, Acting, Raising, Removing, Moving, Loading, Reloading, Importing,
       Isolated, Verifying, Configuring, Configured,
            Starting, Switching, Recording, Keeping, Returned, Settled, Erasing, Ceasing
  <2> QED BY ONLY <2>1, <2>2, <2>3, <2>4, <2>5, <2>6, <2>7 DEF Holds
<1>10. ASSUME e = "ask_ifup" PROVE Holds(e, t)'
  <2>0. at = "quick_runtime"
    BY ONLY <1>10, <1>4, ErrFrom DEF e
  <2>1. Frame(e, t)'
    BY <1>3, <1>4, <1>10, <2>0 DEF Falls, Holds, Frame, Sane, By, Acting, Raising, Removing, Moving, Loading, Reloading,
       Importing, Isolated, Verifying, Configuring, Configured,
            Starting, Switching, Recording, Keeping, Returned, Settled, Erasing, Ceasing
  <2>2. OldLayout(e, t)'
    BY <1>3, <1>4, <1>10, <2>0 DEF Falls, Holds, OldLayout, Frame, Connected, Acting, Raising, Removing, Moving, Loading,
       Reloading, Importing, Isolated, Verifying, Configuring, Configured,
            Starting, Switching, Recording, Keeping, Returned, Settled, Erasing, Ceasing
  <2>3. Choice(e, t)'
    BY <1>3, <1>4, <1>10, <2>0 DEF Falls, Holds, Choice, Connected, OtherActive, Frame, Acting, Raising, Removing, Moving,
       Loading, Reloading, Importing, Isolated, Verifying, Configuring, Configured,
            Starting, Switching, Recording, Keeping, Returned, Settled, Erasing, Ceasing
  <2>4. Named(e, t)'
    BY <1>3, <1>4, <1>10, <2>0 DEF Falls, Holds, Named, Lost, NamedBy, Connected, OtherActive, Choice, OldLayout, Connects,
       Acting, Raising, Removing, Moving, Loading, Reloading, Importing, Isolated, Verifying, Configuring, Configured,
            Starting, Switching, Recording, Keeping, Returned, Settled, Erasing, Ceasing
  <2>5. Route(e, t)'
    BY <1>3, <1>4, <1>10, <2>0 DEF Falls, Holds, Route, Known, Excused, Recorded, Frame, Sane, Acting, Raising, Removing,
       Moving, Loading, Reloading, Importing, Isolated, Verifying, Configuring, Configured,
            Starting, Switching, Recording, Keeping, Returned, Settled, Erasing, Ceasing
  <2>6. Kept(e, t)'
    BY <1>3, <1>4, <1>10, <2>0 DEF Falls, Holds, Kept, By, Frame, Acting, Raising, Removing, Moving, Loading, Reloading,
       Importing, Isolated, Verifying, Configuring, Configured,
            Starting, Switching, Recording, Keeping, Returned, Settled, Erasing, Ceasing
  <2>7. Listed(e, t)'
    BY <1>3, <1>4, <1>10, <2>0 DEF Falls, Holds, Listed, Acting, Raising, Removing, Moving, Loading, Reloading, Importing,
       Isolated, Verifying, Configuring, Configured,
            Starting, Switching, Recording, Keeping, Returned, Settled, Erasing, Ceasing
  <2> QED BY ONLY <2>1, <2>2, <2>3, <2>4, <2>5, <2>6, <2>7 DEF Holds
<1>11. ASSUME e = "iso_fail" PROVE Holds(e, t)'
  <2>0. at \in Isolated \ {"iso_fail", "iso_end"}
    BY ONLY <1>11, <1>4, ErrFrom DEF e
  <2>1. Frame(e, t)'
    BY <1>3, <1>4, <1>11, <2>0 DEF Falls, Holds, Frame, Sane, By, Acting, Raising, Removing, Moving, Loading, Reloading,
       Importing, Isolated, Verifying, Configuring, Configured,
            Starting, Switching, Recording, Keeping, Returned, Settled, Erasing, Ceasing
  <2>2. OldLayout(e, t)'
    BY <1>3, <1>4, <1>11, <2>0 DEF Falls, Holds, OldLayout, Frame, Connected, Acting, Raising, Removing, Moving, Loading,
       Reloading, Importing, Isolated, Verifying, Configuring, Configured,
            Starting, Switching, Recording, Keeping, Returned, Settled, Erasing, Ceasing
  <2>3. Choice(e, t)'
    BY <1>3, <1>4, <1>11, <2>0 DEF Falls, Holds, Choice, Connected, OtherActive, Frame, Acting, Raising, Removing, Moving,
       Loading, Reloading, Importing, Isolated, Verifying, Configuring, Configured,
            Starting, Switching, Recording, Keeping, Returned, Settled, Erasing, Ceasing
  <2>4. Named(e, t)'
    BY <1>3, <1>4, <1>11, <2>0 DEF Falls, Holds, Named, Lost, NamedBy, Connected, OtherActive, Choice, OldLayout, Connects,
       Acting, Raising, Removing, Moving, Loading, Reloading, Importing, Isolated, Verifying, Configuring, Configured,
            Starting, Switching, Recording, Keeping, Returned, Settled, Erasing, Ceasing
  <2>5. Route(e, t)'
    BY <1>3, <1>4, <1>11, <2>0 DEF Falls, Holds, Route, Known, Excused, Recorded, Frame, Sane, Acting, Raising, Removing,
       Moving, Loading, Reloading, Importing, Isolated, Verifying, Configuring, Configured,
            Starting, Switching, Recording, Keeping, Returned, Settled, Erasing, Ceasing
  <2>6. Kept(e, t)'
    BY <1>3, <1>4, <1>11, <2>0 DEF Falls, Holds, Kept, By, Frame, Acting, Raising, Removing, Moving, Loading, Reloading,
       Importing, Isolated, Verifying, Configuring, Configured,
            Starting, Switching, Recording, Keeping, Returned, Settled, Erasing, Ceasing
  <2>7. Listed(e, t)'
    BY <1>3, <1>4, <1>11, <2>0 DEF Falls, Holds, Listed, Acting, Raising, Removing, Moving, Loading, Reloading, Importing,
       Isolated, Verifying, Configuring, Configured,
            Starting, Switching, Recording, Keeping, Returned, Settled, Erasing, Ceasing
  <2> QED BY ONLY <2>1, <2>2, <2>3, <2>4, <2>5, <2>6, <2>7 DEF Holds
<1>12. ASSUME e = "new_unlink" PROVE Holds(e, t)'
  <2>0. at = "new_list"
    BY ONLY <1>12, <1>4, ErrFrom DEF e
  <2>1. Frame(e, t)'
    BY <1>3, <1>4, <1>12, <2>0 DEF Falls, Holds, Frame, Sane, By, Acting, Raising, Removing, Moving, Loading, Reloading,
       Importing, Isolated, Verifying, Configuring, Configured,
            Starting, Switching, Recording, Keeping, Returned, Settled, Erasing, Ceasing
  <2>2. OldLayout(e, t)'
    BY <1>3, <1>4, <1>12, <2>0 DEF Falls, Holds, OldLayout, Frame, Connected, Acting, Raising, Removing, Moving, Loading,
       Reloading, Importing, Isolated, Verifying, Configuring, Configured,
            Starting, Switching, Recording, Keeping, Returned, Settled, Erasing, Ceasing
  <2>3. Choice(e, t)'
    BY <1>3, <1>4, <1>12, <2>0 DEF Falls, Holds, Choice, Connected, OtherActive, Frame, Acting, Raising, Removing, Moving,
       Loading, Reloading, Importing, Isolated, Verifying, Configuring, Configured,
            Starting, Switching, Recording, Keeping, Returned, Settled, Erasing, Ceasing
  <2>4. Named(e, t)'
    BY <1>3, <1>4, <1>12, <2>0 DEF Falls, Holds, Named, Lost, NamedBy, Connected, OtherActive, Choice, OldLayout, Connects,
       Acting, Raising, Removing, Moving, Loading, Reloading, Importing, Isolated, Verifying, Configuring, Configured,
            Starting, Switching, Recording, Keeping, Returned, Settled, Erasing, Ceasing
  <2>5. Route(e, t)'
    BY <1>3, <1>4, <1>12, <2>0 DEF Falls, Holds, Route, Known, Excused, Recorded, Frame, Sane, Acting, Raising, Removing,
       Moving, Loading, Reloading, Importing, Isolated, Verifying, Configuring, Configured,
            Starting, Switching, Recording, Keeping, Returned, Settled, Erasing, Ceasing
  <2>6. Kept(e, t)'
    BY <1>3, <1>4, <1>12, <2>0 DEF Falls, Holds, Kept, By, Frame, Acting, Raising, Removing, Moving, Loading, Reloading,
       Importing, Isolated, Verifying, Configuring, Configured,
            Starting, Switching, Recording, Keeping, Returned, Settled, Erasing, Ceasing
  <2>7. Listed(e, t)'
    BY <1>3, <1>4, <1>12, <2>0 DEF Falls, Holds, Listed, Acting, Raising, Removing, Moving, Loading, Reloading, Importing,
       Isolated, Verifying, Configuring, Configured,
            Starting, Switching, Recording, Keeping, Returned, Settled, Erasing, Ceasing
  <2> QED BY ONLY <2>1, <2>2, <2>3, <2>4, <2>5, <2>6, <2>7 DEF Holds
<1>13. ASSUME e = "unlink" PROVE Holds(e, t)'
  <2>0. at = "list"
    BY ONLY <1>13, <1>4, ErrFrom DEF e
  <2>1. Frame(e, t)'
    BY <1>3, <1>4, <1>13, <2>0 DEF Falls, Holds, Frame, Sane, By, Acting, Raising, Removing, Moving, Loading, Reloading,
       Importing, Isolated, Verifying, Configuring, Configured,
            Starting, Switching, Recording, Keeping, Returned, Settled, Erasing, Ceasing
  <2>2. OldLayout(e, t)'
    BY <1>3, <1>4, <1>13, <2>0 DEF Falls, Holds, OldLayout, Frame, Connected, Acting, Raising, Removing, Moving, Loading,
       Reloading, Importing, Isolated, Verifying, Configuring, Configured,
            Starting, Switching, Recording, Keeping, Returned, Settled, Erasing, Ceasing
  <2>3. Choice(e, t)'
    BY <1>3, <1>4, <1>13, <2>0 DEF Falls, Holds, Choice, Connected, OtherActive, Frame, Acting, Raising, Removing, Moving,
       Loading, Reloading, Importing, Isolated, Verifying, Configuring, Configured,
            Starting, Switching, Recording, Keeping, Returned, Settled, Erasing, Ceasing
  <2>4. Named(e, t)'
    BY <1>3, <1>4, <1>13, <2>0 DEF Falls, Holds, Named, Lost, NamedBy, Connected, OtherActive, Choice, OldLayout, Connects,
       Acting, Raising, Removing, Moving, Loading, Reloading, Importing, Isolated, Verifying, Configuring, Configured,
            Starting, Switching, Recording, Keeping, Returned, Settled, Erasing, Ceasing
  <2>5. Route(e, t)'
    BY <1>3, <1>4, <1>13, <2>0 DEF Falls, Holds, Route, Known, Excused, Recorded, Frame, Sane, Acting, Raising, Removing,
       Moving, Loading, Reloading, Importing, Isolated, Verifying, Configuring, Configured,
            Starting, Switching, Recording, Keeping, Returned, Settled, Erasing, Ceasing
  <2>6. Kept(e, t)'
    BY <1>3, <1>4, <1>13, <2>0 DEF Falls, Holds, Kept, By, Frame, Acting, Raising, Removing, Moving, Loading, Reloading,
       Importing, Isolated, Verifying, Configuring, Configured,
            Starting, Switching, Recording, Keeping, Returned, Settled, Erasing, Ceasing
  <2>7. Listed(e, t)'
    BY <1>3, <1>4, <1>13, <2>0 DEF Falls, Holds, Listed, Acting, Raising, Removing, Moving, Loading, Reloading, Importing,
       Isolated, Verifying, Configuring, Configured,
            Starting, Switching, Recording, Keeping, Returned, Settled, Erasing, Ceasing
  <2> QED BY ONLY <2>1, <2>2, <2>3, <2>4, <2>5, <2>6, <2>7 DEF Holds
<1> QED BY ONLY <1>1, <1>2, <1>5, <1>6, <1>7, <1>8, <1>9, <1>10, <1>11, <1>12, <1>13 DEF Inv, Reached

-------------------------------------------------------------------------------
(* Steps that may fail. *)

\* During a switch the state is the one it may go back to, with the intent.
LEMMA Based ==
  ASSUME NEW at \in Switching, NEW t, Reached(at, t)
  PROVE  /\ st.busy /\ st.rec /\ st.kind = job.base.kind /\ st.conn = job.base.conn /\ st.tag = job.base.tag
         /\ st.active = job.base.active /\ st.prepared = job.base.prepared
<1>1. job.base \in States /\ st = [job.base EXCEPT !.rec = TRUE, !.busy = TRUE]
  BY DEF Reached, Holds, Frame, Switching
<1> QED BY ONLY <1>1 DEF States

\* A profile or the interface is required.
LEMMA RequireStep ==
  ASSUME NEW at, NEW t, TypeOK, Reached(at, t), Require
  PROVE  Inv'
<1> USE DEF Reached, Holds, Frame, OldLayout, Choice, Named, Route, Kept, Listed, NamedBy, Known, Excused, Lost, Sane,
            Connected, OtherActive, Recorded, Acting, Raising, Removing, Moving, Loading, Reloading, Importing,
            Isolated, Verifying, Configuring, Configured, Starting, Switching, Recording, Keeping, Returned, Settled,
            Erasing, Ceasing, Migrations, Connects, Checks, By, Entry, TypeOK
<1>1. CASE at = "ask_require" /\ Advance /\ (todo.call = <<"require", "up">> => net.up)
  <2>1. todo.call = <<"profile", "id">> /\ todo.next = Prog("require", t)
    BY ONLY <1>1, VerifyingProg, DoFields, Reached(at, t) DEF Reached
  <2>2. todo' = Prog("require", t) /\ UNCHANGED <<addr, index, files, legacy, st, smode, net, iso, xr, job, heal, boot,
              owned, odd, faults, ops>>
    BY ONLY <1>1, <2>1, Require DEF Require, At, Go, Advance, disk, runtime, kept, ProfileOf
  <2>3. t \in Checks \cup Connects /\ Point("require", t)
    BY ONLY <1>1, Reached(at, t), Passing DEF Reached, Checks, Connects, Migrations, Tracks, Verifying
  <2>4. TypeOK'
    BY <1>1, <2>2, <2>3
  <2>5. Holds("require", t)'
    BY <1>1, <2>2, <2>3
  <2> QED BY ONLY <2>2, <2>3, <2>4, <2>5 DEF Inv, Reached
<1>2. CASE at = "ask_down" /\ Advance /\ (todo.call = <<"require", "up">> => net.up)
  <2>1. todo.call = <<"profile", "id">> /\ todo.next = Prog("down", t)
    BY ONLY <1>2, ConfiguringProg, DoFields, Reached(at, t) DEF Reached
  <2>2. todo' = Prog("down", t) /\ UNCHANGED <<addr, index, files, legacy, st, smode, net, iso, xr, job, heal, boot, owned,
              odd, faults, ops>>
    BY ONLY <1>2, <2>1, Require DEF Require, At, Go, Advance, disk, runtime, kept, ProfileOf
  <2>3. t \in {"connect", "attempt"} /\ Point("down", t)
    BY ONLY <1>2, Reached(at, t), Passing DEF Reached, Checks, Configuring, Connects, Migrations, Tracks
  <2>4. TypeOK'
    BY <1>2, <2>2, <2>3
  <2>5. Holds("down", t)'
    BY <1>2, <2>2, <2>3
  <2> QED BY ONLY <2>2, <2>3, <2>4, <2>5 DEF Inv, Reached
<1>3. CASE at = "ask_configure" /\ Advance /\ (todo.call = <<"require", "up">> => net.up)
  <2>1. todo.call = <<"profile", "id">> /\ todo.next = Prog("configure", t)
    BY ONLY <1>3, ConfiguringProg, DoFields, Reached(at, t) DEF Reached
  <2>2. todo' = Prog("configure", t) /\ UNCHANGED <<addr, index, files, legacy, st, smode, net, iso, xr, job, heal, boot,
              owned, odd, faults, ops>>
    BY ONLY <1>3, <2>1, Require DEF Require, At, Go, Advance, disk, runtime, kept, ProfileOf
  <2>3. t \in {"connect", "attempt"} /\ Point("configure", t)
    BY ONLY <1>3, Reached(at, t), Passing DEF Reached, Checks, Configuring, Connects, Migrations, Tracks
  <2>4. TypeOK'
    BY <1>3, <2>2, <2>3
  <2>5. Holds("configure", t)'
    BY <1>3, <2>2, <2>3
  <2> QED BY ONLY <2>2, <2>3, <2>4, <2>5 DEF Inv, Reached
<1>4. CASE at = "ask_ifup" /\ Advance /\ (todo.call = <<"require", "up">> => net.up)
  <2>1. todo.call = <<"profile", "id">> /\ todo.next = Prog("ifup", t)
    BY ONLY <1>4, ConfiguredProg, DoFields, Reached(at, t) DEF Reached
  <2>2. todo' = Prog("ifup", t) /\ UNCHANGED <<addr, index, files, legacy, st, smode, net, iso, xr, job, heal, boot, owned,
              odd, faults, ops>>
    BY ONLY <1>4, <2>1, Require DEF Require, At, Go, Advance, disk, runtime, kept, ProfileOf
  <2>3. t \in {"connect", "attempt"} /\ Point("ifup", t)
    BY ONLY <1>4, Reached(at, t), Passing DEF Reached, Checks, Configured, Connects, Migrations, Tracks, Verifying
  <2>4. TypeOK'
    BY <1>4, <2>2, <2>3
  <2>5. Holds("ifup", t)'
    BY <1>4, <2>2, <2>3
  <2> QED BY ONLY <2>2, <2>3, <2>4, <2>5 DEF Inv, Reached
<1>5. CASE at = "ask_isolate" /\ Advance /\ (todo.call = <<"require", "up">> => net.up)
  <2>1. todo.call = <<"profile", "id">> /\ todo.next = Prog("isolate", t)
    BY ONLY <1>5, IsolatedProg, DoFields, Reached(at, t) DEF Reached
  <2>2. todo' = Prog("isolate", t) /\ UNCHANGED <<addr, index, files, legacy, st, smode, net, iso, xr, job, heal, boot,
              owned, odd, faults, ops>>
    BY ONLY <1>5, <2>1, Require DEF Require, At, Go, Advance, disk, runtime, kept, ProfileOf
  <2>3. t \in Checks \cup {"connect"} /\ Point("isolate", t)
    BY ONLY <1>5, Reached(at, t), Passing DEF Reached, Checks, Connects, Isolated, Migrations, Tracks
  <2>4. TypeOK'
    BY <1>5, <2>2, <2>3
  <2>5. Holds("isolate", t)'
    BY <1>5, <2>2, <2>3
  <2> QED BY ONLY <2>2, <2>3, <2>4, <2>5 DEF Inv, Reached
<1>6. CASE at = "ret_profile" /\ Advance /\ (todo.call = <<"require", "up">> => net.up)
  <2>1. todo.call = <<"profile", "orig">> /\ todo.next = Prog("ret_down", t)
    BY ONLY <1>6, ReturningProg, DoFields, Reached(at, t) DEF Reached
  <2>2. todo' = Prog("ret_down", t) /\ UNCHANGED <<addr, index, files, legacy, st, smode, net, iso, xr, job, heal, boot,
              owned, odd, faults, ops>>
    BY ONLY <1>6, <2>1, Require DEF Require, At, Go, Advance, disk, runtime, kept, ProfileOf
  <2>3. t \in {"attempt"} /\ Point("ret_down", t)
    BY ONLY <1>6, Reached(at, t), Passing DEF Reached, Checks, Connects, Migrations, Returning, Tracks
  <2>4. TypeOK'
    BY <1>6, <2>2, <2>3
  <2>5. Holds("ret_down", t)'
    BY <1>6, <2>2, <2>3
  <2> QED BY ONLY <2>2, <2>3, <2>4, <2>5 DEF Inv, Reached
<1>7. CASE at = "require" /\ Advance /\ (todo.call = <<"require", "up">> => net.up)
  <2>1. todo.call = <<"require", "up">> /\ todo.next = Prog("ifup", t)
    BY ONLY <1>7, VerifyingProg, DoFields, Reached(at, t) DEF Reached
  <2>2. /\ net.up
        /\ todo' = Prog("ifup", t) /\ UNCHANGED <<addr, index, files, legacy, st, smode, net, iso, xr, job, heal, boot,
              owned, odd, faults, ops>>
    BY ONLY <1>7, <2>1, Require DEF Require, At, Go, Advance, disk, runtime, kept, ProfileOf
  <2>3. t \in Checks \cup Connects /\ Point("ifup", t)
    BY ONLY <1>7, Reached(at, t), Passing DEF Reached, Checks, Connects, Migrations, Tracks, Verifying
  <2>4. TypeOK'
    BY <1>7, <2>2, <2>3
  <2>5. Holds("ifup", t)'
    BY <1>7, <2>2, <2>3
  <2> QED BY ONLY <2>2, <2>3, <2>4, <2>5 DEF Inv, Reached
<1>8. at \in {"ask_require", "ask_down", "ask_configure", "ask_ifup", "ask_isolate", "ret_profile", "require"}
  <2>1. todo.call = Call(at, t)
    BY ONLY Reached(at, t), ProgCall DEF Reached
  <2>2. todo.call \in {<<"profile", "id">>, <<"profile", "orig">>, <<"require", "up">>}
    BY ONLY Require DEF Require, At
  <2> QED BY ONLY <2>1, <2>2, CallAt
<1>9. CASE Failed
  <2>1. Failed /\ UNCHANGED <<addr, index, files, legacy, st, smode, net, iso, xr, job, heal, boot, owned, faults, ops>>
    BY ONLY <1>9, Require DEF Require, At, Advance, disk, runtime, kept
  <2>2. Falls(at)
    BY ONLY <1>8, <1>9, <2>1, TypeOK, AmneziaWGBounds DEF Falls, Failed, TypeOK, Unrestored
  <2> QED BY ONLY <1>8, <2>2, TypeOK, Reached(at, t), Failing
<1>10. (Advance /\ (todo.call = <<"require", "up">> => net.up)) \/ Failed
  BY ONLY Require DEF Require, At
<1> QED BY ONLY <1>1, <1>2, <1>3, <1>4, <1>5, <1>6, <1>7, <1>8, <1>9, <1>10

\* An outbound is selected.
LEMMA SelectStep ==
  ASSUME NEW at, NEW t, TypeOK, Reached(at, t), Select
  PROVE  Inv'
<1> USE DEF Reached, Holds, Frame, OldLayout, Choice, Named, Route, Kept, Listed, NamedBy, Known, Excused, Lost, Sane,
            Connected, OtherActive, Recorded, Acting, Raising, Removing, Moving, Loading, Reloading, Importing,
            Isolated, Verifying, Configuring, Configured, Starting, Switching, Recording, Keeping, Returned, Settled,
            Erasing, Ceasing, Migrations, Connects, Checks, By, Entry, TypeOK
<1>1. CASE at = "open_select" /\ xr.run
  <2>1. todo.call = <<"select", "direct">> /\ todo.next = Prog("open_save", t)
    BY ONLY <1>1, OpeningProg, DoFields, Reached(at, t) DEF Reached
  <2>2. /\ xr' = [xr EXCEPT !.sel = "direct"]
        /\ todo' = Prog("open_save", t) /\ UNCHANGED <<addr, index, files, legacy, st, smode, net, iso, job, heal, boot,
              owned, odd, faults, ops>>
    BY ONLY <1>1, <2>1, Select DEF Select, At, Go, Advance, disk, runtime, kept
  <2>3. t \in {"failopen", "restore"} /\ Point("open_save", t)
    BY ONLY <1>1, Reached(at, t), Passing DEF Reached, Checks, Connects, Migrations, Opening, Tracks
  <2>4. TypeOK'
    BY <1>1, <2>2, <2>3 DEF Tags
  <2>5. Holds("open_save", t)'
    BY <1>1, <2>2, <2>3, ProfileAssumption
  <2> QED BY ONLY <2>2, <2>3, <2>4, <2>5 DEF Inv, Reached
<1>2. CASE at = "end_select" /\ xr.run
  <2>1. todo.call = <<"select", "direct">> /\ todo.next = Prog("end_down", t)
    BY ONLY <1>2, EndingProg, DoFields, Reached(at, t) DEF Reached
  <2>2. /\ xr' = [xr EXCEPT !.sel = "direct"]
        /\ todo' = Prog("end_down", t) /\ UNCHANGED <<addr, index, files, legacy, st, smode, net, iso, job, heal, boot,
              owned, odd, faults, ops>>
    BY ONLY <1>2, <2>1, Select DEF Select, At, Go, Advance, disk, runtime, kept
  <2>3. t \in {"disconnect", "attempt"} /\ Point("end_down", t)
    BY ONLY <1>2, Reached(at, t), Passing DEF Reached, Checks, Connects, Ending, Migrations, Tracks
  <2>4. TypeOK'
    BY <1>2, <2>2, <2>3 DEF Tags
  <2>5. Holds("end_down", t)'
    BY <1>2, <2>2, <2>3, ProfileAssumption
  <2> QED BY ONLY <2>2, <2>3, <2>4, <2>5 DEF Inv, Reached
<1>3. CASE at = "rm_select" /\ xr.run
  <2>1. todo.call = <<"select", "direct">> /\ todo.next = Prog("rm_down", t)
    BY ONLY <1>3, CeasingProg, DoFields, Reached(at, t) DEF Reached
  <2>2. /\ xr' = [xr EXCEPT !.sel = "direct"]
        /\ todo' = Prog("rm_down", t) /\ UNCHANGED <<addr, index, files, legacy, st, smode, net, iso, job, heal, boot,
              owned, odd, faults, ops>>
    BY ONLY <1>3, <2>1, Select DEF Select, At, Go, Advance, disk, runtime, kept
  <2>3. t \in {"active"} /\ Point("rm_down", t)
    BY ONLY <1>3, Reached(at, t), Passing DEF Reached, Ceasing, Checks, Connects, Erasing, Migrations, Tracks
  <2>4. TypeOK'
    BY <1>3, <2>2, <2>3 DEF Tags
  <2>5. Holds("rm_down", t)'
    BY <1>3, <2>2, <2>3, ProfileAssumption
  <2> QED BY ONLY <2>2, <2>3, <2>4, <2>5 DEF Inv, Reached
<1>4. CASE at = "direct_select" /\ xr.run
  <2>1. todo.call = <<"select", "direct">> /\ todo.next = Prog("direct_save", t)
    BY ONLY <1>4, RestoringProg, DoFields, Reached(at, t) DEF Reached
  <2>2. /\ xr' = [xr EXCEPT !.sel = "direct"]
        /\ todo' = Prog("direct_save", t) /\ UNCHANGED <<addr, index, files, legacy, st, smode, net, iso, job, heal, boot,
              owned, odd, faults, ops>>
    BY ONLY <1>4, <2>1, Select DEF Select, At, Go, Advance, disk, runtime, kept
  <2>3. t \in {"restore"} /\ Point("direct_save", t)
    BY ONLY <1>4, Reached(at, t), Passing DEF Reached, Checks, Connects, Migrations, Restoring, Tracks
  <2>4. TypeOK'
    BY <1>4, <2>2, <2>3 DEF Tags
  <2>5. Holds("direct_save", t)'
    BY <1>4, <2>2, <2>3, ProfileAssumption
  <2> QED BY ONLY <2>2, <2>3, <2>4, <2>5 DEF Inv, Reached
<1>5. CASE at = "select" /\ xr.run
  <2>1. todo.call = <<"select", "tag">> /\ todo.next = Prog("egress", t)
    BY ONLY <1>5, SwitchingProg, DoFields, Reached(at, t) DEF Reached
  <2>0. st.busy /\ st.kind = job.base.kind /\ st.conn = job.base.conn /\ st.tag = job.base.tag
    <3>1. at \in Switching
      BY ONLY <1>5 DEF Switching
    <3> QED BY ONLY <3>1, Reached(at, t), Based
  <2>2. /\ xr' = [xr EXCEPT !.sel = job.tag]
        /\ todo' = Prog("egress", t) /\ UNCHANGED <<addr, index, files, legacy, st, smode, net, iso, job, heal, boot,
              owned, odd, faults, ops>>
    BY ONLY <1>5, <2>1, Select DEF Select, At, Go, Advance, disk, runtime, kept
  <2>3. t \in Connects /\ Point("egress", t)
    BY ONLY <1>5, Reached(at, t), Passing DEF Reached, Checks, Connects, Migrations, Switching, Tracks
  <2>4. TypeOK'
    BY <1>5, <2>2, <2>3 DEF Tags
  <2>5. Holds("egress", t)'
    <3>1. Frame("egress", t)'
      BY <1>5, <2>2, <2>3, ProfileAssumption, <2>0
    <3>2. OldLayout("egress", t)'
      BY <1>5, <2>2, <2>3, ProfileAssumption, <2>0
    <3>3. Choice("egress", t)'
      BY <1>5, <2>2, <2>3, ProfileAssumption, <2>0
    <3>4. Named("egress", t)'
      BY <1>5, <2>2, <2>3, ProfileAssumption, <2>0
    <3>5. Route("egress", t)'
      BY <1>5, <2>2, <2>3, ProfileAssumption, <2>0
    <3>6. Kept("egress", t)'
      BY <1>5, <2>2, <2>3, ProfileAssumption, <2>0
    <3>7. Listed("egress", t)'
      BY <1>5, <2>2, <2>3, ProfileAssumption, <2>0
    <3> QED BY ONLY <3>1, <3>2, <3>3, <3>4, <3>5, <3>6, <3>7 DEF Holds
  <2> QED BY ONLY <2>2, <2>3, <2>4, <2>5 DEF Inv, Reached
<1>6. CASE at = "ret_select" /\ xr.run
  <2>1. todo.call = <<"select", "tag">> /\ todo.next = Prog("ret_egress", t)
    BY ONLY <1>6, ReturnedProg, DoFields, Reached(at, t) DEF Reached
  <2>2. /\ xr' = [xr EXCEPT !.sel = job.tag]
        /\ todo' = Prog("ret_egress", t) /\ UNCHANGED <<addr, index, files, legacy, st, smode, net, iso, job, heal, boot,
              owned, odd, faults, ops>>
    BY ONLY <1>6, <2>1, Select DEF Select, At, Go, Advance, disk, runtime, kept
  <2>3. t \in {"attempt"} /\ Point("ret_egress", t)
    BY ONLY <1>6, Reached(at, t), Passing DEF Reached, Checks, Connects, Migrations, Returned, Tracks
  <2>4. TypeOK'
    BY <1>6, <2>2, <2>3 DEF Tags
  <2>5. Holds("ret_egress", t)'
    BY <1>6, <2>2, <2>3, ProfileAssumption
  <2> QED BY ONLY <2>2, <2>3, <2>4, <2>5 DEF Inv, Reached
<1>7. CASE at = "undo" /\ xr.run
  <2>1. todo.call = <<"select", "prev">> /\ todo.next = Prog("back", t)
    BY ONLY <1>7, SwitchingProg, DoFields, Reached(at, t) DEF Reached
  <2>0. st.busy /\ st.kind = job.base.kind /\ st.conn = job.base.conn /\ st.tag = job.base.tag
    <3>1. at \in Switching
      BY ONLY <1>7 DEF Switching
    <3> QED BY ONLY <3>1, Reached(at, t), Based
  <2>2. todo' = Prog("back", t) /\ UNCHANGED <<addr, index, files, legacy, st, smode, net, iso, job, heal, boot, owned,
              odd, faults, ops>>
    BY ONLY <1>7, <2>1, Select DEF Select, At, Go, Advance, disk, runtime, kept
  <2>8. xr' = [xr EXCEPT !.sel = job.prev]
    BY ONLY <1>7, <2>1, Select DEF Select, At, Go, Advance, disk, runtime, kept
  <2>9. xr' \in [run : BOOLEAN, sel : Tags] /\ xr'.sel = job.prev
    BY ONLY <2>8, TypeOK DEF TypeOK
  <2>3. t \in Connects /\ Point("back", t)
    BY ONLY <1>7, Reached(at, t), Passing DEF Reached, Checks, Connects, Migrations, Switching, Tracks
  <2>4. TypeOK'
    BY <1>7, <2>2, <2>3, <2>9 DEF Tags
  <2>5. Holds("back", t)'
    <3>1. Frame("back", t)'
      BY <1>7, <2>2, <2>3, <2>9, ProfileAssumption, <2>0
    <3>2. OldLayout("back", t)'
      BY <1>7, <2>2, <2>3, <2>9, ProfileAssumption, <2>0
    <3>3. Choice("back", t)'
      BY <1>7, <2>2, <2>3, <2>9, ProfileAssumption, <2>0
    <3>4. Named("back", t)'
      BY <1>7, <2>2, <2>3, <2>9, ProfileAssumption, <2>0
    <3>5. Route("back", t)'
      <4>1. /\ job.prev = (IF job.base.tag = "none" THEN "direct" ELSE job.base.tag)
            /\ job.base.kind \in {"none", "awg", "xray"} /\ Sane(job.base)
        BY <1>7 DEF States
      <4>2. Known(st)'
        BY ONLY <2>0, <2>2 DEF Known, Recorded
      <4>3. Known(job.base)'
        BY ONLY <2>2, <2>9, <4>1, ProfileAssumption DEF Known, Recorded, Sane
      <4> QED BY ONLY <4>2, <4>3 DEF Route, Erasing
    <3>6. Kept("back", t)'
      BY <1>7, <2>2, <2>3, <2>9, ProfileAssumption, <2>0
    <3>7. Listed("back", t)'
      BY <1>7, <2>2, <2>3, <2>9, ProfileAssumption, <2>0
    <3> QED BY ONLY <3>1, <3>2, <3>3, <3>4, <3>5, <3>6, <3>7 DEF Holds
  <2> QED BY ONLY <2>2, <2>3, <2>4, <2>5 DEF Inv, Reached
<1>8. at \in {"open_select", "end_select", "rm_select", "direct_select", "select", "ret_select", "undo"}
  <2>1. todo.call = Call(at, t)
    BY ONLY Reached(at, t), ProgCall DEF Reached
  <2>2. todo.call \in {<<"select", "direct">>, <<"select", "tag">>, <<"select", "prev">>}
    BY ONLY Select DEF Select, At
  <2> QED BY ONLY <2>1, <2>2, CallAt
<1>9. CASE ~xr.run
  <2>1. Failed /\ UNCHANGED <<addr, index, files, legacy, st, smode, net, iso, xr, job, heal, boot, owned, faults, ops>>
    BY ONLY <1>9, Select DEF Select, At, Advance, disk, runtime, kept
  <2>2. Falls(at)
    BY ONLY <1>8, <1>9, <2>1, TypeOK, AmneziaWGBounds DEF Falls, Failed, TypeOK, Unrestored
  <2> QED BY ONLY <1>8, <2>2, TypeOK, Reached(at, t), Failing
<1> QED BY ONLY <1>1, <1>2, <1>3, <1>4, <1>5, <1>6, <1>7, <1>8, <1>9

\* The egress is checked.
LEMMA EgressStep ==
  ASSUME NEW at, NEW t, TypeOK, Reached(at, t), Egress
  PROVE  Inv'
<1> USE DEF Reached, Holds, Frame, OldLayout, Choice, Named, Route, Kept, Listed, NamedBy, Known, Excused, Lost, Sane,
            Connected, OtherActive, Recorded, Acting, Raising, Removing, Moving, Loading, Reloading, Importing,
            Isolated, Verifying, Configuring, Configured, Starting, Switching, Recording, Keeping, Returned, Settled,
            Erasing, Ceasing, Migrations, Connects, Checks, By, Entry, TypeOK
<1>1. CASE at = "egress" /\ (xr.run /\ Carried(xr.sel) /\ Advance)
  <2>1. todo.call = <<"egress", "tag">> /\ todo.next = Prog("connected", t)
    BY ONLY <1>1, SwitchingProg, DoFields, Reached(at, t) DEF Reached
  <2>2. /\ xr.run /\ Carried(xr.sel)
        /\ todo' = Prog("connected", t) /\ UNCHANGED <<addr, index, files, legacy, st, smode, net, iso, xr, job, heal,
              boot, owned, odd, faults, ops>>
    BY ONLY <1>1, <2>1, Egress DEF Egress, At, Go, Advance, disk, runtime, kept
  <2>3. t \in Connects /\ Point("connected", t)
    BY ONLY <1>1, Reached(at, t), Passing DEF Reached, Checks, Connects, Migrations, Switching, Tracks
  <2>4. TypeOK'
    BY <1>1, <2>2, <2>3
  <2>5. Holds("connected", t)'
    BY <1>1, <2>2, <2>3
  <2> QED BY ONLY <2>2, <2>3, <2>4, <2>5 DEF Inv, Reached
<1>2. CASE at = "ret_egress" /\ (xr.run /\ Carried(xr.sel) /\ Advance)
  <2>1. todo.call = <<"egress", "tag">> /\ todo.next = Prog("ret_save", t)
    BY ONLY <1>2, ReturnedProg, DoFields, Reached(at, t) DEF Reached
  <2>2. /\ xr.run /\ Carried(xr.sel)
        /\ todo' = Prog("ret_save", t) /\ UNCHANGED <<addr, index, files, legacy, st, smode, net, iso, xr, job, heal, boot,
              owned, odd, faults, ops>>
    BY ONLY <1>2, <2>1, Egress DEF Egress, At, Go, Advance, disk, runtime, kept
  <2>3. t \in {"attempt"} /\ Point("ret_save", t)
    BY ONLY <1>2, Reached(at, t), Passing DEF Reached, Checks, Connects, Migrations, Returned, Tracks
  <2>4. TypeOK'
    BY <1>2, <2>2, <2>3
  <2>5. Holds("ret_save", t)'
    BY <1>2, <2>2, <2>3
  <2> QED BY ONLY <2>2, <2>3, <2>4, <2>5 DEF Inv, Reached
<1>3. at \in {"egress", "ret_egress"}
  <2>1. todo.call = Call(at, t)
    BY ONLY Reached(at, t), ProgCall DEF Reached
  <2>2. todo.call = <<"egress", "tag">>
    BY ONLY Egress DEF Egress, At
  <2>3. Call(at, t) = <<"egress", "tag">>
    BY ONLY <2>1, <2>2
  <2> QED BY ONLY <2>3, CallAt
<1>4. CASE Failed
  <2>1. Failed /\ UNCHANGED <<addr, index, files, legacy, st, smode, net, iso, xr, job, heal, boot, owned, faults, ops>>
    BY ONLY <1>4, Egress DEF Egress, At, Advance, disk, runtime, kept
  <2>2. Falls(at)
    BY ONLY <1>3, <1>4, <2>1, TypeOK, AmneziaWGBounds DEF Falls, Failed, TypeOK, Unrestored
  <2> QED BY ONLY <1>3, <2>2, TypeOK, Reached(at, t), Failing
<1>5. (xr.run /\ Carried(xr.sel) /\ Advance) \/ Failed
  BY ONLY Egress DEF Egress, At
<1> QED BY ONLY <1>1, <1>2, <1>3, <1>4, <1>5

-------------------------------------------------------------------------------
(* What each save writes, field by field. *)

\* The state after the migration names the profile of the old layout.
LEMMA SavedAdopted ==
  ASSUME TypeOK, legacy \in Profile
  PROVE  /\ Saved("adopted") \in States
         /\ Saved("adopted").kind = st.kind
         /\ Saved("adopted").active = (IF st.kind = "awg" THEN legacy ELSE st.active)
         /\ Saved("adopted").conn = st.conn /\ Saved("adopted").rec = st.rec /\ Saved("adopted").busy = st.busy
         /\ Saved("adopted").tag = st.tag
         /\ Saved("adopted").prepared = (IF st.prepared = None THEN legacy ELSE st.prepared)
<1>1. Saved("adopted") = [st EXCEPT !.prepared = IF @ = None THEN legacy ELSE @,
                                       !.active = IF st.kind = "awg" THEN legacy ELSE @,
                                       !.node = IF st.kind = "awg" THEN "awg" ELSE @]
  BY DEF Saved
<1>2. st \in States /\ job.tag \in Tags /\ job.mode \in Modes
  BY DEF TypeOK
<1>3. Saved("adopted") \in States
  BY ONLY <1>1, <1>2, legacy \in Profile DEF States
<1>4. /\ Saved("adopted").active = (IF st.kind = "awg" THEN legacy ELSE st.active)
      /\ Saved("adopted").prepared = (IF st.prepared = None THEN legacy ELSE st.prepared)
  BY ONLY <1>1, <1>2 DEF States
<1>5. /\ Saved("adopted").kind = st.kind /\ Saved("adopted").conn = st.conn /\ Saved("adopted").rec = st.rec
      /\ Saved("adopted").busy = st.busy /\ Saved("adopted").tag = st.tag
  BY ONLY <1>1, <1>2 DEF States
<1> QED BY ONLY <1>3, <1>4, <1>5

\* The state after the interface was configured for the profile of the operation.
LEMMA SavedPrepared ==
  ASSUME TypeOK, job.id \in Profile
  PROVE  /\ Saved("prepared") \in States
         /\ Saved("prepared").kind = st.kind /\ Saved("prepared").active = st.active
         /\ Saved("prepared").conn = st.conn /\ Saved("prepared").rec = st.rec
         /\ Saved("prepared").busy = st.busy /\ Saved("prepared").tag = st.tag
         /\ Saved("prepared").prepared = job.id
<1>1. Saved("prepared") = [st EXCEPT !.prepared = job.id]
  BY DEF Saved
<1>2. st \in States /\ job.tag \in Tags /\ job.mode \in Modes
  BY DEF TypeOK
<1> QED BY ONLY <1>1, <1>2, job.id \in Profile DEF States, Tags, Modes

\* The state after a probe.
LEMMA SavedProbe ==
  ASSUME TypeOK, job.id \in Profile
  PROVE  /\ Saved("probe") \in States
         /\ Saved("probe").kind = st.kind /\ Saved("probe").active = st.active /\ Saved("probe").conn = st.conn
         /\ Saved("probe").rec = st.rec /\ Saved("probe").busy = st.busy /\ Saved("probe").tag = st.tag
         /\ Saved("probe").prepared = st.prepared
<1>1. Saved("probe") = [st EXCEPT !.probe[job.id] = IF job.ok THEN "fresh" ELSE "failed"]
  BY DEF Saved
<1>2. st \in States /\ job.tag \in Tags /\ job.mode \in Modes
  BY DEF TypeOK
<1> QED BY ONLY <1>1, <1>2, job.id \in Profile DEF States, Tags, Modes

\* The state with the intent of a switch.
LEMMA SavedIntent ==
  ASSUME TypeOK
  PROVE  /\ Saved("intent") \in States
         /\ Saved("intent").kind = st.kind /\ Saved("intent").active = st.active
         /\ Saved("intent").conn = st.conn /\ Saved("intent").rec /\ Saved("intent").busy
         /\ Saved("intent").tag = st.tag /\ Saved("intent").prepared = st.prepared
<1>1. Saved("intent") = [st EXCEPT !.rec = TRUE, !.busy = TRUE]
  BY DEF Saved
<1>2. st \in States /\ job.tag \in Tags /\ job.mode \in Modes
  BY DEF TypeOK
<1> QED BY ONLY <1>1, <1>2 DEF States, Tags, Modes

\* The state a switch returns to.
LEMMA SavedBack ==
  ASSUME TypeOK, job.base \in States
  PROVE  /\ Saved("back") \in States
         /\ Saved("back").kind = job.base.kind /\ Saved("back").active = job.base.active
         /\ Saved("back").conn = job.base.conn /\ Saved("back").rec = job.base.rec /\ ~Saved("back").busy
         /\ Saved("back").tag = job.base.tag /\ Saved("back").prepared = job.base.prepared
<1>1. Saved("back") = [job.base EXCEPT !.busy = FALSE]
  BY DEF Saved
<1>2. st \in States /\ job.tag \in Tags /\ job.mode \in Modes
  BY DEF TypeOK
<1> QED BY ONLY <1>1, <1>2, job.base \in States DEF States, Tags, Modes

\* The state of the new connection.
LEMMA SavedConnected ==
  ASSUME TypeOK, job.id \in Profile
  PROVE  /\ Saved("connected") \in States
         /\ Saved("connected").kind = "awg" /\ Saved("connected").active = job.id /\ Saved("connected").conn
         /\ ~Saved("connected").rec /\ ~Saved("connected").busy /\ Saved("connected").tag = job.tag
         /\ Saved("connected").prepared = st.prepared
<1>1. Saved("connected") = [st EXCEPT !.kind = "awg", !.active = job.id, !.node = "awg", !.mode = job.mode,
                    !.conn = TRUE, !.rec = FALSE, !.busy = FALSE, !.tag = job.tag]
  BY DEF Saved
<1>2. st \in States /\ job.tag \in Tags /\ job.mode \in Modes
  BY DEF TypeOK
<1> QED BY ONLY <1>1, <1>2, job.id \in Profile DEF States, Tags, Modes

\* The state after a disconnect.
LEMMA SavedDisconnected ==
  ASSUME TypeOK
  PROVE  /\ Saved("disconnected") \in States
         /\ Saved("disconnected").kind = "none" /\ Saved("disconnected").active = None
         /\ ~Saved("disconnected").conn /\ ~Saved("disconnected").rec /\ ~Saved("disconnected").busy
         /\ Saved("disconnected").tag = "direct" /\ Saved("disconnected").prepared = st.prepared
<1>1. Saved("disconnected") = Disconnected(st)
  BY DEF Saved
<1>2. st \in States /\ job.tag \in Tags /\ job.mode \in Modes
  BY DEF TypeOK
<1> QED BY ONLY <1>1, <1>2 DEF States, Tags, Modes, Disconnected

\* The state of the connection that was returned to.
LEMMA SavedOrig ==
  ASSUME TypeOK, job.orig \in States
  PROVE  /\ Saved("orig") \in States
         /\ Saved("orig").kind = job.orig.kind /\ Saved("orig").active = job.orig.active
         /\ Saved("orig").conn = job.orig.conn /\ Saved("orig").rec = job.orig.rec
         /\ Saved("orig").busy = job.orig.busy /\ Saved("orig").tag = job.tag
         /\ Saved("orig").prepared = job.orig.active
<1>1. Saved("orig") = [job.orig EXCEPT !.tag = job.tag, !.prepared = job.orig.active]
  BY DEF Saved
<1>2. st \in States /\ job.tag \in Tags /\ job.mode \in Modes
  BY DEF TypeOK
<1> QED BY ONLY <1>1, <1>2, job.orig \in States DEF States, Tags, Modes

\* The state of a fail-open.
LEMMA SavedFailopen ==
  ASSUME TypeOK, job.base \in States
  PROVE  /\ Saved("failopen") \in States
         /\ Saved("failopen").kind = job.base.kind /\ Saved("failopen").active = job.base.active
         /\ ~Saved("failopen").conn /\ ~Saved("failopen").rec /\ ~Saved("failopen").busy
         /\ Saved("failopen").tag = "direct" /\ Saved("failopen").prepared = job.base.prepared
<1>1. Saved("failopen") = [job.base EXCEPT !.conn = FALSE, !.rec = FALSE, !.busy = FALSE, !.tag = "direct"]
  BY DEF Saved
<1>2. st \in States /\ job.tag \in Tags /\ job.mode \in Modes
  BY DEF TypeOK
<1> QED BY ONLY <1>1, <1>2, job.base \in States DEF States, Tags, Modes

\* The state when the recorded direct route was restored.
LEMMA SavedDirect ==
  ASSUME TypeOK
  PROVE  /\ Saved("direct") \in States
         /\ Saved("direct").kind = st.kind /\ Saved("direct").active = st.active /\ ~Saved("direct").conn
         /\ Saved("direct").rec = st.rec /\ ~Saved("direct").busy /\ Saved("direct").tag = "direct"
         /\ Saved("direct").prepared = st.prepared
<1>1. Saved("direct") = [st EXCEPT !.conn = FALSE, !.busy = FALSE, !.tag = "direct"]
  BY DEF Saved
<1>2. st \in States /\ job.tag \in Tags /\ job.mode \in Modes
  BY DEF TypeOK
<1> QED BY ONLY <1>1, <1>2 DEF States, Tags, Modes

\* The state when nothing could be restored.
LEMMA SavedFailed ==
  ASSUME TypeOK
  PROVE  /\ Saved("failed") \in States
         /\ Saved("failed").kind = st.kind /\ Saved("failed").active = st.active /\ ~Saved("failed").conn
         /\ Saved("failed").rec = st.rec /\ Saved("failed").busy = st.busy /\ Saved("failed").tag = st.tag
         /\ Saved("failed").prepared = st.prepared
<1>1. Saved("failed") = [st EXCEPT !.conn = FALSE]
  BY DEF Saved
<1>2. st \in States /\ job.tag \in Tags /\ job.mode \in Modes
  BY DEF TypeOK
<1> QED BY ONLY <1>1, <1>2 DEF States, Tags, Modes

\* The state after a removal.
LEMMA SavedRemoved ==
  ASSUME TypeOK, job.id \in Profile
  PROVE  /\ Saved("removed") \in States
         /\ Saved("removed").busy = st.busy
         /\ Saved("removed").prepared = IF st.prepared = job.id THEN None ELSE st.prepared
         /\ IF st.kind = "awg" /\ st.active = job.id
            THEN /\ Saved("removed").kind = "none" /\ Saved("removed").active = None /\ ~Saved("removed").conn
                 /\ Saved("removed").tag = "direct"
            ELSE /\ Saved("removed").kind = st.kind /\ Saved("removed").active = st.active
                 /\ Saved("removed").conn = st.conn /\ Saved("removed").tag = st.tag
<1> DEFINE s == [st EXCEPT !.probe[job.id] = "none", !.prepared = IF @ = job.id THEN None ELSE @]
<1>1. Saved("removed") = IF st.kind = "awg" /\ st.active = job.id THEN [Disconnected(s) EXCEPT !.busy = st.busy] ELSE s
  BY DEF Saved
<1>2. st \in States
  BY DEF TypeOK
<1>3. /\ s \in States /\ s.busy = st.busy /\ s.kind = st.kind /\ s.active = st.active /\ s.conn = st.conn /\ s.tag = st.tag
      /\ s.prepared = IF st.prepared = job.id THEN None ELSE st.prepared
  BY ONLY <1>2, job.id \in Profile DEF States
<1> HIDE DEF s
<1>4. CASE st.kind = "awg" /\ st.active = job.id
  <2> DEFINE r == Disconnected(s)
  <2>1. /\ r \in States /\ r.kind = "none" /\ r.active = None /\ ~r.conn /\ r.tag = "direct" /\ r.prepared = s.prepared
    BY ONLY <1>3 DEF States, Disconnected, Tags, Modes
  <2> HIDE DEF r
  <2>2. Saved("removed") = [r EXCEPT !.busy = st.busy]
    BY ONLY <1>1, <1>4 DEF r
  <2> QED BY ONLY <1>2, <1>3, <1>4, <2>1, <2>2 DEF States
<1>5. CASE ~(st.kind = "awg" /\ st.active = job.id)
  BY ONLY <1>1, <1>3, <1>5
<1> QED BY ONLY <1>4, <1>5

\* The effects of a save.
LEMMA SaveEffect ==
  ASSUME SaveState, NEW tag, todo.call = <<"save", tag>>
  PROVE  /\ st' = Saved(tag)
         /\ IF tag = "probe" /\ ~job.ok THEN Failed ELSE Go /\ odd' = odd \cup Overtaken(tag)
         /\ job' = IF tag = "intent" THEN [job EXCEPT !.base = st,
               !.prev = IF st.tag = "none" THEN "direct" ELSE st.tag] ELSE job
         /\ UNCHANGED <<addr, index, files, legacy, smode, net, iso, xr, heal, boot, owned, faults, ops>>
<1>1. PICK x \in Saves : /\ At("save", x)
                         /\ st' = Saved(x)
                         /\ IF x = "probe" /\ ~job.ok THEN Failed ELSE Go /\ odd' = odd \cup Overtaken(x)
                         /\ job' = IF x = "intent" THEN [job EXCEPT !.base = st,
                               !.prev = IF st.tag = "none" THEN "direct" ELSE st.tag] ELSE job
                         /\ UNCHANGED <<disk, runtime, smode, heal, owned, kept>>
  BY DEF SaveState
<1>2. x = tag
  BY <1>1 DEF At
<1> QED BY ONLY <1>1, <1>2 DEF disk, runtime, kept

\* A save that is not a failed probe goes on.
LEMMA SaveGo ==
  ASSUME SaveState, NEW tag, todo.call = <<"save", tag>>, tag \notin {"intent", "back"}, tag = "probe" => job.ok
  PROVE  /\ st' = Saved(tag) /\ todo' = todo.next
         /\ UNCHANGED <<addr, index, files, legacy, smode, net, iso, xr, job, heal, boot, owned, odd, faults, ops>>
<1>1. Overtaken(tag) = {}
  BY DEF Overtaken
<1> QED BY <1>1, SaveEffect DEF Go

\* The state is saved.
LEMMA SaveStep ==
  ASSUME NEW at, NEW t, TypeOK, Reached(at, t), SaveState
  PROVE  Inv'
<1> USE DEF Reached, Holds, Frame, OldLayout, Choice, Named, Route, Kept, Listed, NamedBy, Known, Excused, Lost, Sane,
            Connected, OtherActive, Recorded, Acting, Raising, Removing, Moving, Loading, Reloading, Importing,
            Isolated, Verifying, Configuring, Configured, Starting, Switching, Recording, Keeping, Returned, Settled,
            Erasing, Ceasing, Migrations, Connects, Checks, By, Entry, TypeOK
<1>1. CASE at = "adopt"
  <2>1. todo.call = <<"save", "adopted">> /\ todo.next = Prog("drop", t)
    BY ONLY <1>1, MovingProg, DoFields, Reached(at, t) DEF Reached
  <2>0. legacy \in Profile
    BY <1>1
  <2>2. todo' = Prog("drop", t) /\ UNCHANGED <<addr, index, files, legacy, smode, net, iso, xr, job, heal, boot, owned,
              odd, faults, ops>>
    BY ONLY <1>1, <2>1, SaveState, SaveGo
  <2>8. st' = Saved("adopted")
    BY ONLY <1>1, <2>1, SaveState, SaveGo
  <2>9. /\ st' \in States
        /\ st'.kind = st.kind /\ st'.active = (IF st.kind = "awg" THEN legacy ELSE st.active)
        /\ st'.conn = st.conn /\ st'.rec = st.rec /\ st'.busy = st.busy /\ st'.tag = st.tag
        /\ st'.prepared = (IF st.prepared = None THEN legacy ELSE st.prepared)
    BY ONLY <2>0, <2>8, TypeOK, SavedAdopted
  <2>3. t \in Migrations /\ Point("drop", t)
    BY ONLY <1>1, Reached(at, t), Passing DEF Reached, Checks, Connects, Migrations, Moving, Tracks
  <2>4. TypeOK'
    BY <1>1, <2>2, <2>3, <2>9
  <2>5. Holds("drop", t)'
    <3>1. Frame("drop", t)'
      BY <1>1, <2>2, <2>3, <2>9, ProfileAssumption
    <3>2. OldLayout("drop", t)'
      BY <1>1, <2>2, <2>3, <2>9, ProfileAssumption
    <3>3. Choice("drop", t)'
      BY <1>1, <2>2, <2>3, <2>9, ProfileAssumption
    <3>4. Named("drop", t)'
      BY <1>1, <2>2, <2>3, <2>9, ProfileAssumption
    <3>5. Route("drop", t)'
      BY <1>1, <2>2, <2>3, <2>9, ProfileAssumption
    <3>6. Kept("drop", t)'
      BY <1>1, <2>2, <2>3, <2>9, ProfileAssumption
    <3>7. Listed("drop", t)'
      BY <1>1, <2>2, <2>3, <2>9, ProfileAssumption
    <3> QED BY ONLY <3>1, <3>2, <3>3, <3>4, <3>5, <3>6, <3>7 DEF Holds
  <2> QED BY ONLY <2>2, <2>3, <2>4, <2>5 DEF Inv, Reached
<1>2. CASE at = "prepared"
  <2>1. todo.call = <<"save", "prepared">> /\ todo.next = Prog("ifup", t)
    BY ONLY <1>2, ConfiguredProg, DoFields, Reached(at, t) DEF Reached
  <2>0. job.id \in Profile
    BY <1>2
  <2>2. todo' = Prog("ifup", t) /\ UNCHANGED <<addr, index, files, legacy, smode, net, iso, xr, job, heal, boot, owned,
              odd, faults, ops>>
    BY ONLY <1>2, <2>1, SaveState, SaveGo
  <2>8. st' = Saved("prepared")
    BY ONLY <1>2, <2>1, SaveState, SaveGo
  <2>9. /\ st' \in States
        /\ st'.kind = st.kind /\ st'.active = st.active /\ st'.conn = st.conn /\ st'.rec = st.rec
        /\ st'.busy = st.busy /\ st'.tag = st.tag /\ st'.prepared = job.id
    BY ONLY <2>0, <2>8, TypeOK, SavedPrepared
  <2>3. t \in {"connect", "attempt"} /\ Point("ifup", t)
    BY ONLY <1>2, Reached(at, t), Passing DEF Reached, Checks, Configured, Connects, Migrations, Tracks, Verifying
  <2>4. TypeOK'
    BY <1>2, <2>2, <2>3, <2>9
  <2>5. Holds("ifup", t)'
    <3>1. Frame("ifup", t)'
      BY <1>2, <2>2, <2>3, <2>9, ProfileAssumption
    <3>2. OldLayout("ifup", t)'
      BY <1>2, <2>2, <2>3, <2>9, ProfileAssumption
    <3>3. Choice("ifup", t)'
      BY <1>2, <2>2, <2>3, <2>9, ProfileAssumption
    <3>4. Named("ifup", t)'
      BY <1>2, <2>2, <2>3, <2>9, ProfileAssumption
    <3>5. Route("ifup", t)'
      BY <1>2, <2>2, <2>3, <2>9, ProfileAssumption
    <3>6. Kept("ifup", t)'
      BY <1>2, <2>2, <2>3, <2>9, ProfileAssumption
    <3>7. Listed("ifup", t)'
      BY <1>2, <2>2, <2>3, <2>9, ProfileAssumption
    <3> QED BY ONLY <3>1, <3>2, <3>3, <3>4, <3>5, <3>6, <3>7 DEF Holds
  <2> QED BY ONLY <2>2, <2>3, <2>4, <2>5 DEF Inv, Reached
<1>3. CASE at = "note" /\ job.ok
  <2>1. todo.call = <<"save", "probe">> /\ todo.next = Verified(t)
    BY ONLY <1>3, VerifyingProg, DoFields, Reached(at, t) DEF Reached
  <2>0. job.id \in Profile
    BY <1>3
  <2>2. todo' = Verified(t) /\ UNCHANGED <<addr, index, files, legacy, smode, net, iso, xr, job, heal, boot, owned, odd,
              faults, ops>>
    BY ONLY <1>3, <2>1, SaveState, SaveGo
  <2>8. st' = Saved("probe")
    BY ONLY <1>3, <2>1, SaveState, SaveGo
  <2>9. /\ st' \in States
        /\ st'.kind = st.kind /\ st'.active = st.active /\ st'.conn = st.conn /\ st'.rec = st.rec
        /\ st'.busy = st.busy /\ st'.tag = st.tag /\ st'.prepared = st.prepared
    BY ONLY <2>0, <2>8, TypeOK, SavedProbe
  <2>3. t \in Checks \cup Connects
    BY ONLY <1>3, Reached(at, t), Passing DEF Reached, Verifying
  <2>4. TypeOK'
    BY <1>3, <2>2, <2>3, <2>9
  <2>5. CASE t = "check"
    <3>1. todo' = Prog("end", t)
      BY ONLY <2>2, <2>5, <2>3, BranchProg, ProgAt DEF Connects, Checks, Migrations
    <3>2. Point("end", t)
      BY ONLY <2>5, <2>3, Passing DEF Checks, Connects, Migrations, Tracks
    <3>3. Holds("end", t)'
      <4>1. Frame("end", t)'
        BY <1>3, <2>2, <2>3, <2>5, <2>9, ProfileAssumption
      <4>2. OldLayout("end", t)'
        BY <1>3, <2>2, <2>3, <2>5, <2>9, ProfileAssumption
      <4>3. Choice("end", t)'
        BY <1>3, <2>2, <2>3, <2>5, <2>9, ProfileAssumption
      <4>4. Named("end", t)'
        BY <1>3, <2>2, <2>3, <2>5, <2>9, ProfileAssumption
      <4>5. Route("end", t)'
        BY <1>3, <2>2, <2>3, <2>5, <2>9, ProfileAssumption
      <4>6. Kept("end", t)'
        BY <1>3, <2>2, <2>3, <2>5, <2>9, ProfileAssumption
      <4>7. Listed("end", t)'
        BY <1>3, <2>2, <2>3, <2>5, <2>9, ProfileAssumption
      <4> QED BY ONLY <4>1, <4>2, <4>3, <4>4, <4>5, <4>6, <4>7 DEF Holds
    <3> QED BY ONLY <2>4, <3>1, <3>2, <3>3 DEF Inv, Reached
  <2>6. CASE t = "heal"
    <3>1. todo' = Prog("on", t)
      BY ONLY <2>2, <2>6, <2>3, BranchProg, ProgAt DEF Connects, Checks, Migrations
    <3>2. Point("on", t)
      BY ONLY <2>6, <2>3, Passing DEF Checks, Connects, Healing, Migrations, Tracks
    <3>3. Holds("on", t)'
      <4>1. Frame("on", t)'
        BY <1>3, <2>2, <2>3, <2>6, <2>9, ProfileAssumption
      <4>2. OldLayout("on", t)'
        BY <1>3, <2>2, <2>3, <2>6, <2>9, ProfileAssumption
      <4>3. Choice("on", t)'
        BY <1>3, <2>2, <2>3, <2>6, <2>9, ProfileAssumption
      <4>4. Named("on", t)'
        BY <1>3, <2>2, <2>3, <2>6, <2>9, ProfileAssumption
      <4>5. Route("on", t)'
        BY <1>3, <2>2, <2>3, <2>6, <2>9, ProfileAssumption
      <4>6. Kept("on", t)'
        BY <1>3, <2>2, <2>3, <2>6, <2>9, ProfileAssumption
      <4>7. Listed("on", t)'
        BY <1>3, <2>2, <2>3, <2>6, <2>9, ProfileAssumption
      <4> QED BY ONLY <4>1, <4>2, <4>3, <4>4, <4>5, <4>6, <4>7 DEF Holds
    <3> QED BY ONLY <2>4, <3>1, <3>2, <3>3 DEF Inv, Reached
  <2>7. CASE t \in Connects
    <3>1. todo' = Prog("intent", t)
      BY ONLY <2>2, <2>7, <2>3, BranchProg, ProgAt DEF Connects, Checks, Migrations
    <3>2. Point("intent", t)
      BY ONLY <2>7, <2>3, Passing DEF Checks, Connects, Migrations, Starting, Tracks
    <3>3. Holds("intent", t)'
      <4>1. Frame("intent", t)'
        BY <1>3, <2>2, <2>3, <2>7, <2>9, ProfileAssumption
      <4>2. OldLayout("intent", t)'
        BY <1>3, <2>2, <2>3, <2>7, <2>9, ProfileAssumption
      <4>3. Choice("intent", t)'
        BY <1>3, <2>2, <2>3, <2>7, <2>9, ProfileAssumption
      <4>4. Named("intent", t)'
        BY <1>3, <2>2, <2>3, <2>7, <2>9, ProfileAssumption
      <4>5. Route("intent", t)'
        BY <1>3, <2>2, <2>3, <2>7, <2>9, ProfileAssumption
      <4>6. Kept("intent", t)'
        BY <1>3, <2>2, <2>3, <2>7, <2>9, ProfileAssumption
      <4>7. Listed("intent", t)'
        BY <1>3, <2>2, <2>3, <2>7, <2>9, ProfileAssumption
      <4> QED BY ONLY <4>1, <4>2, <4>3, <4>4, <4>5, <4>6, <4>7 DEF Holds
    <3> QED BY ONLY <2>4, <3>1, <3>2, <3>3 DEF Inv, Reached
  <2> QED BY ONLY <2>3, <2>5, <2>6, <2>7 DEF Connects, Checks
<1>4. CASE at = "iso_note" /\ job.ok
  <2>1. todo.call = <<"save", "probe">> /\ todo.next = Prog("iso_end", t)
    BY ONLY <1>4, IsolatedProg, DoFields, Reached(at, t) DEF Reached
  <2>0. job.id \in Profile
    BY <1>4
  <2>2. todo' = Prog("iso_end", t) /\ UNCHANGED <<addr, index, files, legacy, smode, net, iso, xr, job, heal, boot, owned,
              odd, faults, ops>>
    BY ONLY <1>4, <2>1, SaveState, SaveGo
  <2>8. st' = Saved("probe")
    BY ONLY <1>4, <2>1, SaveState, SaveGo
  <2>9. /\ st' \in States
        /\ st'.kind = st.kind /\ st'.active = st.active /\ st'.conn = st.conn /\ st'.rec = st.rec
        /\ st'.busy = st.busy /\ st'.tag = st.tag /\ st'.prepared = st.prepared
    BY ONLY <2>0, <2>8, TypeOK, SavedProbe
  <2>3. t \in Checks \cup {"connect"} /\ Point("iso_end", t)
    BY ONLY <1>4, Reached(at, t), Passing DEF Reached, Checks, Connects, Isolated, Migrations, Tracks
  <2>4. TypeOK'
    BY <1>4, <2>2, <2>3, <2>9
  <2>5. Holds("iso_end", t)'
    <3>1. Frame("iso_end", t)'
      BY <1>4, <2>2, <2>3, <2>9, ProfileAssumption
    <3>2. OldLayout("iso_end", t)'
      BY <1>4, <2>2, <2>3, <2>9, ProfileAssumption
    <3>3. Choice("iso_end", t)'
      BY <1>4, <2>2, <2>3, <2>9, ProfileAssumption
    <3>4. Named("iso_end", t)'
      BY <1>4, <2>2, <2>3, <2>9, ProfileAssumption
    <3>5. Route("iso_end", t)'
      BY <1>4, <2>2, <2>3, <2>9, ProfileAssumption
    <3>6. Kept("iso_end", t)'
      BY <1>4, <2>2, <2>3, <2>9, ProfileAssumption
    <3>7. Listed("iso_end", t)'
      BY <1>4, <2>2, <2>3, <2>9, ProfileAssumption
    <3> QED BY ONLY <3>1, <3>2, <3>3, <3>4, <3>5, <3>6, <3>7 DEF Holds
  <2> QED BY ONLY <2>2, <2>3, <2>4, <2>5 DEF Inv, Reached
<1>5. CASE at = "intent"
  <2>1. todo.call = <<"save", "intent">> /\ todo.next = Prog("select", t)
    BY ONLY <1>5, StartingProg, DoFields, Reached(at, t) DEF Reached
  <2>10. st.tag \in Tags /\ "direct" \in Tags /\ st \in States
    BY ONLY TypeOK DEF TypeOK, States, Tags
  <2>11. Saved("intent") = [st EXCEPT !.rec = TRUE, !.busy = TRUE]
    BY ONLY DEF Saved
  <2>2. /\ st' = Saved("intent") /\ odd' = odd /\ job' = [job EXCEPT !.base = st,
              !.prev = IF st.tag = "none" THEN "direct" ELSE st.tag]
        /\ todo' = Prog("select", t) /\ UNCHANGED <<addr, index, files, legacy, smode, net, iso, xr, heal, boot, owned,
              odd, faults, ops>>
    BY ONLY <1>5, <2>1, SaveState, SaveEffect, SavedIntent DEF Go, Overtaken
  <2>8. st' = Saved("intent")
    BY ONLY <1>5, <2>1, SaveState, SaveEffect, SavedIntent DEF Go, Overtaken
  <2>9. /\ st' \in States
        /\ st'.kind = st.kind /\ st'.active = st.active /\ st'.conn = st.conn /\ st'.rec /\ st'.busy
        /\ st'.tag = st.tag /\ st'.prepared = st.prepared
    BY ONLY <2>8, TypeOK, SavedIntent
  <2>3. t \in Connects /\ Point("select", t)
    BY ONLY <1>5, Reached(at, t), Passing DEF Reached, Checks, Connects, Migrations, Starting, Switching, Tracks
  <2>4. TypeOK'
    BY <1>5, <2>2, <2>3, <2>9, <2>10
  <2>5. Holds("select", t)'
    <3>1. Frame("select", t)'
      BY <1>5, <2>2, <2>3, <2>9, ProfileAssumption, <2>10, <2>11
    <3>2. OldLayout("select", t)'
      BY <1>5, <2>2, <2>3, <2>9, ProfileAssumption, <2>10, <2>11
    <3>3. Choice("select", t)'
      BY <1>5, <2>2, <2>3, <2>9, ProfileAssumption, <2>10, <2>11
    <3>4. Named("select", t)'
      BY <1>5, <2>2, <2>3, <2>9, ProfileAssumption, <2>10, <2>11
    <3>5. Route("select", t)'
      BY <1>5, <2>2, <2>3, <2>9, ProfileAssumption, <2>10, <2>11
    <3>6. Kept("select", t)'
      BY <1>5, <2>2, <2>3, <2>9, ProfileAssumption, <2>10, <2>11
    <3>7. Listed("select", t)'
      BY <1>5, <2>2, <2>3, <2>9, ProfileAssumption, <2>10, <2>11
    <3> QED BY ONLY <3>1, <3>2, <3>3, <3>4, <3>5, <3>6, <3>7 DEF Holds
  <2> QED BY ONLY <2>2, <2>3, <2>4, <2>5 DEF Inv, Reached
<1>6. CASE at = "back"
  <2>1. todo.call = <<"save", "back">> /\ todo.next = Prog(Entry(t), t)
    BY ONLY <1>6, SwitchingProg, DoFields, Reached(at, t), HandlerProg DEF Reached
  <2>0. job.base \in States
    BY <1>6
  <2>10. st.busy /\ st.kind = job.base.kind /\ st.conn = job.base.conn /\ st.tag = job.base.tag
         /\ st.active = job.base.active /\ st.prepared = job.base.prepared
    <3>1. at \in Switching
      BY ONLY <1>6 DEF Switching
    <3> QED BY ONLY <3>1, Reached(at, t), Based
  <2>2. /\ odd' = odd \cup Overtaken("back")
        /\ todo' = Prog(Entry(t), t) /\ UNCHANGED <<addr, index, files, legacy, smode, net, iso, xr, job, heal, boot,
              owned, faults, ops>>
    BY ONLY <1>6, <2>1, SaveState, SaveEffect DEF Go
  <2>8. st' = Saved("back")
    BY ONLY <1>6, <2>1, SaveState, SaveEffect DEF Go
  <2>9. /\ st' \in States
        /\ st'.kind = job.base.kind /\ st'.active = job.base.active /\ st'.conn = job.base.conn
        /\ st'.rec = job.base.rec /\ ~st'.busy /\ st'.tag = job.base.tag /\ st'.prepared = job.base.prepared
    BY ONLY <2>0, <2>8, TypeOK, SavedBack
  <2>3. t \in Connects
    BY ONLY <1>6, Reached(at, t), Passing DEF Reached, Switching
  <2>4. TypeOK'
    BY <1>6, <2>2, <2>3, <2>9 DEF Overtaken
  <2>5. CASE t = "restore"
    <3>1. todo' = Prog("open_select", t)
      BY ONLY <2>2, <2>5, <2>3, BranchProg, ProgAt DEF Connects, Checks, Migrations, Entry
    <3>2. Point("open_select", t)
      BY ONLY <2>5, <2>3, Passing DEF Checks, Connects, Migrations, Opening, Tracks
    <3>3. Holds("open_select", t)'
      <4>1. Frame("open_select", t)'
        BY <1>6, <2>2, <2>3, <2>5, <2>9, ProfileAssumption, <2>10 DEF Overtaken
      <4>2. OldLayout("open_select", t)'
        BY <1>6, <2>2, <2>3, <2>5, <2>9, ProfileAssumption, <2>10 DEF Overtaken
      <4>3. Choice("open_select", t)'
        BY <1>6, <2>2, <2>3, <2>5, <2>9, ProfileAssumption, <2>10 DEF Overtaken
      <4>4. Named("open_select", t)'
        BY <1>6, <2>2, <2>3, <2>5, <2>9, ProfileAssumption, <2>10 DEF Overtaken
      <4>5. Route("open_select", t)'
        BY <1>6, <2>2, <2>3, <2>5, <2>9, ProfileAssumption, <2>10 DEF Overtaken
      <4>6. Kept("open_select", t)'
        BY <1>6, <2>2, <2>3, <2>5, <2>9, ProfileAssumption, <2>10 DEF Overtaken
      <4>7. Listed("open_select", t)'
        BY <1>6, <2>2, <2>3, <2>5, <2>9, ProfileAssumption, <2>10 DEF Overtaken
      <4> QED BY ONLY <4>1, <4>2, <4>3, <4>4, <4>5, <4>6, <4>7 DEF Holds
    <3> QED BY ONLY <2>4, <3>1, <3>2, <3>3 DEF Inv, Reached
  <2>6. CASE t = "attempt"
    <3>1. todo' = Prog("ret_profile", t)
      BY ONLY <2>2, <2>6, <2>3, BranchProg, ProgAt DEF Connects, Checks, Migrations, Entry
    <3>2. Point("ret_profile", t)
      BY ONLY <2>6, <2>3, Passing DEF Checks, Connects, Migrations, Returning, Tracks
    <3>3. Holds("ret_profile", t)'
      <4>1. Frame("ret_profile", t)'
        BY <1>6, <2>2, <2>3, <2>6, <2>9, ProfileAssumption, <2>10 DEF Overtaken
      <4>2. OldLayout("ret_profile", t)'
        BY <1>6, <2>2, <2>3, <2>6, <2>9, ProfileAssumption, <2>10 DEF Overtaken
      <4>3. Choice("ret_profile", t)'
        BY <1>6, <2>2, <2>3, <2>6, <2>9, ProfileAssumption, <2>10 DEF Overtaken
      <4>4. Named("ret_profile", t)'
        BY <1>6, <2>2, <2>3, <2>6, <2>9, ProfileAssumption, <2>10 DEF Overtaken
      <4>5. Route("ret_profile", t)'
        BY <1>6, <2>2, <2>3, <2>6, <2>9, ProfileAssumption, <2>10 DEF Overtaken
      <4>6. Kept("ret_profile", t)'
        BY <1>6, <2>2, <2>3, <2>6, <2>9, ProfileAssumption, <2>10 DEF Overtaken
      <4>7. Listed("ret_profile", t)'
        BY <1>6, <2>2, <2>3, <2>6, <2>9, ProfileAssumption, <2>10 DEF Overtaken
      <4> QED BY ONLY <4>1, <4>2, <4>3, <4>4, <4>5, <4>6, <4>7 DEF Holds
    <3> QED BY ONLY <2>4, <3>1, <3>2, <3>3 DEF Inv, Reached
  <2>7. CASE t \in {"connect", "reapply"}
    <3>1. todo' = Prog("end", t)
      BY ONLY <2>2, <2>7, <2>3, BranchProg, ProgAt DEF Connects, Checks, Migrations, Entry
    <3>2. Point("end", t)
      BY ONLY <2>7, <2>3, Passing DEF Checks, Connects, Migrations, Tracks
    <3>3. Holds("end", t)'
      <4>1. Frame("end", t)'
        BY <1>6, <2>2, <2>3, <2>7, <2>9, ProfileAssumption, <2>10 DEF Overtaken
      <4>2. OldLayout("end", t)'
        BY <1>6, <2>2, <2>3, <2>7, <2>9, ProfileAssumption, <2>10 DEF Overtaken
      <4>3. Choice("end", t)'
        BY <1>6, <2>2, <2>3, <2>7, <2>9, ProfileAssumption, <2>10 DEF Overtaken
      <4>4. Named("end", t)'
        BY <1>6, <2>2, <2>3, <2>7, <2>9, ProfileAssumption, <2>10 DEF Overtaken
      <4>5. Route("end", t)'
        BY <1>6, <2>2, <2>3, <2>7, <2>9, ProfileAssumption, <2>10 DEF Overtaken
      <4>6. Kept("end", t)'
        BY <1>6, <2>2, <2>3, <2>7, <2>9, ProfileAssumption, <2>10 DEF Overtaken
      <4>7. Listed("end", t)'
        BY <1>6, <2>2, <2>3, <2>7, <2>9, ProfileAssumption, <2>10 DEF Overtaken
      <4> QED BY ONLY <4>1, <4>2, <4>3, <4>4, <4>5, <4>6, <4>7 DEF Holds
    <3> QED BY ONLY <2>4, <3>1, <3>2, <3>3 DEF Inv, Reached
  <2> QED BY ONLY <2>3, <2>5, <2>6, <2>7 DEF Connects, Checks
<1>7. CASE at = "connected"
  <2>1. todo.call = <<"save", "connected">> /\ todo.next = Prog("mode", t)
    BY ONLY <1>7, SwitchingProg, DoFields, Reached(at, t) DEF Reached
  <2>0. job.id \in Profile
    BY <1>7
  <2>2. todo' = Prog("mode", t) /\ UNCHANGED <<addr, index, files, legacy, smode, net, iso, xr, job, heal, boot, owned,
              odd, faults, ops>>
    BY ONLY <1>7, <2>1, SaveState, SaveGo
  <2>8. st' = Saved("connected")
    BY ONLY <1>7, <2>1, SaveState, SaveGo
  <2>9. /\ st' \in States
        /\ st'.kind = "awg" /\ st'.active = job.id /\ st'.conn /\ ~st'.rec /\ ~st'.busy /\ st'.tag = job.tag
        /\ st'.prepared = st.prepared
    BY ONLY <2>0, <2>8, TypeOK, SavedConnected
  <2>3. t \in Connects /\ Point("mode", t)
    BY ONLY <1>7, Reached(at, t), Passing DEF Reached, Checks, Connects, Migrations, Recording, Switching, Tracks
  <2>4. TypeOK'
    BY <1>7, <2>2, <2>3, <2>9
  <2>5. Holds("mode", t)'
    <3>1. Frame("mode", t)'
      BY <1>7, <2>2, <2>3, <2>9, ProfileAssumption
    <3>2. OldLayout("mode", t)'
      BY <1>7, <2>2, <2>3, <2>9, ProfileAssumption
    <3>3. Choice("mode", t)'
      BY <1>7, <2>2, <2>3, <2>9, ProfileAssumption
    <3>4. Named("mode", t)'
      BY <1>7, <2>2, <2>3, <2>9, ProfileAssumption
    <3>5. Route("mode", t)'
      BY <1>7, <2>2, <2>3, <2>9, ProfileAssumption
    <3>6. Kept("mode", t)'
      BY <1>7, <2>2, <2>3, <2>9, ProfileAssumption
    <3>7. Listed("mode", t)'
      BY <1>7, <2>2, <2>3, <2>9, ProfileAssumption
    <3> QED BY ONLY <3>1, <3>2, <3>3, <3>4, <3>5, <3>6, <3>7 DEF Holds
  <2> QED BY ONLY <2>2, <2>3, <2>4, <2>5 DEF Inv, Reached
<1>8. CASE at = "end_save"
  <2>1. todo.call = <<"save", "disconnected">> /\ todo.next = Prog("end_mode", t)
    BY ONLY <1>8, EndingProg, DoFields, Reached(at, t) DEF Reached
  <2>2. todo' = Prog("end_mode", t) /\ UNCHANGED <<addr, index, files, legacy, smode, net, iso, xr, job, heal, boot, owned,
              odd, faults, ops>>
    BY ONLY <1>8, <2>1, SaveState, SaveGo
  <2>8. st' = Saved("disconnected")
    BY ONLY <1>8, <2>1, SaveState, SaveGo
  <2>9. /\ st' \in States
        /\ st'.kind = "none" /\ st'.active = None /\ ~st'.conn /\ ~st'.rec /\ ~st'.busy /\ st'.tag = "direct"
        /\ st'.prepared = st.prepared
    BY ONLY <2>8, TypeOK, SavedDisconnected
  <2>3. t \in {"disconnect", "attempt"} /\ Point("end_mode", t)
    BY ONLY <1>8, Reached(at, t), Passing DEF Reached, Checks, Connects, Ending, Migrations, Tracks
  <2>4. TypeOK'
    BY <1>8, <2>2, <2>3, <2>9
  <2>5. Holds("end_mode", t)'
    <3>1. Frame("end_mode", t)'
      BY <1>8, <2>2, <2>3, <2>9, ProfileAssumption
    <3>2. OldLayout("end_mode", t)'
      BY <1>8, <2>2, <2>3, <2>9, ProfileAssumption
    <3>3. Choice("end_mode", t)'
      BY <1>8, <2>2, <2>3, <2>9, ProfileAssumption
    <3>4. Named("end_mode", t)'
      BY <1>8, <2>2, <2>3, <2>9, ProfileAssumption
    <3>5. Route("end_mode", t)'
      BY <1>8, <2>2, <2>3, <2>9, ProfileAssumption
    <3>6. Kept("end_mode", t)'
      BY <1>8, <2>2, <2>3, <2>9, ProfileAssumption
    <3>7. Listed("end_mode", t)'
      BY <1>8, <2>2, <2>3, <2>9, ProfileAssumption
    <3> QED BY ONLY <3>1, <3>2, <3>3, <3>4, <3>5, <3>6, <3>7 DEF Holds
  <2> QED BY ONLY <2>2, <2>3, <2>4, <2>5 DEF Inv, Reached
<1>9. CASE at = "ret_save"
  <2>1. todo.call = <<"save", "orig">> /\ todo.next = Prog("ret_mode", t)
    BY ONLY <1>9, ReturnedProg, DoFields, Reached(at, t) DEF Reached
  <2>0. job.orig \in States
    BY <1>9, Passing
  <2>2. todo' = Prog("ret_mode", t) /\ UNCHANGED <<addr, index, files, legacy, smode, net, iso, xr, job, heal, boot, owned,
              odd, faults, ops>>
    BY ONLY <1>9, <2>1, SaveState, SaveGo
  <2>8. st' = Saved("orig")
    BY ONLY <1>9, <2>1, SaveState, SaveGo
  <2>9. /\ st' \in States
        /\ st'.kind = job.orig.kind /\ st'.active = job.orig.active /\ st'.conn = job.orig.conn
        /\ st'.rec = job.orig.rec /\ st'.busy = job.orig.busy /\ st'.tag = job.tag
        /\ st'.prepared = job.orig.active
    BY ONLY <2>0, <2>8, TypeOK, SavedOrig
  <2>3. t \in {"attempt"} /\ Point("ret_mode", t)
    BY ONLY <1>9, Reached(at, t), Passing DEF Reached, Checks, Connects, Migrations, Returned, Settled, Tracks
  <2>4. TypeOK'
    BY <1>9, <2>2, <2>3, <2>9
  <2>5. Holds("ret_mode", t)'
    <3>1. Frame("ret_mode", t)'
      BY <1>9, <2>2, <2>3, <2>9, ProfileAssumption
    <3>2. OldLayout("ret_mode", t)'
      BY <1>9, <2>2, <2>3, <2>9, ProfileAssumption
    <3>3. Choice("ret_mode", t)'
      BY <1>9, <2>2, <2>3, <2>9, ProfileAssumption
    <3>4. Named("ret_mode", t)'
      BY <1>9, <2>2, <2>3, <2>9, ProfileAssumption
    <3>5. Route("ret_mode", t)'
      BY <1>9, <2>2, <2>3, <2>9, ProfileAssumption
    <3>6. Kept("ret_mode", t)'
      BY <1>9, <2>2, <2>3, <2>9, ProfileAssumption
    <3>7. Listed("ret_mode", t)'
      BY <1>9, <2>2, <2>3, <2>9, ProfileAssumption
    <3> QED BY ONLY <3>1, <3>2, <3>3, <3>4, <3>5, <3>6, <3>7 DEF Holds
  <2> QED BY ONLY <2>2, <2>3, <2>4, <2>5 DEF Inv, Reached
<1>10. CASE at = "rm_save"
  <2>1. todo.call = <<"save", "removed">> /\ todo.next = Removed(t)
    BY ONLY <1>10, ErasingProg, DoFields, Reached(at, t) DEF Reached
  <2>0. job.id \in Profile
    BY <1>10
  <2>2. todo' = Removed(t) /\ UNCHANGED <<addr, index, files, legacy, smode, net, iso, xr, job, heal, boot, owned, odd,
              faults, ops>>
    BY ONLY <1>10, <2>1, SaveState, SaveGo
  <2>8. st' = Saved("removed")
    BY ONLY <1>10, <2>1, SaveState, SaveGo
  <2>9. /\ st' \in States
        /\ st'.busy = st.busy /\ st'.prepared = IF st.prepared = job.id THEN None ELSE st.prepared
        /\ IF st.kind = "awg" /\ st.active = job.id
           THEN st'.kind = "none" /\ st'.active = None /\ ~st'.conn /\ st'.tag = "direct"
           ELSE st'.kind = st.kind /\ st'.active = st.active /\ st'.conn = st.conn /\ st'.tag = st.tag
    BY ONLY <2>0, <2>8, TypeOK, SavedRemoved
  <2>3. t \in {"remove", "active"}
    BY ONLY <1>10, Reached(at, t), Passing DEF Reached, Erasing
  <2>4. TypeOK'
    BY <1>10, <2>2, <2>3, <2>9
  <2>5. CASE t = "active"
    <3>1. todo' = Prog("rm_mode", t)
      BY ONLY <2>2, <2>5, <2>3, BranchProg, ProgAt DEF Connects, Checks, Migrations
    <3>2. Point("rm_mode", t)
      BY ONLY <2>5, <2>3, Passing DEF Ceasing, Checks, Connects, Migrations, Tracks
    <3>3. Holds("rm_mode", t)'
      <4>1. Frame("rm_mode", t)'
        BY <1>10, <2>2, <2>3, <2>5, <2>9, ProfileAssumption
      <4>2. OldLayout("rm_mode", t)'
        BY <1>10, <2>2, <2>3, <2>5, <2>9, ProfileAssumption
      <4>3. Choice("rm_mode", t)'
        BY <1>10, <2>2, <2>3, <2>5, <2>9, ProfileAssumption
      <4>4. Named("rm_mode", t)'
        BY <1>10, <2>2, <2>3, <2>5, <2>9, ProfileAssumption
      <4>5. Route("rm_mode", t)'
        BY <1>10, <2>2, <2>3, <2>5, <2>9, ProfileAssumption
      <4>6. Kept("rm_mode", t)'
        BY <1>10, <2>2, <2>3, <2>5, <2>9, ProfileAssumption
      <4>7. Listed("rm_mode", t)'
        BY <1>10, <2>2, <2>3, <2>5, <2>9, ProfileAssumption
      <4> QED BY ONLY <4>1, <4>2, <4>3, <4>4, <4>5, <4>6, <4>7 DEF Holds
    <3> QED BY ONLY <2>4, <3>1, <3>2, <3>3 DEF Inv, Reached
  <2>6. CASE t # "active"
    <3>1. todo' = Prog("end", t)
      BY ONLY <2>2, <2>6, <2>3, BranchProg, ProgAt DEF Connects, Checks, Migrations
    <3>2. Point("end", t)
      BY ONLY <2>6, <2>3, Passing DEF Checks, Connects, Migrations, Tracks
    <3>3. Holds("end", t)'
      <4>1. Frame("end", t)'
        BY <1>10, <2>2, <2>3, <2>6, <2>9, ProfileAssumption
      <4>2. OldLayout("end", t)'
        BY <1>10, <2>2, <2>3, <2>6, <2>9, ProfileAssumption
      <4>3. Choice("end", t)'
        BY <1>10, <2>2, <2>3, <2>6, <2>9, ProfileAssumption
      <4>4. Named("end", t)'
        BY <1>10, <2>2, <2>3, <2>6, <2>9, ProfileAssumption
      <4>5. Route("end", t)'
        BY <1>10, <2>2, <2>3, <2>6, <2>9, ProfileAssumption
      <4>6. Kept("end", t)'
        BY <1>10, <2>2, <2>3, <2>6, <2>9, ProfileAssumption
      <4>7. Listed("end", t)'
        BY <1>10, <2>2, <2>3, <2>6, <2>9, ProfileAssumption
      <4> QED BY ONLY <4>1, <4>2, <4>3, <4>4, <4>5, <4>6, <4>7 DEF Holds
    <3> QED BY ONLY <2>4, <3>1, <3>2, <3>3 DEF Inv, Reached
  <2> QED BY ONLY <2>3, <2>5, <2>6 DEF Connects, Checks
<1>11. CASE at = "open_save"
  <2>1. todo.call = <<"save", "failopen">> /\ todo.next = Prog("end", t)
    BY ONLY <1>11, OpeningProg, DoFields, Reached(at, t), ProgAt DEF Reached
  <2>0. job.base \in States
    BY <1>11
  <2>2. todo' = Prog("end", t) /\ UNCHANGED <<addr, index, files, legacy, smode, net, iso, xr, job, heal, boot, owned, odd,
              faults, ops>>
    BY ONLY <1>11, <2>1, SaveState, SaveGo
  <2>8. st' = Saved("failopen")
    BY ONLY <1>11, <2>1, SaveState, SaveGo
  <2>9. /\ st' \in States
        /\ st'.kind = job.base.kind /\ st'.active = job.base.active /\ ~st'.conn /\ ~st'.rec /\ ~st'.busy
        /\ st'.tag = "direct" /\ st'.prepared = job.base.prepared
    BY ONLY <2>0, <2>8, TypeOK, SavedFailopen
  <2>3. t \in {"failopen", "restore"} /\ Point("end", t)
    BY ONLY <1>11, Reached(at, t), Passing DEF Reached, Checks, Connects, Migrations, Opening, Tracks
  <2>4. TypeOK'
    BY <1>11, <2>2, <2>3, <2>9
  <2>5. Holds("end", t)'
    <3>1. Frame("end", t)'
      BY <1>11, <2>2, <2>3, <2>9, ProfileAssumption
    <3>2. OldLayout("end", t)'
      BY <1>11, <2>2, <2>3, <2>9, ProfileAssumption
    <3>3. Choice("end", t)'
      BY <1>11, <2>2, <2>3, <2>9, ProfileAssumption
    <3>4. Named("end", t)'
      BY <1>11, <2>2, <2>3, <2>9, ProfileAssumption
    <3>5. Route("end", t)'
      BY <1>11, <2>2, <2>3, <2>9, ProfileAssumption
    <3>6. Kept("end", t)'
      BY <1>11, <2>2, <2>3, <2>9, ProfileAssumption
    <3>7. Listed("end", t)'
      BY <1>11, <2>2, <2>3, <2>9, ProfileAssumption
    <3> QED BY ONLY <3>1, <3>2, <3>3, <3>4, <3>5, <3>6, <3>7 DEF Holds
  <2> QED BY ONLY <2>2, <2>3, <2>4, <2>5 DEF Inv, Reached
<1>12. CASE at = "direct_save"
  <2>1. todo.call = <<"save", "direct">> /\ todo.next = Prog("end", t)
    BY ONLY <1>12, RestoringProg, DoFields, Reached(at, t), ProgAt DEF Reached
  <2>2. todo' = Prog("end", t) /\ UNCHANGED <<addr, index, files, legacy, smode, net, iso, xr, job, heal, boot, owned, odd,
              faults, ops>>
    BY ONLY <1>12, <2>1, SaveState, SaveGo
  <2>8. st' = Saved("direct")
    BY ONLY <1>12, <2>1, SaveState, SaveGo
  <2>9. /\ st' \in States
        /\ st'.kind = st.kind /\ st'.active = st.active /\ ~st'.conn /\ st'.rec = st.rec /\ ~st'.busy
        /\ st'.tag = "direct" /\ st'.prepared = st.prepared
    BY ONLY <2>8, TypeOK, SavedDirect
  <2>3. t \in {"restore"} /\ Point("end", t)
    BY ONLY <1>12, Reached(at, t), Passing DEF Reached, Checks, Connects, Migrations, Restoring, Tracks
  <2>4. TypeOK'
    BY <1>12, <2>2, <2>3, <2>9
  <2>5. Holds("end", t)'
    <3>1. Frame("end", t)'
      BY <1>12, <2>2, <2>3, <2>9, ProfileAssumption
    <3>2. OldLayout("end", t)'
      BY <1>12, <2>2, <2>3, <2>9, ProfileAssumption
    <3>3. Choice("end", t)'
      BY <1>12, <2>2, <2>3, <2>9, ProfileAssumption
    <3>4. Named("end", t)'
      BY <1>12, <2>2, <2>3, <2>9, ProfileAssumption
    <3>5. Route("end", t)'
      BY <1>12, <2>2, <2>3, <2>9, ProfileAssumption
    <3>6. Kept("end", t)'
      BY <1>12, <2>2, <2>3, <2>9, ProfileAssumption
    <3>7. Listed("end", t)'
      BY <1>12, <2>2, <2>3, <2>9, ProfileAssumption
    <3> QED BY ONLY <3>1, <3>2, <3>3, <3>4, <3>5, <3>6, <3>7 DEF Holds
  <2> QED BY ONLY <2>2, <2>3, <2>4, <2>5 DEF Inv, Reached
<1>13. CASE at = "fail_save"
  <2>1. todo.call = <<"save", "failed">> /\ todo.next = Prog("end", t)
    BY ONLY <1>13, RestoringProg, DoFields, Reached(at, t), ProgAt DEF Reached
  <2>2. todo' = Prog("end", t) /\ UNCHANGED <<addr, index, files, legacy, smode, net, iso, xr, job, heal, boot, owned, odd,
              faults, ops>>
    BY ONLY <1>13, <2>1, SaveState, SaveGo
  <2>8. st' = Saved("failed")
    BY ONLY <1>13, <2>1, SaveState, SaveGo
  <2>9. /\ st' \in States
        /\ st'.kind = st.kind /\ st'.active = st.active /\ ~st'.conn /\ st'.rec = st.rec /\ st'.busy = st.busy
        /\ st'.tag = st.tag /\ st'.prepared = st.prepared
    BY ONLY <2>8, TypeOK, SavedFailed
  <2>3. t \in {"restore"} /\ Point("end", t)
    BY ONLY <1>13, Reached(at, t), Passing DEF Reached, Checks, Connects, Migrations, Restoring, Tracks
  <2>4. TypeOK'
    BY <1>13, <2>2, <2>3, <2>9
  <2>5. Holds("end", t)'
    <3>1. Frame("end", t)'
      BY <1>13, <2>2, <2>3, <2>9, ProfileAssumption
    <3>2. OldLayout("end", t)'
      BY <1>13, <2>2, <2>3, <2>9, ProfileAssumption
    <3>3. Choice("end", t)'
      BY <1>13, <2>2, <2>3, <2>9, ProfileAssumption
    <3>4. Named("end", t)'
      BY <1>13, <2>2, <2>3, <2>9, ProfileAssumption
    <3>5. Route("end", t)'
      BY <1>13, <2>2, <2>3, <2>9, ProfileAssumption
    <3>6. Kept("end", t)'
      BY <1>13, <2>2, <2>3, <2>9, ProfileAssumption
    <3>7. Listed("end", t)'
      BY <1>13, <2>2, <2>3, <2>9, ProfileAssumption
    <3> QED BY ONLY <3>1, <3>2, <3>3, <3>4, <3>5, <3>6, <3>7 DEF Holds
  <2> QED BY ONLY <2>2, <2>3, <2>4, <2>5 DEF Inv, Reached
<1>14. CASE at = "note" /\ ~job.ok
  <2>1. todo.call = <<"save", "probe">> /\ todo.err = Prog(Entry(t), t)
    BY ONLY <1>14, VerifyingProg, DoFields, Reached(at, t), HandlerProg DEF Reached
  <2>0. job.id \in Profile
    BY <1>14
  <2>2. /\ odd' = odd \cup Unrestored
        /\ todo' = Prog(Entry(t), t) /\ UNCHANGED <<addr, index, files, legacy, smode, net, iso, xr, job, heal, boot,
              owned, faults, ops>>
    BY ONLY <1>14, <2>1, SaveState, SaveEffect DEF Failed
  <2>8. st' = Saved("probe")
    BY ONLY <1>14, <2>1, SaveState, SaveEffect DEF Failed
  <2>9. /\ st' \in States
        /\ st'.kind = st.kind /\ st'.active = st.active /\ st'.conn = st.conn /\ st'.rec = st.rec
        /\ st'.busy = st.busy /\ st'.tag = st.tag /\ st'.prepared = st.prepared
    BY ONLY <2>0, <2>8, TypeOK, SavedProbe
  <2>3. t \in Checks \cup Connects
    BY ONLY <1>14, Reached(at, t), Passing DEF Reached, Verifying
  <2>4. TypeOK'
    BY <1>14, <2>2, <2>3, <2>9 DEF Unrestored
  <2>5. CASE t = "heal"
    <3>1. todo' = Prog("off", t)
      BY ONLY <2>2, <2>5, <2>3, BranchProg, ProgAt DEF Connects, Checks, Migrations, Entry
    <3>2. Point("off", t)
      BY ONLY <2>5, <2>3, Passing DEF Checks, Connects, Healing, Migrations, Tracks
    <3>3. Holds("off", t)'
      <4>1. Frame("off", t)'
        BY <1>14, <2>2, <2>3, <2>5, <2>9, ProfileAssumption DEF Unrestored
      <4>2. OldLayout("off", t)'
        BY <1>14, <2>2, <2>3, <2>5, <2>9, ProfileAssumption DEF Unrestored
      <4>3. Choice("off", t)'
        BY <1>14, <2>2, <2>3, <2>5, <2>9, ProfileAssumption DEF Unrestored
      <4>4. Named("off", t)'
        BY <1>14, <2>2, <2>3, <2>5, <2>9, ProfileAssumption DEF Unrestored
      <4>5. Route("off", t)'
        BY <1>14, <2>2, <2>3, <2>5, <2>9, ProfileAssumption DEF Unrestored
      <4>6. Kept("off", t)'
        BY <1>14, <2>2, <2>3, <2>5, <2>9, ProfileAssumption DEF Unrestored
      <4>7. Listed("off", t)'
        BY <1>14, <2>2, <2>3, <2>5, <2>9, ProfileAssumption DEF Unrestored
      <4> QED BY ONLY <4>1, <4>2, <4>3, <4>4, <4>5, <4>6, <4>7 DEF Holds
    <3> QED BY ONLY <2>4, <3>1, <3>2, <3>3 DEF Inv, Reached
  <2>6. CASE t = "restore"
    <3>1. todo' = Prog("open_select", t)
      BY ONLY <2>2, <2>6, <2>3, BranchProg, ProgAt DEF Connects, Checks, Migrations, Entry
    <3>2. Point("open_select", t)
      BY ONLY <2>6, <2>3, Passing DEF Checks, Connects, Migrations, Opening, Tracks
    <3>3. Holds("open_select", t)'
      <4>1. Frame("open_select", t)'
        BY <1>14, <2>2, <2>3, <2>6, <2>9, ProfileAssumption DEF Unrestored
      <4>2. OldLayout("open_select", t)'
        BY <1>14, <2>2, <2>3, <2>6, <2>9, ProfileAssumption DEF Unrestored
      <4>3. Choice("open_select", t)'
        BY <1>14, <2>2, <2>3, <2>6, <2>9, ProfileAssumption DEF Unrestored
      <4>4. Named("open_select", t)'
        BY <1>14, <2>2, <2>3, <2>6, <2>9, ProfileAssumption DEF Unrestored
      <4>5. Route("open_select", t)'
        BY <1>14, <2>2, <2>3, <2>6, <2>9, ProfileAssumption DEF Unrestored
      <4>6. Kept("open_select", t)'
        BY <1>14, <2>2, <2>3, <2>6, <2>9, ProfileAssumption DEF Unrestored
      <4>7. Listed("open_select", t)'
        BY <1>14, <2>2, <2>3, <2>6, <2>9, ProfileAssumption DEF Unrestored
      <4> QED BY ONLY <4>1, <4>2, <4>3, <4>4, <4>5, <4>6, <4>7 DEF Holds
    <3> QED BY ONLY <2>4, <3>1, <3>2, <3>3 DEF Inv, Reached
  <2>7. CASE t = "attempt"
    <3>1. todo' = Prog("ret_profile", t)
      BY ONLY <2>2, <2>7, <2>3, BranchProg, ProgAt DEF Connects, Checks, Migrations, Entry
    <3>2. Point("ret_profile", t)
      BY ONLY <2>7, <2>3, Passing DEF Checks, Connects, Migrations, Returning, Tracks
    <3>3. Holds("ret_profile", t)'
      <4>1. Frame("ret_profile", t)'
        BY <1>14, <2>2, <2>3, <2>7, <2>9, ProfileAssumption DEF Unrestored
      <4>2. OldLayout("ret_profile", t)'
        BY <1>14, <2>2, <2>3, <2>7, <2>9, ProfileAssumption DEF Unrestored
      <4>3. Choice("ret_profile", t)'
        BY <1>14, <2>2, <2>3, <2>7, <2>9, ProfileAssumption DEF Unrestored
      <4>4. Named("ret_profile", t)'
        BY <1>14, <2>2, <2>3, <2>7, <2>9, ProfileAssumption DEF Unrestored
      <4>5. Route("ret_profile", t)'
        BY <1>14, <2>2, <2>3, <2>7, <2>9, ProfileAssumption DEF Unrestored
      <4>6. Kept("ret_profile", t)'
        BY <1>14, <2>2, <2>3, <2>7, <2>9, ProfileAssumption DEF Unrestored
      <4>7. Listed("ret_profile", t)'
        BY <1>14, <2>2, <2>3, <2>7, <2>9, ProfileAssumption DEF Unrestored
      <4> QED BY ONLY <4>1, <4>2, <4>3, <4>4, <4>5, <4>6, <4>7 DEF Holds
    <3> QED BY ONLY <2>4, <3>1, <3>2, <3>3 DEF Inv, Reached
  <2>10. CASE t \in {"check", "connect", "reapply"}
    <3>1. todo' = Prog("end", t)
      BY ONLY <2>2, <2>10, <2>3, BranchProg, ProgAt DEF Connects, Checks, Migrations, Entry
    <3>2. Point("end", t)
      BY ONLY <2>10, <2>3, Passing DEF Checks, Connects, Migrations, Tracks
    <3>3. Holds("end", t)'
      <4>1. Frame("end", t)'
        BY <1>14, <2>2, <2>3, <2>10, <2>9, ProfileAssumption DEF Unrestored
      <4>2. OldLayout("end", t)'
        BY <1>14, <2>2, <2>3, <2>10, <2>9, ProfileAssumption DEF Unrestored
      <4>3. Choice("end", t)'
        BY <1>14, <2>2, <2>3, <2>10, <2>9, ProfileAssumption DEF Unrestored
      <4>4. Named("end", t)'
        BY <1>14, <2>2, <2>3, <2>10, <2>9, ProfileAssumption DEF Unrestored
      <4>5. Route("end", t)'
        BY <1>14, <2>2, <2>3, <2>10, <2>9, ProfileAssumption DEF Unrestored
      <4>6. Kept("end", t)'
        BY <1>14, <2>2, <2>3, <2>10, <2>9, ProfileAssumption DEF Unrestored
      <4>7. Listed("end", t)'
        BY <1>14, <2>2, <2>3, <2>10, <2>9, ProfileAssumption DEF Unrestored
      <4> QED BY ONLY <4>1, <4>2, <4>3, <4>4, <4>5, <4>6, <4>7 DEF Holds
    <3> QED BY ONLY <2>4, <3>1, <3>2, <3>3 DEF Inv, Reached
  <2> QED BY ONLY <2>3, <2>5, <2>6, <2>7, <2>10 DEF Connects, Checks
<1>15. CASE at = "iso_note" /\ ~job.ok
  <2>1. todo.call = <<"save", "probe">> /\ todo.err = Prog("iso_fail", t)
    BY ONLY <1>15, IsolatedProg, DoFields, Reached(at, t) DEF Reached
  <2>0. job.id \in Profile
    BY <1>15
  <2>2. /\ odd' = odd \cup Unrestored
        /\ todo' = Prog("iso_fail", t) /\ UNCHANGED <<addr, index, files, legacy, smode, net, iso, xr, job, heal, boot,
              owned, faults, ops>>
    BY ONLY <1>15, <2>1, SaveState, SaveEffect DEF Failed
  <2>8. st' = Saved("probe")
    BY ONLY <1>15, <2>1, SaveState, SaveEffect DEF Failed
  <2>9. /\ st' \in States
        /\ st'.kind = st.kind /\ st'.active = st.active /\ st'.conn = st.conn /\ st'.rec = st.rec
        /\ st'.busy = st.busy /\ st'.tag = st.tag /\ st'.prepared = st.prepared
    BY ONLY <2>0, <2>8, TypeOK, SavedProbe
  <2>3. t \in Checks \cup {"connect"} /\ Point("iso_fail", t)
    BY ONLY <1>15, Reached(at, t), Passing DEF Reached, Checks, Connects, Isolated, Migrations, Tracks
  <2>4. TypeOK'
    BY <1>15, <2>2, <2>3, <2>9 DEF Unrestored
  <2>5. Holds("iso_fail", t)'
    <3>1. Frame("iso_fail", t)'
      BY <1>15, <2>2, <2>3, <2>9, ProfileAssumption DEF Unrestored
    <3>2. OldLayout("iso_fail", t)'
      BY <1>15, <2>2, <2>3, <2>9, ProfileAssumption DEF Unrestored
    <3>3. Choice("iso_fail", t)'
      BY <1>15, <2>2, <2>3, <2>9, ProfileAssumption DEF Unrestored
    <3>4. Named("iso_fail", t)'
      BY <1>15, <2>2, <2>3, <2>9, ProfileAssumption DEF Unrestored
    <3>5. Route("iso_fail", t)'
      BY <1>15, <2>2, <2>3, <2>9, ProfileAssumption DEF Unrestored
    <3>6. Kept("iso_fail", t)'
      BY <1>15, <2>2, <2>3, <2>9, ProfileAssumption DEF Unrestored
    <3>7. Listed("iso_fail", t)'
      BY <1>15, <2>2, <2>3, <2>9, ProfileAssumption DEF Unrestored
    <3> QED BY ONLY <3>1, <3>2, <3>3, <3>4, <3>5, <3>6, <3>7 DEF Holds
  <2> QED BY ONLY <2>2, <2>3, <2>4, <2>5 DEF Inv, Reached
<1>16. at \in {"adopt", "prepared", "note", "iso_note", "intent", "back", "connected", "end_save", "ret_save",
           "rm_save", "open_save", "direct_save", "fail_save"}
  <2>1. todo.call = Call(at, t)
    BY ONLY Reached(at, t), ProgCall DEF Reached
  <2>2. todo.call \in {<<"save", "adopted">>, <<"save", "prepared">>, <<"save", "probe">>, <<"save", "intent">>, <<"save",
              "back">>, <<"save", "connected">>, <<"save", "disconnected">>, <<"save", "orig">>, <<"save", "removed">>,
              <<"save", "failopen">>, <<"save", "direct">>, <<"save", "failed">>}
    BY ONLY SaveState DEF SaveState, At, Saves
  <2> QED BY ONLY <2>1, <2>2, CallAt
<1> QED BY ONLY <1>1, <1>2, <1>3, <1>4, <1>5, <1>6, <1>7, <1>8, <1>9, <1>10, <1>11, <1>12, <1>13, <1>14, <1>15, <1>16

-------------------------------------------------------------------------------
(* The programs the operations begin with. *)

\* A switch is the rest of an operation from its intent on.
LEMMA SwitchProg ==
  ASSUME NEW t
  PROVE  Switch(Handler(t)) = Prog("intent", t)
<1>1. Undo(Handler(t)) = Prog("undo", t)
  BY ONLY SwitchingProg DEF Undo
<1> QED BY ONLY <1>1, SwitchingProg, StartingProg, RecordingProg DEF Switch

\* So is a probe, on either interface.
LEMMA ObserveProg ==
  ASSUME NEW t
  PROVE  /\ Observe("awg", Handler(t), Verified(t)) = Prog("runtime", t)
         /\ Observe("iso", Prog("iso_fail", t), Prog("iso_end", t)) = Prog("iso_runtime", t)
BY ONLY VerifyingProg, IsolatedProg DEF Observe

\* Where a connect and a check of a profile begin.
Verifies(p) == IF ActiveIs(p) THEN "ask_require"
               ELSE IF st.prepared # p THEN "ask_down" ELSE IF ~net.up THEN "ask_configure" ELSE "ask_ifup"
Connecting(p) == IF Prepared(p) THEN (IF ActiveIs(p) THEN "ready_ifup" ELSE "quick_ifup") ELSE Verifies(p)

\* A verification begins at the label Verifies.
LEMMA VerifyProg ==
  ASSUME NEW t \in Connects, NEW p
  PROVE  verifyAWG(p, Handler(t), Switch(Handler(t))) = Prog(Verifies(p), t)
<1>1. Verified(t) = Switch(Handler(t))
  BY ONLY t \in Connects, SwitchProg, BranchProg DEF Connects
<1>2. Do("ifup", "awg", Handler(t), Observe("awg", Handler(t), Switch(Handler(t)))) = Prog("ifup", t)
  BY ONLY <1>1, ObserveProg, VerifyingProg
<1>3. CASE ActiveIs(p)
  BY ONLY <1>2, <1>3, VerifyingProg DEF verifyAWG, Verifies
<1>4. CASE ~ActiveIs(p) /\ st.prepared # p
  BY ONLY <1>2, <1>4, ConfiguringProg, ConfiguredProg DEF verifyAWG, Verifies
<1>5. CASE ~ActiveIs(p) /\ st.prepared = p /\ ~net.up
  BY ONLY <1>2, <1>5, ConfiguringProg, ConfiguredProg DEF verifyAWG, Verifies
<1>6. CASE ~ActiveIs(p) /\ st.prepared = p /\ net.up
  BY ONLY <1>2, <1>6, ConfiguredProg DEF verifyAWG, Verifies
<1> QED BY ONLY <1>3, <1>4, <1>5, <1>6

\* A connect begins at the label Connecting.
LEMMA ConnectProg ==
  ASSUME NEW t \in Connects, NEW p
  PROVE  connectAWG(p, Handler(t)) = Prog(Connecting(p), t)
<1>1. CASE ~Prepared(p)
  BY ONLY <1>1, t \in Connects, VerifyProg DEF connectAWG, Connecting
<1>2. CASE Prepared(p)
  <2>1. connectAWG(p, Handler(t)) = Do("ifup", "awg", Handler(t), Do("runtime", "awg", Prog(Verifies(p), t), Prog("intent",
              t)))
    BY ONLY <1>2, t \in Connects, VerifyProg, SwitchProg DEF connectAWG
  <2>2. CASE ActiveIs(p)
    BY ONLY <1>2, <2>1, <2>2, StartingProg DEF Connecting, Verifies
  <2>3. CASE ~ActiveIs(p)
    BY ONLY <1>2, <2>1, <2>3, ConfiguredProg DEF Connecting, Verifies, Prepared
  <2> QED BY ONLY <2>2, <2>3
<1> QED BY ONLY <1>1, <1>2

\* A check begins with the permanent interface or with one of its own.
LEMMA CheckProg ==
  ASSUME NEW t \in Checks \cup {"connect"}, NEW p, t = "connect" => ~ActiveIs(p)
  PROVE  checkAWG(p, Handler(t), Checked(t)) = Prog(IF ActiveIs(p) THEN "ask_require" ELSE "ask_isolate", t)
<1>1. CASE ActiveIs(p)
  <2>1. Checked(t) = Verified(t)
    BY ONLY <1>1, t \in Checks \cup {"connect"}, t = "connect" => ~ActiveIs(p), BranchProg DEF Checks
  <2> QED BY ONLY <1>1, <2>1, ObserveProg, VerifyingProg DEF checkAWG
<1>2. CASE ~ActiveIs(p)
  BY ONLY <1>2, ObserveProg, IsolatedProg DEF checkAWG
<1> QED BY ONLY <1>1, <1>2

\* The return to the previous profile.
LEMMA ReturnProg == restoreAWGConnection = Prog("ret_profile", "attempt")
BY ONLY ReturningProg, ReturnedProg, SettledProg DEF restoreAWGConnection

\* A connect over another profile begins with its isolated check.
LEMMA ReplaceProg ==
  ASSUME NEW p, OtherActive(p)
  PROVE  replaceAWG(p, Handler("connect")) = Prog("ask_isolate", "connect")
<1>1. Handler("attempt") = restoreAWGConnection
  BY ONLY ReturnProg, HandlerProg DEF Entry
<1>2. Do("load", "attempt", restoreAWGConnection, End) = Ended("attempt")
  BY ONLY <1>1, BranchProg, LoadingProg DEF Loaded
<1>3. disconnectAWG(restoreAWGConnection, Do("load", "attempt", restoreAWGConnection, End)) = Prog("end_select", "attempt")
  BY ONLY <1>1, <1>2, OtherActive(p), EndingProg DEF disconnectAWG, OtherActive, Connected
<1>4. Handler("connect") = End
  BY ONLY HandlerProg, ProgAt DEF Entry
<1>5. Do("keep", "orig", Handler("connect"), Prog("end_select", "attempt")) = Checked("connect")
  BY ONLY <1>4, KeepingProg, BranchProg
<1>6. ~ActiveIs(p)
  BY ONLY OtherActive(p) DEF OtherActive, ActiveIs
<1> QED BY ONLY <1>3, <1>5, <1>6, CheckProg DEF replaceAWG

\* An import writes the profile unless it is listed.
LEMMA ImportProg ==
  SaveAWGProfile("id", End, Do("imported", "id", End, End)) = Prog(IF job.id \in index THEN "imported" ELSE "new_write",
        "import")
<1>1. CASE job.id \in index
  BY ONLY <1>1, ImportingProg DEF SaveAWGProfile, ProfileOf
<1>2. CASE job.id \notin index
  BY ONLY <1>2, ImportingProg DEF SaveAWGProfile, ProfileOf
<1> QED BY ONLY <1>1, <1>2

Erases(p) == IF st.kind = "awg" /\ st.active = p THEN "rm_select" ELSE IF st.prepared = p THEN "rm_down" ELSE "rm_unlink"
\* A removal begins with what the profile is in use for.
LEMMA RemoveProg ==
  ASSUME NEW p
  PROVE  removeAWG(p) = Prog(Erases(p), IF st.kind = "awg" /\ st.active = p THEN "active" ELSE "remove")
<1>1. CASE st.kind = "awg" /\ st.active = p
  <2>1. Removed("active") = Do("settings", "off", End, End)
    BY ONLY BranchProg, CeasingProg
  <2> QED BY ONLY <1>1, <2>1, ErasingProg, CeasingProg DEF removeAWG, Erases
<1>2. CASE ~(st.kind = "awg" /\ st.active = p)
  <2>1. Removed("remove") = End
    BY ONLY BranchProg
  <2> QED BY ONLY <1>2, <2>1, ErasingProg DEF removeAWG, Erases
<1> QED BY ONLY <1>1, <1>2

\* A disconnect ends a connection, or takes the interface down.
LEMMA DisconnectProg ==
  disconnectAWG(End, End) = Prog(IF st.kind = "awg" THEN "end_select" ELSE "only_down", "disconnect")
<1>1. Handler("disconnect") = End /\ Ended("disconnect") = End
  BY ONLY HandlerProg, BranchProg, ProgAt DEF Entry
<1> QED BY ONLY <1>1, EndingProg, LoweringProg DEF disconnectAWG

\* The migration that most operations begin with.
Migrates(t) == IF legacy = None THEN (IF t = "reapply" THEN "reload" ELSE "load") ELSE IF legacy \in index THEN "adopt" ELSE "write"
\* The migration begins at the label Migrates.
LEMMA MigrateProg ==
  ASSUME NEW t \in Migrations
  PROVE  migrateLegacyAWGProfile(Handler(t), Migrated(t)) = Prog(Migrates(t), t)
<1>1. CASE legacy = None
  BY ONLY <1>1, BranchProg DEF migrateLegacyAWGProfile, Migrates
<1>2. CASE legacy # None /\ legacy \in index
  BY ONLY <1>2, MovingProg DEF migrateLegacyAWGProfile, SaveAWGProfile, ProfileOf, Migrates
<1>3. CASE legacy # None /\ legacy \notin index
  BY ONLY <1>3, MovingProg DEF migrateLegacyAWGProfile, SaveAWGProfile, ProfileOf, Migrates
<1> QED BY ONLY <1>1, <1>2, <1>3

\* A fail-open, and the degradation of restoreRuntime.
LEMMA OpenProg ==
  /\ activateManagedDirect(End) = Prog("open_select", "failopen")
  /\ activateManagedDirect(persistRestoreFailure) = Prog("open_select", "restore")
  /\ persistRestoreFailure = Prog("fail_stop", "restore")
<1>1. persistRestoreFailure = Prog("fail_stop", "restore")
  BY ONLY RestoringProg DEF persistRestoreFailure
<1>2. Degraded("failopen") = End /\ Degraded("restore") = Prog("fail_stop", "restore")
  BY ONLY BranchProg
<1> QED BY ONLY <1>1, <1>2, OpeningProg DEF activateManagedDirect

\* The connection to return to is kept.
LEMMA KeepStep ==
  ASSUME NEW at, NEW t, TypeOK, Reached(at, t), KeepOriginal
  PROVE  Inv'
<1> USE DEF Reached, Holds, Frame, OldLayout, Choice, Named, Route, Kept, Listed, NamedBy, Known, Excused, Lost, Sane,
            Connected, OtherActive, Recorded, Acting, Raising, Removing, Moving, Loading, Reloading, Importing,
            Isolated, Verifying, Configuring, Configured, Starting, Switching, Recording, Keeping, Returned, Settled,
            Erasing, Ceasing, Migrations, Connects, Checks, By, Entry, TypeOK
<1>1. CASE at = "keep"
  <2>1. todo.call = <<"keep", "orig">> /\ todo.next = Prog("end_select", "attempt")
    BY ONLY <1>1, KeepingProg, DoFields, Reached(at, t) DEF Reached
  <2>0. st \in States /\ st.active \in Profile \cup {None} /\ st # None
    BY ONLY TypeOK, ProfileAssumption DEF TypeOK, States
  <2>2. /\ job' = [job EXCEPT !.orig = st]
        /\ todo' = Prog("end_select", "attempt") /\ UNCHANGED <<addr, index, files, legacy, st, smode, net, iso, xr, heal,
              boot, owned, odd, faults, ops>>
    BY ONLY <1>1, <2>1, KeepOriginal DEF KeepOriginal, At, Go, Advance, disk, runtime, kept
  <2>3. t \in {"connect"} /\ Point("end_select", "attempt")
    BY ONLY <1>1, Reached(at, t), Passing DEF Reached, Checks, Connects, Ending, Keeping, Migrations, Tracks
  <2>4. TypeOK'
    BY <1>1, <2>2, <2>3
  <2>5. Holds("end_select", "attempt")'
    <3>1. Frame("end_select", "attempt")'
      BY <1>1, <2>2, <2>3, <2>0, ProfileAssumption
    <3>2. OldLayout("end_select", "attempt")'
      BY <1>1, <2>2, <2>3, <2>0, ProfileAssumption
    <3>3. Choice("end_select", "attempt")'
      BY <1>1, <2>2, <2>3, <2>0, ProfileAssumption
    <3>4. Named("end_select", "attempt")'
      BY <1>1, <2>2, <2>3, <2>0, ProfileAssumption
    <3>5. Route("end_select", "attempt")'
      BY <1>1, <2>2, <2>3, <2>0, ProfileAssumption
    <3>6. Kept("end_select", "attempt")'
      BY <1>1, <2>2, <2>3, <2>0, ProfileAssumption
    <3>7. Listed("end_select", "attempt")'
      BY <1>1, <2>2, <2>3, <2>0, ProfileAssumption
    <3> QED BY ONLY <3>1, <3>2, <3>3, <3>4, <3>5, <3>6, <3>7 DEF Holds
  <2> QED BY ONLY <2>2, <2>3, <2>4, <2>5 DEF Inv, Reached
<1>2. at \in {"keep"}
  <2>1. todo.call = Call(at, t)
    BY ONLY Reached(at, t), ProgCall DEF Reached
  <2>2. todo.call = <<"keep", "orig">>
    BY ONLY KeepOriginal DEF KeepOriginal, At
  <2>3. Call(at, t) = <<"keep", "orig">>
    BY ONLY <2>1, <2>2
  <2> QED BY ONLY <2>3, CallAt
<1> QED BY ONLY <1>1, <1>2

\* The state is loaded, and the operation goes on from there.
LEMMA LoadGoes ==
  ASSUME NEW t, NEW p \in Profile, TypeOK, Reached("load", t), job.id # None => p = job.id,
         todo' = Body(Loaded(t), p, Handler(t)), job' = [job EXCEPT !.id = p],
         UNCHANGED <<addr, index, files, legacy, st, smode, net, iso, xr, heal, boot, owned, odd, faults, ops>>
  PROVE  Inv'
<1> USE DEF Reached, Holds, Frame, OldLayout, Choice, Named, Route, Kept, Listed, NamedBy, Known, Excused, Lost, Sane,
            Connected, OtherActive, Recorded, Acting, Raising, Removing, Moving, Loading, Reloading, Importing,
            Isolated, Verifying, Configuring, Configured, Starting, Switching, Recording, Keeping, Returned, Settled,
            Erasing, Ceasing, Migrations, Connects, Checks, By, Entry, TypeOK
<1>1. t \in Migrations \cup {"attempt"}
  BY ONLY Reached("load", t), Passing DEF Reached, Loading
<1>2. Holds("load", t)
  BY ONLY Reached("load", t) DEF Reached
<1>3. todo' = Body(Loaded(t), p, Handler(t))
  OBVIOUS
<1>4. /\ job'.id = p /\ job'.by = job.by /\ job'.base = job.base /\ job'.orig = job.orig /\ job'.was = job.was
      /\ legacy = None \/ (t = "connect" /\ p = legacy)
      /\ UNCHANGED <<addr, index, files, legacy, st, smode, net, iso, xr, heal, boot, owned, odd, faults, ops>>
  BY <1>2
<1>5. TypeOK'
  BY ONLY TypeOK, p \in Profile, <1>4, job' = [job EXCEPT !.id = p] DEF TypeOK
<1>6. CASE t = "import" /\ job.id \in index
  <2>1. todo' = Prog("imported", t)
    BY ONLY <1>3, <1>6, ImportProg DEF Body, Loaded
  <2>2. Point("imported", t)
    BY ONLY <1>6, Passing DEF Importing
  <2>3. Holds("imported", t)'
    BY <1>6, <1>3, <1>4, ProfileAssumption
  <2> QED BY ONLY <1>5, <2>1, <2>2, <2>3 DEF Inv, Reached
<1>7. CASE t = "import" /\ job.id \notin index
  <2>1. todo' = Prog("new_write", t)
    BY ONLY <1>3, <1>7, ImportProg DEF Body, Loaded
  <2>2. Point("new_write", t)
    BY ONLY <1>7, Passing DEF Importing
  <2>3. Holds("new_write", t)'
    BY <1>7, <1>3, <1>4, ProfileAssumption
  <2> QED BY ONLY <1>5, <2>1, <2>2, <2>3 DEF Inv, Reached
<1>8. CASE t \in Checks /\ ActiveIs(p)
  <2>1. todo' = Prog("ask_require", t)
    BY ONLY <1>3, <1>8, <1>2, CheckProg, BranchProg, HealingProg DEF Body, Loaded
  <2>2. Point("ask_require", t)
    BY ONLY <1>8, Passing DEF Verifying, Checks, Connects
  <2>3. Holds("ask_require", t)'
    BY <1>8, <1>3, <1>4 DEF ActiveIs
  <2> QED BY ONLY <1>5, <2>1, <2>2, <2>3 DEF Inv, Reached
<1>9. CASE t \in Checks /\ ~ActiveIs(p)
  <2>1. todo' = Prog("ask_isolate", t)
    BY ONLY <1>3, <1>9, <1>2, CheckProg, BranchProg, HealingProg DEF Body, Loaded
  <2>2. Point("ask_isolate", t)
    BY ONLY <1>9, Passing DEF Isolated, Checks
  <2>3. Holds("ask_isolate", t)'
    BY <1>9, <1>3, <1>4 DEF ActiveIs
  <2> QED BY ONLY <1>5, <2>1, <2>2, <2>3 DEF Inv, Reached
<1>10. CASE t = "connect" /\ OtherActive(p)
  <2>1. todo' = Prog("ask_isolate", t)
    BY ONLY <1>3, <1>10, ReplaceProg DEF Body, Loaded
  <2>2. Point("ask_isolate", t)
    BY ONLY <1>10, Passing DEF Isolated
  <2>3. Holds("ask_isolate", t)'
    BY <1>10, <1>3, <1>4
  <2> QED BY ONLY <1>5, <2>1, <2>2, <2>3 DEF Inv, Reached
<1>11. CASE t = "remove" /\ st.kind = "awg" /\ st.active = p
  <2>1. todo' = Prog("rm_select", "active")
    BY ONLY <1>3, <1>11, RemoveProg DEF Body, Loaded, Erases
  <2>2. Point("rm_select", "active")
    BY ONLY <1>11, Passing DEF Ceasing
  <2>3. Holds("rm_select", "active")'
    BY <1>11, <1>3, <1>4
  <2> QED BY ONLY <1>5, <2>1, <2>2, <2>3 DEF Inv, Reached
<1>12. CASE t = "remove" /\ ~(st.kind = "awg" /\ st.active = p) /\ st.prepared = p
  <2>1. todo' = Prog("rm_down", t)
    BY ONLY <1>3, <1>12, RemoveProg DEF Body, Loaded, Erases
  <2>2. Point("rm_down", t)
    BY ONLY <1>12, Passing DEF Erasing
  <2>3. Holds("rm_down", t)'
    BY <1>12, <1>3, <1>4
  <2> QED BY ONLY <1>5, <2>1, <2>2, <2>3 DEF Inv, Reached
<1>13. CASE t = "remove" /\ ~(st.kind = "awg" /\ st.active = p) /\ st.prepared # p
  <2>1. todo' = Prog("rm_unlink", t)
    BY ONLY <1>3, <1>13, RemoveProg DEF Body, Loaded, Erases
  <2>2. Point("rm_unlink", t)
    BY ONLY <1>13, Passing DEF Erasing
  <2>3. Holds("rm_unlink", t)'
    BY <1>13, <1>3, <1>4
  <2> QED BY ONLY <1>5, <2>1, <2>2, <2>3 DEF Inv, Reached
<1>14. CASE t \in Connects /\ (t = "connect" => ~OtherActive(p)) /\ ActiveIs(p) /\ Prepared(p)
  <2>1. todo' = Prog("ready_ifup", t)
    BY ONLY <1>3, <1>14, ConnectProg DEF Body, Loaded, Connects, Connecting, Verifies, Prepared
  <2>2. Point("ready_ifup", t)
    BY ONLY <1>14, Passing DEF Starting, Connects
  <2>3. Holds("ready_ifup", t)'
    BY <1>14, <1>3, <1>4 DEF ActiveIs, Prepared
  <2> QED BY ONLY <1>5, <2>1, <2>2, <2>3 DEF Inv, Reached
<1>15. CASE t \in Connects /\ (t = "connect" => ~OtherActive(p)) /\ ActiveIs(p) /\ ~Prepared(p)
  <2>1. todo' = Prog("ask_require", t)
    BY ONLY <1>3, <1>15, ConnectProg DEF Body, Loaded, Connects, Connecting, Verifies, Prepared
  <2>2. Point("ask_require", t)
    BY ONLY <1>15, Passing DEF Verifying, Connects
  <2>3. Holds("ask_require", t)'
    BY <1>15, <1>3, <1>4 DEF ActiveIs
  <2> QED BY ONLY <1>5, <2>1, <2>2, <2>3 DEF Inv, Reached
<1>16. CASE t \in {"connect", "attempt"} /\ (t = "connect" => ~OtherActive(p)) /\ ~ActiveIs(p) /\ Prepared(p)
  <2>1. todo' = Prog("quick_ifup", t)
    BY ONLY <1>3, <1>16, ConnectProg DEF Body, Loaded, Connects, Connecting, Verifies, Prepared
  <2>2. Point("quick_ifup", t)
    BY ONLY <1>16, Passing DEF Configured
  <2>3. Holds("quick_ifup", t)'
    BY <1>16, <1>3, <1>4, ProfileAssumption DEF ActiveIs, Prepared
  <2> QED BY ONLY <1>5, <2>1, <2>2, <2>3 DEF Inv, Reached
<1>17. CASE t \in {"connect", "attempt"} /\ (t = "connect" => ~OtherActive(p)) /\ ~ActiveIs(p) /\ ~Prepared(p)
             /\ st.prepared # p
  <2>1. todo' = Prog("ask_down", t)
    BY ONLY <1>3, <1>17, ConnectProg DEF Body, Loaded, Connects, Connecting, Verifies, Prepared
  <2>2. Point("ask_down", t)
    BY ONLY <1>17, Passing DEF Configuring
  <2>3. Holds("ask_down", t)'
    BY <1>17, <1>3, <1>4 DEF ActiveIs
  <2> QED BY ONLY <1>5, <2>1, <2>2, <2>3 DEF Inv, Reached
<1>18. CASE t \in {"connect", "attempt"} /\ (t = "connect" => ~OtherActive(p)) /\ ~ActiveIs(p) /\ ~Prepared(p)
             /\ st.prepared = p /\ ~net.up
  <2>1. todo' = Prog("ask_configure", t)
    BY ONLY <1>3, <1>18, ConnectProg DEF Body, Loaded, Connects, Connecting, Verifies, Prepared
  <2>2. Point("ask_configure", t)
    BY ONLY <1>18, Passing DEF Configuring
  <2>3. Holds("ask_configure", t)'
    BY <1>18, <1>3, <1>4 DEF ActiveIs
  <2> QED BY ONLY <1>5, <2>1, <2>2, <2>3 DEF Inv, Reached
<1>19. CASE t \in {"connect", "attempt"} /\ (t = "connect" => ~OtherActive(p)) /\ ~ActiveIs(p) /\ ~Prepared(p)
             /\ st.prepared = p /\ net.up
  <2>1. todo' = Prog("ask_ifup", t)
    BY ONLY <1>3, <1>19, ConnectProg DEF Body, Loaded, Connects, Connecting, Verifies, Prepared
  <2>2. Point("ask_ifup", t)
    BY ONLY <1>19, Passing DEF Configured
  <2>3. Holds("ask_ifup", t)'
    BY <1>19, <1>3, <1>4, ProfileAssumption DEF ActiveIs
  <2> QED BY ONLY <1>5, <2>1, <2>2, <2>3 DEF Inv, Reached
<1>20. t \in {"reapply", "restore"} => ActiveIs(p)
  BY <1>2, <1>4, ProfileAssumption DEF ActiveIs
<1> QED BY ONLY <1>1, <1>6, <1>7, <1>8, <1>9, <1>10, <1>11, <1>12, <1>13, <1>14, <1>15, <1>16, <1>17, <1>18, <1>19,
        <1>20 DEF Migrations, Connects, Checks

\* The state is loaded, or the profile is not there.
LEMMA LoadStep ==
  ASSUME NEW at, NEW t, TypeOK, Reached(at, t), Load
  PROVE  Inv'
<1>1. PICK what \in {"import", "check", "connect", "attempt", "remove"} :
         /\ At("load", what)
         /\ LET found == IF job.id # None THEN {job.id} ELSE Resolve
            IN  IF found = {} \/ (what \in {"check", "connect", "remove"} /\ ~(found \subseteq index))
                THEN Failed /\ UNCHANGED job
                ELSE \E p \in found : todo' = Body(what, p, todo.err) /\ job' = [job EXCEPT !.id = p] /\ UNCHANGED odd
         /\ UNCHANGED <<disk, runtime, st, smode, heal, owned, kept>>
  BY DEF Load
<1>2. Call(at, t) = <<"load", what>>
  BY ONLY <1>1, Reached(at, t), ProgCall DEF Reached, At
<1>3. at = "load"
  BY ONLY Zenon, <1>2 DEF Call
<1>4. what = Loaded(t) /\ todo.err = Handler(t)
  <2>1. Call("load", t) = <<"load", Loaded(t)>>
    BY DEF Call
  <2> QED BY ONLY <1>2, <1>3, <2>1, Reached(at, t), LoadingProg, DoFields DEF Reached
<1>5. UNCHANGED <<addr, index, files, legacy, st, smode, net, iso, xr, heal, boot, owned, faults, ops>>
  BY ONLY <1>1 DEF disk, runtime, kept
<1>6. CASE Failed /\ UNCHANGED job
  <2>1. Falls("load")
    BY ONLY <1>5, <1>6, TypeOK, AmneziaWGBounds DEF Falls, Failed, TypeOK, Unrestored
  <2> QED BY ONLY <1>3, <2>1, TypeOK, Reached(at, t), Failing
<1> DEFINE found == IF job.id # None THEN {job.id} ELSE Resolve
<1>7. ASSUME NEW p \in found, todo' = Body(what, p, todo.err), job' = [job EXCEPT !.id = p], UNCHANGED odd
      PROVE  Inv'
  <2>1. p \in Profile /\ (job.id # None => p = job.id)
    BY ONLY TypeOK, p \in found DEF TypeOK, Resolve
  <2>2. Reached("load", t)
    BY ONLY <1>3, Reached(at, t)
  <2> QED BY ONLY <1>4, <1>5, <1>7, <2>1, <2>2, TypeOK, LoadGoes
<1> QED BY ONLY <1>1, <1>6, <1>7

-------------------------------------------------------------------------------
(* Every step of an operation. *)

\* A step of the operation in progress keeps the invariant.
LEMMA StepKeeps ==
  ASSUME NEW at, NEW t, TypeOK, Reached(at, t), Step
  PROVE  Inv'
BY ONLY TypeOK, Reached(at, t), Step, LoadStep, RequireStep, KeepStep, FilesStep, InterfaceStep, IsolateStep, RuntimeStep,
        RestartStep, ProbeStep, SelectStep, EgressStep, SaveStep, SettingsStep, HealedStep DEF Step

\* Between operations the point is `end'.
LEMMA IdleAt ==
  ASSUME NEW at, NEW t, Reached(at, t)
  PROVE  Idle <=> at = "end"
<1>1. at = "end" => Idle
  BY ONLY Reached(at, t), ProgAt DEF Reached, Idle
<1>2. ASSUME Idle PROVE at = "end"
  <2>1. Call(at, t) = <<"end", "end">>
    BY ONLY <1>2, Reached(at, t), ProgCall DEF Reached, Idle, End
  <2>2. at \notin Moving
    BY ONLY <2>1 DEF Call, Moving
  <2>3. at \notin Loading
    BY ONLY <2>1 DEF Call, Loading
  <2>4. at \notin Reloading
    BY ONLY <2>1 DEF Call, Reloading
  <2>5. at \notin Importing
    BY ONLY <2>1 DEF Call, Importing
  <2>6. at \notin Isolated
    BY ONLY <2>1 DEF Call, Isolated
  <2>7. at \notin Verifying
    BY ONLY <2>1 DEF Call, Verifying
  <2>8. at \notin Configuring
    BY ONLY <2>1 DEF Call, Configuring
  <2>9. at \notin Configured
    BY ONLY <2>1 DEF Call, Configured
  <2>10. at \notin Starting
    BY ONLY <2>1 DEF Call, Starting
  <2>11. at \notin Switching
    BY ONLY <2>1 DEF Call, Switching
  <2>12. at \notin Recording
    BY ONLY <2>1 DEF Call, Recording
  <2>13. at \notin Keeping
    BY ONLY <2>1 DEF Call, Keeping
  <2>14. at \notin Ending
    BY ONLY <2>1 DEF Call, Ending
  <2>15. at \notin Lowering
    BY ONLY <2>1 DEF Call, Lowering
  <2>16. at \notin Returning
    BY ONLY <2>1 DEF Call, Returning
  <2>17. at \notin Returned
    BY ONLY <2>1 DEF Call, Returned
  <2>18. at \notin Settled
    BY ONLY <2>1 DEF Call, Settled
  <2>19. at \notin Erasing
    BY ONLY <2>1 DEF Call, Erasing
  <2>20. at \notin Ceasing
    BY ONLY <2>1 DEF Call, Ceasing
  <2>21. at \notin Opening
    BY ONLY <2>1 DEF Call, Opening
  <2>22. at \notin Restoring
    BY ONLY <2>1 DEF Call, Restoring
  <2>23. at \notin Healing
    BY ONLY <2>1 DEF Call, Healing
  <2> QED BY ONLY Reached(at, t), <2>2, <2>3, <2>4, <2>5, <2>6, <2>7, <2>8, <2>9, <2>10, <2>11, <2>12, <2>13, <2>14, <2>15,
          <2>16, <2>17, <2>18, <2>19, <2>20, <2>21, <2>22, <2>23 DEF Reached, Point
<1> QED BY ONLY <1>1, <1>2

-------------------------------------------------------------------------------
(* Faults. *)

\* The count of faults stays within its bound.
LEMMA CountFault ==
  ASSUME TypeOK, Fault
  PROVE  faults' \in 0..MaxFaults
BY AmneziaWGBounds DEF TypeOK, Fault

\* A failed cleanup of the isolated interface is only logged.
LEMMA CleanupFails ==
  ASSUME NEW at, NEW t, TypeOK, Reached(at, t), CallFails, At("deisolate", "id")
  PROVE  Inv'
<1> USE DEF Reached, Holds, Frame, OldLayout, Choice, Named, Route, Kept, Listed, NamedBy, Known, Excused, Lost, Sane,
            Connected, OtherActive, Recorded, Acting, Raising, Removing, Moving, Loading, Reloading, Importing,
            Isolated, Verifying, Configuring, Configured, Starting, Switching, Recording, Keeping, Returned, Settled,
            Erasing, Ceasing, Migrations, Connects, Checks, By, Entry, TypeOK
<1>3. faults' \in 0..MaxFaults
  BY ONLY TypeOK, CallFails, CountFault DEF CallFails
<1>1. CASE at = "iso_fail"
  <2>1. todo.call = <<"deisolate", "id">> /\ todo.next = Prog(Entry(t), t)
    BY ONLY <1>1, IsolatedProg, DoFields, Reached(at, t), HandlerProg DEF Reached
  <2>2. todo' = Prog(Entry(t), t) /\ UNCHANGED <<addr, index, files, legacy, st, smode, net, iso, xr, job, heal, boot,
              owned, odd, ops>>
    BY ONLY <1>1, <2>1, CallFails, At("deisolate", "id") DEF CallFails, At, Go, Advance, disk, Idle
  <2>3. t \in Checks \cup {"connect"} /\ Point(Entry(t), t)
    BY ONLY <1>1, Reached(at, t), Passing DEF Reached, Checks, Connects, Entry, Healing, Isolated, Migrations, Opening,
       Returning, Tracks
  <2>4. TypeOK'
    BY <1>1, <2>2, <2>3, <1>3
  <2>5. Holds(Entry(t), t)'
    BY <1>1, <2>2, <2>3
  <2> QED BY ONLY <2>2, <2>3, <2>4, <2>5 DEF Inv, Reached
<1>2. CASE at = "iso_end"
  <2>1. todo.call = <<"deisolate", "id">> /\ todo.next = Checked(t)
    BY ONLY <1>2, IsolatedProg, DoFields, Reached(at, t) DEF Reached
  <2>2. todo' = Checked(t) /\ UNCHANGED <<addr, index, files, legacy, st, smode, net, iso, xr, job, heal, boot, owned, odd,
              ops>>
    BY ONLY <1>2, <2>1, CallFails, At("deisolate", "id") DEF CallFails, At, Go, Advance, disk, Idle
  <2>3. t \in Checks \cup {"connect"}
    BY ONLY <1>2, Reached(at, t), Passing DEF Reached, Isolated
  <2>4. TypeOK'
    BY <1>2, <2>2, <2>3, <1>3
  <2>5. CASE t = "check"
    <3>1. todo' = Prog("end", t)
      BY ONLY <2>2, <2>5, <2>3, BranchProg, ProgAt DEF Connects, Checks, Migrations
    <3>2. Point("end", t)
      BY ONLY <2>5, <2>3, Passing DEF Checks, Connects, Migrations, Tracks
    <3>3. Holds("end", t)'
      BY <1>2, <2>2, <2>3, <2>5
    <3> QED BY ONLY <2>4, <3>1, <3>2, <3>3 DEF Inv, Reached
  <2>6. CASE t = "heal"
    <3>1. todo' = Prog("on", t)
      BY ONLY <2>2, <2>6, <2>3, BranchProg, ProgAt DEF Connects, Checks, Migrations
    <3>2. Point("on", t)
      BY ONLY <2>6, <2>3, Passing DEF Checks, Connects, Healing, Migrations, Tracks
    <3>3. Holds("on", t)'
      BY <1>2, <2>2, <2>3, <2>6
    <3> QED BY ONLY <2>4, <3>1, <3>2, <3>3 DEF Inv, Reached
  <2>7. CASE t = "connect"
    <3>1. todo' = Prog("keep", t)
      BY ONLY <2>2, <2>7, <2>3, BranchProg, ProgAt DEF Connects, Checks, Migrations
    <3>2. Point("keep", t)
      BY ONLY <2>7, <2>3, Passing DEF Checks, Connects, Keeping, Migrations, Tracks
    <3>3. Holds("keep", t)'
      BY <1>2, <2>2, <2>3, <2>7
    <3> QED BY ONLY <2>4, <3>1, <3>2, <3>3 DEF Inv, Reached
  <2> QED BY ONLY <2>3, <2>5, <2>6, <2>7 DEF Connects, Checks
<1>4. at \in {"iso_fail", "iso_end"}
  BY ONLY At("deisolate", "id"), Reached(at, t), ProgCall, CallAt DEF Reached, At
<1> QED BY ONLY <1>1, <1>2, <1>4

\* A failing call keeps the invariant.
LEMMA CallFailsStep ==
  ASSUME NEW at, NEW t, TypeOK, Reached(at, t), CallFails
  PROVE  Inv'
<1>1. CASE At("deisolate", "id")
  BY ONLY <1>1, TypeOK, Reached(at, t), CallFails, CleanupFails
<1>2. CASE ~At("deisolate", "id")
  <2>1. at # "end"
    BY ONLY Reached(at, t), CallFails, IdleAt DEF CallFails
  <2>2. /\ todo' = todo.err
        /\ odd' = odd \cup Unrestored \cup Leaves(net') \cup (IF At("select", "prev") THEN {"cut"} ELSE {})
        /\ UNCHANGED <<addr, index, files, legacy, st, smode, iso, xr, job, heal, boot, owned>> /\ ops' = ops
    BY ONLY <1>2, CallFails DEF CallFails, disk
  <2>3. /\ At("configure", "id") => at = "configure"
        /\ At("configure", "orig") => at = "ret_configure"
        /\ at = "rm_unlist" => At("unlist", "id")
        /\ at = "undo" => At("select", "prev")
    <3>1. Call(at, t) = todo.call
      BY ONLY Reached(at, t), ProgCall DEF Reached
    <3>2. /\ at = "rm_unlist" => Call(at, t) = <<"unlist", "id">>
          /\ at = "undo" => Call(at, t) = <<"select", "prev">>
      BY DEF Call
    <3> QED BY ONLY <3>1, <3>2, CallAt DEF At
  <2>4. \/ net' = net \/ net' = [net EXCEPT !.rule = FALSE]
        \/ at = "configure" /\ net' = [cfg |-> job.id, up |-> FALSE, rule |-> FALSE]
        \/ at = "ret_configure" /\ net' = [cfg |-> job.orig.active, up |-> FALSE, rule |-> FALSE]
    BY ONLY <2>3, CallFails DEF CallFails, ProfileOf
  <2>5. at = "ret_configure" => job.orig.active \in Profile
    BY ONLY Reached(at, t), Passing DEF Reached, Holds, Frame, Returning
  <2>6. /\ net' \in [cfg : Profile \cup {None}, up : BOOLEAN, rule : BOOLEAN] /\ (net'.up => net.up /\ net'.cfg = net.cfg)
        /\ net'.cfg = net.cfg \/ (at = "configure" /\ net'.cfg = job.id) \/ at = "ret_configure"
    <3>1. net \in [cfg : Profile \cup {None}, up : BOOLEAN, rule : BOOLEAN] /\ job.id \in Profile \cup {None}
      BY ONLY TypeOK DEF TypeOK
    <3>2. CASE net' = net
      BY ONLY <3>1, <3>2
    <3>3. CASE net' = [net EXCEPT !.rule = FALSE]
      BY ONLY <3>1, <3>3
    <3>4. CASE at = "configure" /\ net' = [cfg |-> job.id, up |-> FALSE, rule |-> FALSE]
      BY ONLY <3>1, <3>4
    <3>5. CASE at = "ret_configure" /\ net' = [cfg |-> job.orig.active, up |-> FALSE, rule |-> FALSE]
      BY ONLY <3>5, <2>5
    <3> QED BY ONLY <2>4, <3>2, <3>3, <3>4, <3>5
  <2>7. /\ Unrestored \subseteq {"unrestored"} /\ Leaves(net') \subseteq {"cut", "dangling"}
        /\ net'.cfg \in {None, st.prepared, legacy} \/ "cut" \in Leaves(net')
        /\ At("unlist", "id") => "dangling" \in Leaves(net')
    BY ONLY DEF Unrestored, Leaves
  <2>8. faults' \in 0..MaxFaults
    BY ONLY TypeOK, CallFails, CountFault DEF CallFails
  <2>9. odd' \subseteq {"cut", "unrestored", "dangling", "overtaken"}
    BY ONLY <2>2, <2>7, TypeOK DEF TypeOK
  <2>10. Falls(at)
    BY ONLY <2>2, <2>3, <2>6, <2>7, <2>8, <2>9 DEF Falls
  <2> QED BY ONLY <2>1, <2>10, TypeOK, Reached(at, t), Failing
<1> QED BY ONLY <1>1, <1>2

\* What an operation that ends early leaves behind is in the history.
LEMMA Dies ==
  ASSUME NEW at, NEW t, TypeOK, Reached(at, t), TypeOK', todo' = End, job'.by = "killed",
         odd \subseteq odd', at # "end" => Leaves(net) \subseteq odd',
         net'.cfg = net.cfg, net'.up => net'.cfg # None, xr' = xr \/ xr'.sel = "none",
         UNCHANGED <<addr, index, files, legacy, st, owned>>
  PROVE  Inv'
<1>1. todo' = Prog("end", "import") /\ Point("end", "import")
  BY ONLY todo' = End, ProgAt, Passing DEF Tracks
<1>2. at = "rm_unlist" => "dangling" \in odd'
  <2>1. Call(at, t) = todo.call
    BY ONLY Reached(at, t), ProgCall DEF Reached
  <2>2. at = "rm_unlist" => Call(at, t) = <<"unlist", "id">>
    BY DEF Call
  <2>3. at = "rm_unlist" => "dangling" \in Leaves(net)
    BY ONLY <2>1, <2>2 DEF Leaves, At
  <2>4. "rm_unlist" # "end"
    OBVIOUS
  <2> QED BY <2>3, <2>4
<1>3. at \in Returned \cup {"prepared", "ret_egress", "ret_save"} =>
         /\ net.cfg \notin {None, st.prepared, legacy} => "cut" \in odd'
         /\ ~Recorded(st, xr) => "cut" \in odd'
  <2>1. (net.cfg \notin {None, st.prepared, legacy} => "cut" \in Leaves(net)) /\ (~Recorded(st, xr)
              => "cut" \in Leaves(net))
    BY ONLY DEF Leaves
  <2>2. at \in Returned \cup {"prepared", "ret_egress", "ret_save"} => at # "end"
    BY DEF Returned
  <2> QED BY <2>1, <2>2
<1>4. Holds(at, t)
  BY ONLY Reached(at, t) DEF Reached
<1>5. Frame("end", "import")'
  BY <1>4 DEF Holds, Frame, Sane, Acting, Raising, Removing, Moving, Loading, Reloading, Importing, Isolated, Verifying,
              Configuring, Configured, Starting, Switching, Recording, Keeping, Erasing, Ceasing
<1>6. OldLayout("end", "import")'
  BY <1>4 DEF Holds, OldLayout, Connected, Acting, Raising, Removing, Moving, Loading, Reloading, Importing, Isolated,
              Verifying, Configuring, Configured, Starting, Switching, Recording, Keeping, Erasing, Ceasing
<1>7. Choice("end", "import")'
  BY DEF Choice, Acting, Raising, Isolated, Keeping, Erasing, Moving, Loading, Reloading
<1>8. Named("end", "import")'
  <2>1. Named(at, t) /\ OldLayout(at, t)
    BY ONLY <1>4 DEF Holds
  <2>2. CASE "cut" \in odd'
    BY ONLY <2>2 DEF Named, Lost
  <2>3. CASE Lost
    BY ONLY <2>3, odd \subseteq odd' DEF Named, Lost
  <2>4. CASE "cut" \notin odd' /\ ~Lost
    <3>1. Connected /\ st.active # None => net.cfg \in {None, st.active}
      BY ONLY <2>1, <2>4 DEF Named
    <3>2. NamedBy(st)
      <4>1. at \notin Returned \cup {"prepared"} => NamedBy(st)
        BY ONLY <2>1, <2>4 DEF Named
      <4>2. at \in Returned \cup {"prepared"} => net.cfg \in {None, st.prepared, legacy}
        BY ONLY <1>3, <2>4
      <4>3. legacy # None => st.prepared \in {None, legacy}
        BY ONLY <2>1 DEF OldLayout
      <4> QED BY ONLY <4>1, <4>2, <4>3 DEF NamedBy
    <3>3. NamedBy(st)' /\ ((Connected /\ st.active # None => net.cfg \in {None, st.active})')
      BY <3>1, <3>2 DEF NamedBy, Connected
    <3> QED BY ONLY <3>3 DEF Named, Returned, Settled, Raising, Verifying, Configured, Starting
  <2> QED BY ONLY <2>2, <2>3, <2>4
<1>9. Route("end", "import")'
  <2>1. Route(at, t) /\ {"none"} \cap Addresses = {} /\ UNCHANGED Addresses
    BY ONLY <1>4, ProfileAssumption, UNCHANGED <<addr, index, files, legacy, st, owned>> DEF Holds, Addresses
  <2>2. Excused' \/ Known(st)'
    <3>1. CASE at \in {"ret_egress", "ret_save"}
      BY <1>3, <2>1, <3>1 DEF Excused, Known, Recorded
    <3>2. CASE at \notin {"ret_egress", "ret_save"}
      BY <2>1, <3>2 DEF Route, Excused, Known, Recorded
    <3> QED BY ONLY <3>1, <3>2
  <2> QED BY ONLY <2>2 DEF Route, Erasing
<1>10. Kept("end", "import")'
  BY ONLY job'.by = "killed" DEF Kept, Recording, Settled
<1>11. Listed("end", "import")'
  BY <1>2, <1>4 DEF Holds, Listed
<1>12. Holds("end", "import")'
  BY ONLY <1>5, <1>6, <1>7, <1>8, <1>9, <1>10, <1>11 DEF Holds
<1> QED BY ONLY TypeOK', <1>1, <1>12 DEF Inv, Reached

\* So does the end of the process.
LEMMA KillStep ==
  ASSUME NEW at, NEW t, TypeOK, Reached(at, t), Kill
  PROVE  Inv'
<1>1. /\ todo' = End /\ job' = [job EXCEPT !.by = "killed"] /\ heal' \in {heal, 0} /\ odd' = odd \cup Leaves(net)
      /\ UNCHANGED <<addr, index, files, legacy, st, smode, net, iso, xr, boot, owned, ops>>
  BY ONLY Kill DEF Kill, disk, runtime
<1>2. faults' \in 0..MaxFaults
  BY ONLY TypeOK, Kill, CountFault DEF Kill
<1>3. TypeOK' /\ job'.by = "killed"
  BY ONLY TypeOK, <1>1, <1>2 DEF TypeOK, Leaves, Operations
<1>4. net.up => net.cfg # None
  BY ONLY Reached(at, t) DEF Reached, Holds, Frame
<1>5. odd \subseteq odd' /\ Leaves(net) \subseteq odd' /\ net'.cfg = net.cfg /\ (net'.up => net'.cfg # None)
  BY ONLY <1>1, <1>4
<1> QED BY ONLY TypeOK, Reached(at, t), <1>1, <1>3, <1>5, Dies

\* So does a restart of the router.
LEMMA RebootStep ==
  ASSUME NEW at, NEW t, TypeOK, Reached(at, t), Reboot
  PROVE  Inv'
<1>1. /\ todo' = End /\ job' = [job EXCEPT !.by = "killed"] /\ heal' = 0 /\ boot' = TRUE
      /\ net' \in {[net EXCEPT !.up = u, !.rule = FALSE] : u \in {FALSE, net.cfg # None}}
      /\ xr' \in [run : BOOLEAN, sel : {"none"}]
      /\ odd' = odd \cup (IF Idle THEN {} ELSE Leaves(net))
      /\ UNCHANGED <<addr, index, files, legacy, st, smode, iso, owned, ops>>
  BY ONLY Reboot DEF Reboot, disk
<1>2. faults' \in 0..MaxFaults
  BY ONLY TypeOK, Reboot, CountFault DEF Reboot
<1>3. net' \in [cfg : Profile \cup {None}, up : BOOLEAN, rule : BOOLEAN] /\ net'.cfg = net.cfg /\ (net'.up
            => net'.cfg # None)
  <2>1. PICK u \in {FALSE, net.cfg # None} : net' = [net EXCEPT !.up = u, !.rule = FALSE]
    BY ONLY <1>1
  <2>2. net \in [cfg : Profile \cup {None}, up : BOOLEAN, rule : BOOLEAN]
    BY ONLY TypeOK DEF TypeOK
  <2> QED BY ONLY <2>1, <2>2
<1>4. odd' \subseteq odd \cup {"cut", "dangling"} /\ job'.by = "killed" /\ job' \in [by : Operations,
            id : Profile \cup {None}, mode : Modes, orig : States \cup {None},
                  base : States \cup {None}, tag : Tags, prev : Tags, ok : BOOLEAN, was : BOOLEAN]
  BY ONLY TypeOK, <1>1 DEF TypeOK, Leaves, Operations
<1>5. TypeOK'
  BY ONLY TypeOK, <1>1, <1>2, <1>3, <1>4 DEF TypeOK, Tags
<1>6. odd \subseteq odd' /\ (at # "end" => Leaves(net) \subseteq odd')
  BY ONLY <1>1, Reached(at, t), IdleAt
<1>7. xr'.sel = "none"
  BY ONLY <1>1
<1> QED BY ONLY TypeOK, Reached(at, t), <1>1, <1>3, <1>4, <1>5, <1>6, <1>7, Dies

\* Xray dies, or the tunnel goes down, under an operation or between two.
LEMMA OutageStep ==
  ASSUME NEW at, NEW t, TypeOK, Reached(at, t), Outage
  PROVE  Inv'
<1>1. UNCHANGED <<addr, index, files, legacy, st, smode, iso, todo, job, heal, boot, owned, odd, ops>>
  BY ONLY Outage DEF Outage, disk
<1>2. (xr' = Stopped /\ net' = net) \/ (net' = [net EXCEPT !.up = FALSE] /\ xr' = xr)
  BY ONLY Outage DEF Outage
<1>3. faults' \in 0..MaxFaults
  BY ONLY TypeOK, Outage, CountFault DEF Outage
<1>4. TypeOK'
  <2>1. net' \in [cfg : Profile \cup {None}, up : BOOLEAN, rule : BOOLEAN] /\ xr' \in [run : BOOLEAN, sel : Tags]
    <3>1. net \in [cfg : Profile \cup {None}, up : BOOLEAN, rule : BOOLEAN] /\ xr \in [run : BOOLEAN, sel : Tags]
      BY ONLY TypeOK DEF TypeOK
    <3>2. Stopped \in [run : BOOLEAN, sel : Tags]
      BY ONLY DEF Stopped, Tags
    <3>3. CASE xr' = Stopped /\ net' = net
      BY ONLY <3>1, <3>2, <3>3
    <3>4. CASE net' = [net EXCEPT !.up = FALSE] /\ xr' = xr
      BY ONLY <3>1, <3>4
    <3> QED BY ONLY <1>2, <3>3, <3>4
  <2> QED BY ONLY TypeOK, <1>1, <1>3, <2>1 DEF TypeOK
<1>5. net'.cfg = net.cfg /\ (net'.up => net.up) /\ (xr' = xr \/ (~xr'.run /\ xr'.sel = "none"))
  BY ONLY TypeOK, <1>2 DEF TypeOK, Stopped
<1>6. Holds(at, t)
  BY ONLY Reached(at, t) DEF Reached
<1>7. todo' = Prog(at, t) /\ Point(at, t)
  BY ONLY <1>1, Reached(at, t) DEF Reached
<1>8. Frame(at, t)'
  BY ONLY <1>1, <1>5, <1>6 DEF Holds, Frame, Sane, Addresses, States, Tags
<1>9. OldLayout(at, t)'
  BY ONLY <1>1, <1>5, <1>6 DEF Holds, OldLayout, Connected
<1>10. Choice(at, t)'
  BY ONLY <1>1, <1>6 DEF Holds, Choice, Connected, OtherActive
<1>11. Named(at, t)'
  BY ONLY <1>1, <1>5, <1>6 DEF Holds, Named, Lost, Connected, NamedBy
<1>12. Route(at, t)'
  BY ONLY <1>1, <1>5, <1>6, ProfileAssumption DEF Holds, Route, Excused, Known, Recorded
<1>13. Kept(at, t)'
  BY ONLY <1>1, <1>6 DEF Holds, Kept
<1>14. Listed(at, t)'
  BY ONLY <1>1, <1>6 DEF Holds, Listed
<1>15. Holds(at, t)'
  BY ONLY <1>8, <1>9, <1>10, <1>11, <1>12, <1>13, <1>14 DEF Holds
<1> QED BY ONLY <1>4, <1>7, <1>15 DEF Inv, Reached

\* What holds between operations does not depend on the probes.
LEMMA Rests ==
  ASSUME NEW at, NEW t, TypeOK, Reached(at, t), Idle, TypeOK', todo' = End,
         UNCHANGED <<addr, index, files, legacy, net, xr, owned, odd>>,
         st'.kind = st.kind /\ st'.active = st.active /\ st'.conn = st.conn /\ st'.busy = st.busy /\ st'.tag = st.tag
             /\ st'.prepared = st.prepared,
         job' = job \/ job'.by = "none"
  PROVE  Inv'
<1>1. at = "end" /\ Holds("end", t) /\ Point("end", t) /\ todo' = Prog("end", t)
  BY ONLY Reached(at, t), Idle, todo' = End, IdleAt, ProgAt DEF Reached
<1>2. Holds("end", t)'
  <2>1. Frame("end", t)'
    BY <1>1 DEF Holds, Frame, Sane, Acting, Raising, Removing, Moving, Loading, Reloading, Importing, Isolated, Verifying,
                Configuring, Configured, Starting, Switching, Recording, Keeping, Erasing, Ceasing
  <2>2. OldLayout("end", t)'
    BY <1>1 DEF Holds, OldLayout, Connected, Acting, Raising, Removing, Moving, Loading, Reloading, Importing, Isolated,
                Verifying, Configuring, Configured, Starting, Switching, Recording, Keeping, Erasing, Ceasing
  <2>3. Choice("end", t)'
    BY DEF Choice, Acting, Raising, Switching, Verifying, Configuring, Configured, Starting, Isolated, Keeping, Erasing,
           Moving, Loading, Reloading
  <2>4. Named("end", t)'
    BY <1>1 DEF Holds, Named, Lost, Connected, NamedBy, Returned, Settled, Raising, Verifying, Configured, Starting
  <2>5. Route("end", t)'
    BY <1>1 DEF Holds, Route, Excused, Known, Recorded, Erasing
  <2>6. Kept("end", t)'
    BY <1>1 DEF Holds, Kept, Recording, Settled
  <2>7. Listed("end", t)'
    BY <1>1 DEF Holds, Listed
  <2> QED BY ONLY <2>1, <2>2, <2>3, <2>4, <2>5, <2>6, <2>7 DEF Holds
<1> QED BY ONLY TypeOK', <1>1, <1>2 DEF Inv, Reached

\* Probes become old.
LEMMA ProbesAgeStep ==
  ASSUME NEW at, NEW t, TypeOK, Reached(at, t), ProbesAge
  PROVE  Inv'
<1>1. /\ Idle /\ UNCHANGED <<addr, index, files, legacy, net, iso, xr, smode, todo, job, heal, boot, owned, odd, faults,
            ops>>
      /\ st' = [st EXCEPT !.probe = [p \in Profile |-> IF @[p] = "fresh" THEN "old" ELSE @[p]]]
  BY ONLY ProbesAge DEF ProbesAge, disk, runtime
<1>2. st \in States
  BY ONLY TypeOK DEF TypeOK
<1>3. [p \in Profile |-> IF st.probe[p] = "fresh" THEN "old" ELSE st.probe[p]] \in [Profile -> {"none", "fresh", "old",
            "failed"}]
  BY ONLY <1>2 DEF States
<1>4. /\ st' \in States /\ st'.kind = st.kind /\ st'.active = st.active /\ st'.conn = st.conn /\ st'.busy = st.busy
      /\ st'.tag = st.tag /\ st'.prepared = st.prepared
  BY ONLY <1>1, <1>2, <1>3 DEF States
<1>5. TypeOK'
  BY ONLY TypeOK, <1>1, <1>4 DEF TypeOK
<1>6. todo' = End
  BY ONLY <1>1 DEF Idle
<1> QED BY ONLY TypeOK, Reached(at, t), <1>1, <1>4, <1>5, <1>6, Rests

\* The watch begins to return to the tunnel.
LEMMA RecoveryNeededStep ==
  ASSUME NEW at, NEW t, TypeOK, Reached(at, t), RecoveryNeeded
  PROVE  Inv'
<1>1. heal = 0 /\ heal' = 1 /\ UNCHANGED <<addr, index, files, legacy, net, iso, xr, st, smode, todo, job, boot, owned,
            odd, faults, ops>>
  BY ONLY RecoveryNeeded DEF RecoveryNeeded, disk, runtime
<1>2. TypeOK'
  BY ONLY TypeOK, <1>1 DEF TypeOK
<1>3. Holds(at, t)'
  BY ONLY <1>1, Reached(at, t) DEF Reached, Holds, Frame, OldLayout, Choice, Named, Route, Kept, Listed, Lost, Connected,
     NamedBy,
          Excused, Known, Recorded, OtherActive, Sane
<1> QED BY ONLY <1>1, <1>2, <1>3, Reached(at, t) DEF Inv, Reached

\* A stuttering step keeps the invariant.
LEMMA Stutters ==
  ASSUME Inv, UNCHANGED vars
  PROVE  Inv'
<1>1. UNCHANGED <<addr, index, files, legacy, net, iso, xr, st, smode, todo, job, heal, boot, owned, odd, faults, ops>>
  BY ONLY UNCHANGED vars DEF vars
<1>2. TypeOK'
  BY ONLY Inv, <1>1 DEF Inv, TypeOK
<1>3. PICK at, t : Reached(at, t)
  BY ONLY Inv DEF Inv
<1>4. Holds(at, t)'
  BY ONLY <1>1, <1>3 DEF Reached, Holds, Frame, OldLayout, Choice, Named, Route, Kept, Listed, Lost, Connected, NamedBy,
          Excused, Known, Recorded, OtherActive, Sane
<1> QED BY ONLY <1>1, <1>2, <1>3, <1>4 DEF Inv, Reached

-------------------------------------------------------------------------------
(* Operations begin. *)

\* The job of an operation that begins, and what holds between operations.
LEMMA BeginJob ==
  ASSUME NEW a, NEW u, TypeOK, Reached(a, u), NEW who \in Operations, NEW p \in Profile \cup {None}, NEW mode \in Modes,
        NEW prog,
         Begin(who, p, mode, prog), heal' \in 0..3, boot' \in BOOLEAN, ops' \in 0..MaxOps
  PROVE  /\ TypeOK' /\ todo' = prog /\ UNCHANGED <<addr, index, files, legacy, st, smode, net, iso, xr, owned, odd, faults>>
         /\ job'.by = who /\ job'.id = p /\ job'.orig = None /\ job'.base = st /\ job'.was = st.conn
         /\ Holds("end", u) /\ st \in States
<1>1. /\ Idle /\ todo' = prog /\ job' = [NoJob EXCEPT !.by = who, !.id = p, !.mode = mode, !.base = st, !.was = st.conn]
      /\ UNCHANGED <<addr, index, files, legacy, st, smode, net, iso, xr, owned, odd, faults>>
  BY ONLY Begin(who, p, mode, prog) DEF Begin, disk, runtime
<1>2. Holds("end", u)
  BY ONLY Reached(a, u), <1>1, IdleAt DEF Reached
<1>3. st \in States /\ st.conn \in BOOLEAN
  BY ONLY TypeOK DEF TypeOK, States
<1>4. job' = [by |-> who, id |-> p, mode |-> mode, orig |-> None, base |-> st, tag |-> "none", prev |-> "none",
              ok |-> FALSE, was |-> st.conn]
  BY ONLY <1>1 DEF NoJob
<1>5. job' \in [by : Operations, id : Profile \cup {None}, mode : Modes, orig : States \cup {None},
            base : States \cup {None},
                tag : Tags, prev : Tags, ok : BOOLEAN, was : BOOLEAN]
  BY <1>3, <1>4 DEF Tags
<1>6. TypeOK'
  BY TypeOK, <1>1, <1>5 DEF TypeOK
<1>7. job'.by = who /\ job'.id = p /\ job'.orig = None /\ job'.base = st /\ job'.was = st.conn
  BY ONLY <1>4
<1> QED BY ONLY <1>1, <1>2, <1>3, <1>6, <1>7

\* The first points of the operations, and when they begin there.
First == {"write", "adopt", "reload", "load", "end_select", "only_down", "direct_select", "stop", "start", "open_select"}
Begins(at, t, p) ==
    /\ at \in First /\ t \in Tracks \ {"attempt", "active"} /\ Point(at, t)
    /\ t = "heal" => heal' \in {1, 2}
    /\ t = "import" => p \in Profile
    /\ at \in {"write", "adopt"} => legacy # None
    /\ at = "write" => legacy \notin index
    /\ at = "adopt" => legacy \in index
    /\ at \in {"reload", "load"} => legacy = None \/ (t = "connect" /\ p = legacy)
    /\ t \in {"reapply", "restore"} /\ at \in {"write", "adopt", "reload", "load"} =>
          Connected /\ p = (IF st.active = None THEN legacy ELSE st.active)

\* An operation that begins at a first point keeps the invariant.
LEMMA BeginStep ==
  ASSUME NEW a, NEW u, TypeOK, Reached(a, u), NEW at, NEW t, NEW p \in Profile \cup {None}, NEW mode \in Modes,
         Begin(By(t), p, mode, Prog(at, t)), Begins(at, t, p), heal' \in 0..3, boot' \in BOOLEAN, ops' \in 0..MaxOps
  PROVE  Inv'
<1>1. By(t) \in Operations /\ By(t) = t
  BY ONLY Begins(at, t, p) DEF Begins, By, Tracks, Operations
<1>2. /\ TypeOK' /\ todo' = Prog(at, t) /\ UNCHANGED <<addr, index, files, legacy, st, smode, net, iso, xr, owned, odd,
            faults>>
      /\ job'.by = By(t) /\ job'.id = p /\ job'.orig = None /\ job'.base = st /\ job'.was = st.conn
      /\ Holds("end", u) /\ st \in States
  BY <1>1, BeginJob
<1> USE DEF Acting, Raising, Removing, Moving, Loading, Reloading, Importing, Isolated, Verifying, Configuring, Configured,
            Starting, Switching, Recording, Keeping, Returned, Settled, Erasing, Ceasing, First
<1>3. Frame(at, t)'
  BY ONLY Begins(at, t, p), <1>1, <1>2 DEF Begins, Holds, Frame, Sane, By
<1>4. OldLayout(at, t)'
  BY ONLY Begins(at, t, p), <1>2 DEF Begins, Holds, OldLayout, Connected
<1>5. Choice(at, t)'
  <2>1. st.active \in Profile \cup {None} /\ legacy \in Profile \cup {None} /\ (Connected /\ st.active = None
              => legacy # None)
    BY ONLY TypeOK, <1>2 DEF TypeOK, States, Holds, OldLayout
  <2> QED BY ONLY Begins(at, t, p), <1>2, <2>1 DEF Begins, Choice, Connected
<1>6. Named(at, t)'
  BY ONLY Begins(at, t, p), <1>2 DEF Begins, Holds, Named, Lost, Connected, NamedBy
<1>7. Route(at, t)'
  BY ONLY Begins(at, t, p), <1>2 DEF Begins, Holds, Route, Excused, Known, Recorded
<1>8. Kept(at, t)'
  BY ONLY Begins(at, t, p), <1>2 DEF Begins, Kept
<1>9. Listed(at, t)'
  BY ONLY Begins(at, t, p), <1>2 DEF Begins, Holds, Listed
<1>10. Holds(at, t)'
  BY ONLY <1>3, <1>4, <1>5, <1>6, <1>7, <1>8, <1>9 DEF Holds
<1> QED BY ONLY Begins(at, t, p), <1>2, <1>10 DEF Inv, Reached, Begins

\* The operations that begin with the migration.
LEMMA MigrateStep ==
  ASSUME NEW a, NEW u, TypeOK, Reached(a, u), NEW t \in Migrations, NEW p \in Profile \cup {None}, NEW mode \in Modes,
         Begin(t, p, mode, migrateLegacyAWGProfile(Handler(t), Migrated(t))),
         t = "heal" => heal' \in {1, 2}, t = "import" => p \in Profile,
         t \in {"reapply", "restore"} => Connected /\ p = (IF st.active = None THEN legacy ELSE st.active),
         heal' \in 0..3, boot' \in BOOLEAN, ops' \in 0..MaxOps
  PROVE  Inv'
<1>1. By(t) = t /\ t \in Tracks \ {"attempt", "active"}
  BY ONLY t \in Migrations DEF Migrations, By, Tracks
<1>2. Begin(By(t), p, mode, Prog(Migrates(t), t))
  BY ONLY <1>1, t \in Migrations, MigrateProg, Begin(t, p, mode, migrateLegacyAWGProfile(Handler(t), Migrated(t)))
<1>3. Migrates(t) \in {"write", "adopt", "load"} \/ (Migrates(t) = "reload" /\ t = "reapply")
  BY ONLY DEF Migrates
<1>4. Point(Migrates(t), t)
  BY ONLY <1>3, t \in Migrations, Passing DEF Moving, Loading, Reloading
<1>5. Begins(Migrates(t), t, p)
  BY ONLY <1>1, <1>3, <1>4, t = "heal" => heal' \in {1, 2}, t = "import" => p \in Profile,
          t \in {"reapply", "restore"} => Connected /\ p = (IF st.active = None THEN legacy ELSE st.active)
     DEF Begins, Migrates, First
<1> QED BY ONLY <1>2, <1>5, TypeOK, Reached(a, u), p \in Profile \cup {None}, mode \in Modes, heal' \in 0..3,
        boot' \in BOOLEAN,
                ops' \in 0..MaxOps, BeginStep

\* The programs of the operations of the user.
LEMMA LoadProg ==
  ASSUME NEW t \in {"import", "check", "connect", "remove"}
  PROVE  Handler(t) = End /\ Migrated(t) = Do("load", t, End, End)
<1>1. Handler(t) = End
  BY ONLY t \in {"import", "check", "connect", "remove"}, HandlerProg, ProgAt DEF Entry
<1> QED BY ONLY t \in {"import", "check", "connect", "remove"}, <1>1, BranchProg, LoadingProg DEF Loaded

\* The count of operations stays within its bound.
LEMMA CountOp ==
  ASSUME TypeOK, ops < MaxOps, ops' = ops + 1
  PROVE  ops' \in 0..MaxOps
BY AmneziaWGBounds DEF TypeOK

\* An import, a check, a connect or a removal begins.
LEMMA UserStep ==
  ASSUME NEW a, NEW u, TypeOK, Reached(a, u), NEW t \in {"import", "check", "connect", "remove"}, NEW p \in Profile,
         User(t, p, "manual", migrateLegacyAWGProfile(End, Do("load", t, End, End)))
  PROVE  Inv'
<1>1. /\ Begin(t, p, "manual", migrateLegacyAWGProfile(Handler(t), Migrated(t))) /\ ops < MaxOps /\ ops' = ops + 1
      /\ UNCHANGED <<heal, boot>>
  BY ONLY User(t, p, "manual", migrateLegacyAWGProfile(End, Do("load", t, End, End))), t \in {"import", "check", "connect",
     "remove"}, LoadProg DEF User
<1>2. heal' \in 0..3 /\ boot' \in BOOLEAN /\ ops' \in 0..MaxOps
  BY ONLY TypeOK, <1>1, CountOp DEF TypeOK
<1>3. t \in Migrations /\ "manual" \in Modes /\ p \in Profile \cup {None} /\ t \notin {"heal", "reapply", "restore"}
  BY DEF Migrations, Modes
<1> QED BY ONLY TypeOK, Reached(a, u), <1>1, <1>2, <1>3, p \in Profile, MigrateStep

\* A disconnect begins.
LEMMA DisconnectAWGStep ==
  ASSUME NEW a, NEW u, TypeOK, Reached(a, u), DisconnectAWG
  PROVE  Inv'
<1> DEFINE at == IF st.kind = "awg" THEN "end_select" ELSE "only_down"
<1>1. /\ Begin("disconnect", None, "disconnected", Prog(at, "disconnect")) /\ ops < MaxOps /\ ops' = ops + 1
      /\ UNCHANGED <<heal, boot>>
  BY ONLY DisconnectAWG, DisconnectProg DEF DisconnectAWG, User
<1>2. heal' \in 0..3 /\ boot' \in BOOLEAN /\ ops' \in 0..MaxOps
  BY ONLY TypeOK, <1>1, CountOp DEF TypeOK
<1>3. By("disconnect") = "disconnect" /\ "disconnected" \in Modes /\ None \in Profile \cup {None}
  BY DEF By, Modes
<1>4. at \in {"end_select", "only_down"}
  OBVIOUS
<1> HIDE DEF at
<1>5. Point(at, "disconnect")
  BY ONLY <1>4, Passing DEF Ending, Lowering
<1>6. Begins(at, "disconnect", None)
  BY ONLY <1>4, <1>5 DEF Begins, First, Tracks
<1> QED BY ONLY TypeOK, Reached(a, u), <1>1, <1>2, <1>3, <1>6, BeginStep

\* The automatic loop connects a profile without the migration.
LEMMA CommitAutoSelectionStep ==
  ASSUME NEW a, NEW u, TypeOK, Reached(a, u), NEW p \in Profile, commitAutoSelection(p)
  PROVE  Inv'
<1>1. Do("load", "connect", End, End) = Prog("load", "connect")
  <2>1. Handler("connect") = End
    BY ONLY HandlerProg, ProgAt DEF Entry
  <2> QED BY ONLY <2>1, LoadingProg DEF Loaded
<1>2. /\ Begin("connect", p, "auto", Prog("load", "connect")) /\ ops < MaxOps /\ ops' = ops + 1
      /\ UNCHANGED <<heal, boot>> /\ p \in index
  BY ONLY commitAutoSelection(p), <1>1 DEF commitAutoSelection, User
<1>3. heal' \in 0..3 /\ boot' \in BOOLEAN /\ ops' \in 0..MaxOps
  BY ONLY TypeOK, <1>2, CountOp DEF TypeOK
<1>4. By("connect") = "connect" /\ "auto" \in Modes /\ p \in Profile \cup {None}
  BY DEF By, Modes
<1>5. legacy = None \/ p = legacy
  BY ONLY <1>2, Reached(a, u) DEF Reached, Holds, OldLayout
<1>6. Point("load", "connect")
  BY ONLY Passing DEF Loading, Migrations
<1>7. Begins("load", "connect", p)
  BY ONLY <1>5, <1>6 DEF Begins, First, Tracks
<1> QED BY ONLY TypeOK, Reached(a, u), <1>2, <1>3, <1>4, <1>7, BeginStep

\* The profile that a reapplication connects again.
LEMMA ReapplyProg ==
  /\ Reapply("reapply", End) = migrateLegacyAWGProfile(Handler("reapply"), Migrated("reapply"))
  /\ Reapply("restore", activateManagedDirect(persistRestoreFailure)) = migrateLegacyAWGProfile(Handler("restore"),
        Migrated("restore"))
<1>1. Handler("reapply") = End /\ Handler("restore") = activateManagedDirect(persistRestoreFailure)
  BY ONLY HandlerProg, ProgAt, OpenProg DEF Entry
<1>2. Migrated("reapply") = Do("reload", "xray", End, Do("load", "attempt", End, End))
  BY ONLY <1>1, BranchProg, ReloadingProg, LoadingProg DEF Loaded
<1>3. Migrated("restore") = Do("load", "attempt", Handler("restore"), End)
  BY ONLY BranchProg, LoadingProg DEF Loaded
<1>4. Reapply("reapply", End) = migrateLegacyAWGProfile(Handler("reapply"), Migrated("reapply"))
  BY ONLY <1>1, <1>2 DEF Reapply
<1>5. Reapply("restore", Handler("restore")) = migrateLegacyAWGProfile(Handler("restore"), Migrated("restore"))
  BY ONLY <1>3 DEF Reapply
<1> QED BY ONLY <1>1, <1>4, <1>5

\* A settings change begins to apply the connection again.
LEMMA SettingsChangeStep ==
  ASSUME NEW a, NEW u, TypeOK, Reached(a, u), SettingsChange
  PROVE  Inv'
<1> DEFINE p == IF st.active = None THEN legacy ELSE st.active
<1>1. /\ Begin("reapply", p, SavedMode, migrateLegacyAWGProfile(Handler("reapply"), Migrated("reapply")))
      /\ ops < MaxOps /\ ops' = ops + 1 /\ UNCHANGED <<heal, boot>> /\ Connected
  BY ONLY SettingsChange, ReapplyProg DEF SettingsChange, User
<1>2. heal' \in 0..3 /\ boot' \in BOOLEAN /\ ops' \in 0..MaxOps
  BY ONLY TypeOK, <1>1, CountOp DEF TypeOK
<1>3. p \in Profile \cup {None} /\ SavedMode \in Modes /\ "reapply" \in Migrations
  BY ONLY TypeOK DEF TypeOK, States, SavedMode, Modes, Migrations
<1> QED BY ONLY TypeOK, Reached(a, u), <1>1, <1>2, <1>3, MigrateStep

\* The daemon begins to restore its route.
LEMMA RestoreRuntimeStep ==
  ASSUME NEW a, NEW u, TypeOK, Reached(a, u), RestoreRuntime
  PROVE  Inv'
<1> DEFINE p == IF st.active = None THEN legacy ELSE st.active
<1>1. boot' = FALSE /\ UNCHANGED <<heal, ops>>
  BY ONLY RestoreRuntime DEF RestoreRuntime
<1>2. \/ Begin("restore", st.active, SavedMode, Do("select", "direct", End, Do("save", "direct", End, End)))
      \/ Begin("restore", st.active, SavedMode, Do("stop", "xray", End, End))
      \/ Connected /\ Begin("restore", p, SavedMode, Reapply("restore", activateManagedDirect(persistRestoreFailure)))
      \/ Begin("restore", None, SavedMode, Do("start", "node", persistRestoreFailure, End))
  BY ONLY RestoreRuntime DEF RestoreRuntime
<1>3. heal' \in 0..3 /\ boot' \in BOOLEAN /\ ops' \in 0..MaxOps
  BY ONLY TypeOK, <1>1 DEF TypeOK
<1>4. {st.active, p, None} \subseteq Profile \cup {None} /\ SavedMode \in Modes /\ "restore" \in Migrations
            /\ By("restore") = "restore"
  BY ONLY TypeOK DEF TypeOK, States, SavedMode, Modes, Migrations, By
<1>5. /\ Do("select", "direct", End, Do("save", "direct", End, End)) = Prog("direct_select", "restore")
      /\ Do("stop", "xray", End, End) = Prog("stop", "restore")
      /\ Do("start", "node", persistRestoreFailure, End) = Prog("start", "restore")
  BY ONLY RestoringProg, OpenProg
<1>6. ASSUME NEW at \in {"direct_select", "stop", "start"}, NEW q PROVE Begins(at, "restore", q)
  <2>1. Point(at, "restore")
    BY ONLY <1>6, Passing DEF Restoring
  <2> QED BY ONLY <1>6, <2>1 DEF Begins, First, Tracks
<1>7. CASE Begin("restore", st.active, SavedMode, Do("select", "direct", End, Do("save", "direct", End, End)))
  BY ONLY TypeOK, Reached(a, u), <1>3, <1>4, <1>5, <1>6, <1>7, BeginStep
<1>8. CASE Begin("restore", st.active, SavedMode, Do("stop", "xray", End, End))
  BY ONLY TypeOK, Reached(a, u), <1>3, <1>4, <1>5, <1>6, <1>8, BeginStep
<1>9. CASE Begin("restore", None, SavedMode, Do("start", "node", persistRestoreFailure, End))
  BY ONLY TypeOK, Reached(a, u), <1>3, <1>4, <1>5, <1>6, <1>9, BeginStep
<1>10. CASE Connected /\ Begin("restore", p, SavedMode, Reapply("restore", activateManagedDirect(persistRestoreFailure)))
  BY ONLY TypeOK, Reached(a, u), <1>3, <1>4, <1>10, ReapplyProg, MigrateStep
<1> QED BY ONLY <1>2, <1>7, <1>8, <1>9, <1>10

\* A fail-open begins.
LEMMA FailOpenStep ==
  ASSUME NEW a, NEW u, TypeOK, Reached(a, u), FailOpen
  PROVE  Inv'
<1>1. Begin("failopen", None, st.mode, Prog("open_select", "failopen")) /\ UNCHANGED <<heal, boot, ops>>
  BY ONLY FailOpen, OpenProg DEF FailOpen
<1>2. heal' \in 0..3 /\ boot' \in BOOLEAN /\ ops' \in 0..MaxOps /\ st.mode \in Modes /\ None \in Profile \cup {None}
  BY ONLY TypeOK, <1>1 DEF TypeOK, States
<1>3. Point("open_select", "failopen")
  BY ONLY Passing DEF Opening
<1>4. Begins("open_select", "failopen", None) /\ By("failopen") = "failopen"
  BY ONLY <1>3 DEF Begins, First, Tracks, By
<1> QED BY ONLY TypeOK, Reached(a, u), <1>1, <1>2, <1>4, BeginStep

\* A check of the watch begins.
LEMMA HealCheckStep ==
  ASSUME NEW a, NEW u, TypeOK, Reached(a, u), HealCheck
  PROVE  Inv'
<1>1. Handler("heal") = Do("heal", "off", End, End)
  BY ONLY HandlerProg, HealingProg DEF Entry
<1>2. Migrated("heal") = Do("load", "check", Do("heal", "off", End, End), End)
  BY ONLY <1>1, BranchProg, LoadingProg DEF Loaded
<1>3. /\ Begin("heal", None, "manual", migrateLegacyAWGProfile(Handler("heal"), Migrated("heal")))
      /\ heal \in {1, 2} /\ UNCHANGED <<heal, boot, ops>>
  BY ONLY HealCheck, <1>1, <1>2 DEF HealCheck
<1>4. heal' \in 0..3 /\ boot' \in BOOLEAN /\ ops' \in 0..MaxOps /\ heal' \in {1, 2}
  BY ONLY TypeOK, <1>3 DEF TypeOK
<1>5. "heal" \in Migrations /\ "manual" \in Modes /\ None \in Profile \cup {None}
  BY DEF Migrations, Modes
<1> QED BY ONLY TypeOK, Reached(a, u), <1>3, <1>4, <1>5, MigrateStep

\* The connect of the watch begins.
LEMMA HealConnectStep ==
  ASSUME NEW a, NEW u, TypeOK, Reached(a, u), HealConnect
  PROVE  Inv'
<1>1. /\ Begin("connect", None, "manual", migrateLegacyAWGProfile(Handler("connect"), Migrated("connect")))
      /\ heal' = 0 /\ UNCHANGED <<boot, ops>>
  BY ONLY HealConnect, LoadProg DEF HealConnect
<1>2. heal' \in 0..3 /\ boot' \in BOOLEAN /\ ops' \in 0..MaxOps
  BY ONLY TypeOK, <1>1 DEF TypeOK
<1>3. "connect" \in Migrations /\ "manual" \in Modes /\ None \in Profile \cup {None}
  BY DEF Migrations, Modes
<1> QED BY ONLY TypeOK, Reached(a, u), <1>1, <1>2, <1>3, MigrateStep

\* The switch to a node of a subscription, and the end of every connection.
LEMMA OtherRoute ==
  ASSUME NEW a, NEW u, TypeOK, Reached(a, u), ConnectNode("manual") \/ ConnectNode("auto") \/ Disconnect
  PROVE  Inv'
<1>1. /\ Idle /\ ops < MaxOps /\ ops' = ops + 1 /\ job' = NoJob
      /\ UNCHANGED <<addr, index, files, legacy, net, iso, todo, heal, boot, owned, odd, faults>>
  BY ONLY ConnectNode("manual") \/ ConnectNode("auto") \/ Disconnect DEF ConnectNode, Disconnect, disk
<1>2. \/ /\ \E mode \in Modes : st' = [st EXCEPT !.kind = "xray", !.node = "node", !.mode = mode, !.conn = TRUE,
            !.rec = FALSE,
                                               !.busy = FALSE, !.tag = "node"] /\ smode' = mode
         /\ xr' = [run |-> TRUE, sel |-> "node"]
      \/ /\ st' = [st EXCEPT !.node = "none", !.mode = "disconnected", !.conn = FALSE] /\ smode' = "disconnected"
         /\ xr' = Stopped
  <2>1. "manual" \in Modes /\ "auto" \in Modes
    BY DEF Modes
  <2> QED BY ONLY <2>1, ConnectNode("manual") \/ ConnectNode("auto") \/ Disconnect DEF ConnectNode, Disconnect
<1>3. st \in States
  BY ONLY TypeOK DEF TypeOK
<1>4. /\ st' \in States /\ smode' \in Modes /\ st'.active = st.active /\ st'.prepared = st.prepared
      /\ \/ st'.kind = "xray" /\ st'.tag = "node"
         \/ st'.kind = st.kind /\ st'.tag = st.tag /\ ~st'.conn
  <2>1. ASSUME NEW mode \in Modes,
               st' = [st EXCEPT !.kind = "xray", !.node = "node", !.mode = mode, !.conn = TRUE, !.rec = FALSE,
                                !.busy = FALSE, !.tag = "node"]
        PROVE  st' \in States /\ st'.active = st.active /\ st'.prepared = st.prepared /\ st'.kind = "xray"
              /\ st'.tag = "node"
    BY ONLY <1>3, <2>1 DEF States, Tags
  <2>2. ASSUME st' = [st EXCEPT !.node = "none", !.mode = "disconnected", !.conn = FALSE]
        PROVE  /\ st' \in States /\ st'.active = st.active /\ st'.prepared = st.prepared /\ st'.kind = st.kind
              /\ st'.tag = st.tag
               /\ ~st'.conn /\ "disconnected" \in Modes
    BY ONLY <1>3, <2>2 DEF States, Modes
  <2> QED BY ONLY <1>2, <2>1, <2>2
<1>5. xr' \in [run : BOOLEAN, sel : Tags] /\ xr'.sel \notin Addresses
  <2>1. Stopped \in [run : BOOLEAN, sel : Tags] /\ Stopped.sel = "none"
    BY ONLY DEF Stopped, Tags
  <2>2. xr' = [run |-> TRUE, sel |-> "node"] => xr' \in [run : BOOLEAN, sel : Tags] /\ xr'.sel = "node"
    BY ONLY DEF Tags
  <2> QED BY ONLY <1>2, <2>1, <2>2, ProfileAssumption
<1>6. ops' \in 0..MaxOps
  BY ONLY TypeOK, <1>1, CountOp
<1>7. NoJob \in [by : Operations, id : Profile \cup {None}, mode : Modes, orig : States \cup {None},
            base : States \cup {None},
                 tag : Tags, prev : Tags, ok : BOOLEAN, was : BOOLEAN]
  BY DEF NoJob, Operations, Modes, Tags
<1>8. TypeOK'
  BY ONLY TypeOK, <1>1, <1>4, <1>5, <1>6, <1>7 DEF TypeOK
<1>9. Holds("end", u) /\ Point("end", u) /\ todo' = Prog("end", u)
  BY ONLY Reached(a, u), <1>1, IdleAt DEF Reached
<1>10. Holds("end", u)'
  <2> USE DEF Acting, Raising, Removing, Moving, Loading, Reloading, Importing, Isolated, Verifying, Configuring,
            Configured,
              Starting, Switching, Recording, Keeping, Returned, Settled, Erasing, Ceasing
  <2>1. Frame("end", u)'
    BY ONLY <1>1, <1>4, <1>9, ProfileAssumption DEF Holds, Frame, Sane
  <2>2. OldLayout("end", u)'
    BY ONLY <1>1, <1>4, <1>9 DEF Holds, OldLayout, Connected
  <2>3. Choice("end", u)'
    BY ONLY DEF Choice
  <2>4. Named("end", u)'
    BY ONLY <1>1, <1>4, <1>9 DEF Holds, Named, Lost, Connected, NamedBy
  <2>5. Route("end", u)'
    BY ONLY <1>5 DEF Route, Known, Recorded
  <2>6. Kept("end", u)'
    BY ONLY <1>1 DEF Kept, NoJob
  <2>7. Listed("end", u)'
    BY ONLY <1>1, <1>9 DEF Holds, Listed
  <2> QED BY ONLY <2>1, <2>2, <2>3, <2>4, <2>5, <2>6, <2>7 DEF Holds
<1> QED BY ONLY <1>8, <1>9, <1>10 DEF Inv, Reached

-------------------------------------------------------------------------------
(* The invariant holds throughout. *)

\* The invariant holds initially.
LEMMA InitInv ==
  ASSUME Init
  PROVE  Inv
<1> DEFINE q == [NewState EXCEPT !.kind = "awg", !.node = "old", !.mode = "manual", !.conn = TRUE]
<1> DEFINE Start == /\ st \in States /\ legacy \in Profile \cup {None} /\ (legacy # None => index = {})
          /\ st.active = None /\ st.prepared = None
                    /\ net \in [cfg : Profile \cup {None}, up : BOOLEAN, rule : BOOLEAN] /\ xr \in [run : BOOLEAN,
                          sel : Tags]
                    /\ Sane(st) /\ (Connected => legacy # None) /\ net.cfg = legacy /\ (net.up => net.cfg # None)
                          /\ Recorded(st, xr)
<1>1. /\ addr \in Addressing /\ index \in SUBSET Profile /\ files = index /\ smode = st.mode /\ iso = None
      /\ owned = index \cup {p \in Profile : p = legacy}
      /\ todo = End /\ job = NoJob /\ heal = 0 /\ boot = FALSE /\ odd = {} /\ faults = 0 /\ ops = 0
  BY ONLY Init DEF Init
<1>2. NewState \in States
  BY ONLY DEF NewState, States, Modes, Tags
<1>3. Start
  <2>1. CASE legacy = None /\ st = NewState /\ net = Tunnel /\ xr = Stopped
    <3>1. /\ NewState.active = None /\ NewState.prepared = None /\ NewState.kind = "none" /\ ~NewState.conn
      BY ONLY DEF NewState
    <3>2. Tunnel \in [cfg : Profile \cup {None}, up : BOOLEAN, rule : BOOLEAN] /\ Tunnel.cfg = None /\ ~Tunnel.up
      BY ONLY DEF Tunnel
    <3>3. Stopped \in [run : BOOLEAN, sel : Tags] /\ ~Stopped.run
      BY ONLY DEF Stopped, Tags
    <3> QED BY ONLY <1>2, <2>1, <3>1, <3>2, <3>3 DEF Sane, Connected, Recorded
  <2>2. ASSUME NEW p \in Profile, legacy = p, index = {}, st = [q EXCEPT !.tag = addr[p]],
               net = [cfg |-> p, up |-> TRUE, rule |-> TRUE], xr = [run |-> TRUE, sel |-> addr[p]]
        PROVE  Start
    <3>1. addr[p] \in Addresses /\ addr[p] \in Tags /\ p # None
      BY ONLY <1>1, <2>2, AddressOf, ProfileAssumption DEF Tags
    <3>2. st = [kind |-> "awg", active |-> None, node |-> "old", mode |-> "manual", conn |-> TRUE, rec |-> FALSE,
                busy |-> FALSE, tag |-> addr[p], prepared |-> None, probe |-> [x \in Profile |-> "none"]]
      BY ONLY <2>2 DEF NewState
    <3>3. st \in States
      BY ONLY <3>1, <3>2 DEF States, Modes
    <3>4. net \in [cfg : Profile \cup {None}, up : BOOLEAN, rule : BOOLEAN] /\ xr \in [run : BOOLEAN, sel : Tags]
      BY ONLY <2>2, <3>1
    <3>5. net.cfg = p /\ xr.sel = addr[p] /\ st.kind = "awg" /\ st.conn /\ st.tag = addr[p] /\ st.active = None
                /\ st.prepared = None
      <4>1. st.kind = "awg" /\ st.conn /\ st.tag = addr[p] /\ st.active = None /\ st.prepared = None
        BY ONLY <3>2
      <4>2. net.cfg = p
        BY ONLY <2>2
      <4>3. xr.sel = addr[p]
        BY ONLY <2>2
      <4> QED BY ONLY <4>1, <4>2, <4>3
    <3>6. Sane(st) /\ Connected /\ Recorded(st, xr)
      BY ONLY <3>1, <3>5 DEF Sane, Connected, Recorded
    <3> QED BY ONLY <2>2, <3>1, <3>3, <3>4, <3>5, <3>6
  <2> QED BY ONLY Init, <2>1, <2>2 DEF Init
<1>4. NoJob \in [by : Operations, id : Profile \cup {None}, mode : Modes, orig : States \cup {None},
            base : States \cup {None},
                 tag : Tags, prev : Tags, ok : BOOLEAN, was : BOOLEAN]
  BY ONLY DEF NoJob, Operations, Modes, Tags
<1>5. TypeOK
  <2>1. smode \in Modes /\ 0 \in 0..MaxFaults /\ 0 \in 0..MaxOps
    BY ONLY <1>1, <1>3, AmneziaWGBounds DEF States
  <2>2. owned \subseteq Profile
    BY ONLY <1>1
  <2>3. {index, files, owned} \subseteq SUBSET Profile /\ {legacy, iso} \subseteq Profile \cup {None}
    BY ONLY <1>1, <1>3, <2>2
  <2>4. heal \in 0..3 /\ boot \in BOOLEAN /\ faults \in 0..MaxFaults /\ ops \in 0..MaxOps /\ odd \subseteq {"cut",
              "unrestored", "dangling", "overtaken"}
    <3>1. heal \in 0..3
      BY ONLY <1>1
    <3>2. odd \subseteq {"cut", "unrestored", "dangling", "overtaken"}
      BY ONLY <1>1
    <3>3. boot \in BOOLEAN
      BY ONLY <1>1
    <3> QED BY ONLY <1>1, <2>1, <3>1, <3>2, <3>3
  <2>5. job \in [by : Operations, id : Profile \cup {None}, mode : Modes, orig : States \cup {None},
              base : States \cup {None},
                tag : Tags, prev : Tags, ok : BOOLEAN, was : BOOLEAN]
    BY ONLY <1>1, <1>4
  <2> QED BY ONLY <1>1, <1>3, <2>1, <2>3, <2>4, <2>5 DEF TypeOK
<1>6. Point("end", "import") /\ todo = Prog("end", "import")
  BY ONLY <1>1, Passing, ProgAt DEF Tracks
<1>7. Holds("end", "import")
  <2> USE DEF Acting, Raising, Removing, Moving, Loading, Reloading, Importing, Isolated, Verifying, Configuring,
            Configured,
              Starting, Switching, Recording, Keeping, Returned, Settled, Erasing, Ceasing
  <2>1. Frame("end", "import")
    BY ONLY <1>3 DEF Frame
  <2>2. OldLayout("end", "import")
    BY ONLY <1>3 DEF OldLayout, Connected
  <2>3. Choice("end", "import")
    BY ONLY DEF Choice
  <2>4. Named("end", "import")
    BY ONLY <1>3 DEF Named, NamedBy
  <2>5. Route("end", "import")
    BY ONLY <1>3 DEF Route, Known
  <2>6. Kept("end", "import")
    BY ONLY <1>1 DEF Kept, NoJob
  <2>7. Listed("end", "import")
    BY ONLY <1>1 DEF Listed
  <2> QED BY ONLY <2>1, <2>2, <2>3, <2>4, <2>5, <2>6, <2>7 DEF Holds
<1> QED BY ONLY <1>5, <1>6, <1>7 DEF Inv, Reached

\* Every step keeps the invariant.
LEMMA NextInv ==
  ASSUME Inv, [Next]_vars
  PROVE  Inv'
<1>1. TypeOK
  BY ONLY Inv DEF Inv
<1>2. PICK at, t : Reached(at, t)
  BY ONLY Inv DEF Inv
<1>3. CASE Step
  BY ONLY <1>1, <1>2, <1>3, StepKeeps
<1>4. CASE CallFails \/ Kill \/ Reboot \/ Outage \/ ProbesAge
  BY ONLY <1>1, <1>2, <1>4, CallFailsStep, KillStep, RebootStep, OutageStep, ProbesAgeStep
<1>5. ASSUME NEW p \in Profile, ImportAWGProfile(p) \/ CheckAWGProfile(p) \/ ConnectAWGProfile(p) \/ RemoveAWGProfile(p)
      PROVE  Inv'
  BY ONLY <1>1, <1>2, <1>5, UserStep DEF ImportAWGProfile, CheckAWGProfile, ConnectAWGProfile, RemoveAWGProfile
<1>6. ASSUME NEW p \in Profile, commitAutoSelection(p) PROVE Inv'
  BY ONLY <1>1, <1>2, <1>6, CommitAutoSelectionStep
<1>7. CASE DisconnectAWG \/ SettingsChange \/ Disconnect \/ \E m \in {"manual", "auto"} : ConnectNode(m)
  BY ONLY <1>1, <1>2, <1>7, DisconnectAWGStep, SettingsChangeStep, OtherRoute
<1>8. CASE RestoreRuntime \/ FailOpen \/ RecoveryNeeded \/ HealCheck \/ HealConnect
  BY ONLY <1>1, <1>2, <1>8, RestoreRuntimeStep, FailOpenStep, RecoveryNeededStep, HealCheckStep, HealConnectStep
<1>9. CASE UNCHANGED vars
  BY ONLY Inv, <1>9, Stutters
<1> QED BY ONLY [Next]_vars, <1>3, <1>4, <1>5, <1>6, <1>7, <1>8, <1>9 DEF Next

\* The invariant always holds.
LEMMA Always == Spec => []Inv
<1>1. Init => Inv
  BY ONLY InitInv
<1>2. Inv /\ [Next]_vars => Inv'
  BY ONLY NextInv
<1> QED BY <1>1, <1>2, PTL DEF Spec

-------------------------------------------------------------------------------
(* What is promised. *)

\* The types of the profile store, the interfaces, the recorded route, the operation in
\* progress and the history.
THEOREM TypeCorrect == Spec => []TypeOK
<1>1. Inv => TypeOK
  BY ONLY DEF Inv
<1> QED BY <1>1, Always, PTL

\* Between operations, traffic of a connection that the state names leaves through the
\* tunnel of that profile, whatever failed or was cut off before, except after the
\* histories that TunnelAsNamed lists.
THEOREM NamedTunnel == Spec => []TunnelAsNamed
<1>1. Inv => TunnelAsNamed
  <2> SUFFICES ASSUME Inv, Idle, Connected, st.active # None, xr.sel = st.tag, Carried(xr.sel)
               PROVE  net.cfg = st.active \/ odd \cap {"cut", "unrestored"} # {}
    BY DEF TunnelAsNamed
  <2>1. PICK at, t : Reached(at, t)
    BY ONLY Inv DEF Inv
  <2>2. Holds("end", t)
    BY ONLY <2>1, Idle, IdleAt DEF Reached
  <2>3. st.tag \in Addresses
    BY ONLY <2>2, Connected DEF Holds, Frame, Sane, Connected
  <2>4. net.cfg # None
    BY ONLY <2>3, xr.sel = st.tag, Carried(xr.sel) DEF Carried
  <2> QED BY ONLY <2>2, <2>4, Connected, st.active # None DEF Holds, Named, Lost
<1> QED BY <1>1, Always, PTL

\* Between operations, traffic is not sent through a tunnel that the state does not
\* name, except after the histories that TunnelRecorded lists.
THEOREM RecordedTunnel == Spec => []TunnelRecorded
<1>1. Inv => TunnelRecorded
  <2> SUFFICES ASSUME Inv, Idle
               PROVE  Recorded(st, xr) \/ (~st.conn /\ st.tag = xr.sel) \/ odd \cap {"cut", "unrestored", "overtaken"} # {}
    BY DEF TunnelRecorded
  <2>1. PICK at, t : Reached(at, t)
    BY ONLY Inv DEF Inv
  <2>2. Route("end", t)
    BY ONLY <2>1, Idle, IdleAt DEF Reached, Holds
  <2> QED BY ONLY <2>2 DEF Route, Excused, Known
<1> QED BY <1>1, Always, PTL

\* At every instant, crashes and failed calls included, a profile in the user's hands
\* is listed and readable, or still in the old file, unless a removal was cut off
\* between the file and the index.
THEOREM KeptProfiles == Spec => []ProfilesKept
<1>1. Inv => ProfilesKept
  BY ONLY DEF Inv, Reached, Holds, Listed, ProfilesKept
<1> QED BY <1>1, Always, PTL

\* A connect that began connected ends connected, whatever failed in it, unless the
\* process was killed or the return to the previous profile failed as well.
THEOREM KeptConnection == Spec => []ConnectKeepsConnection
<1>1. Inv => ConnectKeepsConnection
  <2> SUFFICES ASSUME Inv, Idle, job.by = "connect", job.was
               PROVE  st.conn \/ "unrestored" \in odd
    BY DEF ConnectKeepsConnection
  <2>1. PICK at, t : Reached(at, t)
    BY ONLY Inv DEF Inv
  <2>2. Kept("end", t)
    BY ONLY <2>1, Idle, IdleAt DEF Reached, Holds
  <2> QED BY ONLY <2>2, job.by = "connect", job.was DEF Kept
<1> QED BY <1>1, Always, PTL

\* An operation that checks, or a connect that checks before it replaces, is at none of
\* the points that take the permanent interface down or move the override.
Checking == job.by \in {"check", "heal"} \/ (job.by = "connect" /\ job.orig = None /\ job.id # None /\ OtherActive(job.id))
Touching == {"down", "unconfigure", "configure", "ret_down", "ret_unconfigure", "ret_configure", "rm_down",
      "rm_unconfigure",
             "end_down", "only_down", "reload", "start", "stop", "fail_stop", "open_select", "end_select", "rm_select",
             "direct_select", "select", "ret_select", "undo"}
\* A check is at none of the points that touch the permanent interface.
LEMMA CheckPoints ==
  ASSUME NEW at, NEW t, Reached(at, t), at # "end", Checking
  PROVE  at \notin Touching
<1>1. Frame(at, t) /\ Choice(at, t) /\ Point(at, t)
  BY ONLY Reached(at, t) DEF Reached, Holds
<1>2. By(t) \in {"check", "heal"} => t \in {"check", "heal"}
  BY ONLY DEF By
<1>3. By(t) = "connect" => t \in {"connect", "attempt"}
  BY ONLY DEF By
<1>4. t \in {"check", "heal"} \/ (t = "connect" /\ OtherActive(job.id))
  BY ONLY <1>1, <1>2, <1>3, at # "end", Checking DEF Frame, Checking
<1>5. CASE t \in {"check", "heal"}
  <2>1. at \in Moving \cup Loading \cup Isolated \cup Verifying \cup Healing
    BY ONLY <1>1, <1>5, at # "end" DEF Point, Connects
  <2> QED BY ONLY <2>1 DEF Moving, Loading, Isolated, Verifying, Healing, Touching
<1>6. CASE t = "connect" /\ OtherActive(job.id)
  <2>1. at \notin Acting
    BY ONLY <1>1, <1>6 DEF Choice
  <2>2. at \in Moving \cup Loading \cup Isolated \cup Keeping \cup Recording
    BY ONLY <1>1, <1>6, <2>1, at # "end" DEF Point, Acting, Raising
  <2> QED BY ONLY <2>2 DEF Moving, Loading, Isolated, Keeping, Recording, Touching
<1> QED BY ONLY <1>4, <1>5, <1>6

\* What a check may do to the permanent interface and to the override.
Isolation == /\ net'.cfg = net.cfg /\ (net.up => net'.up)
             /\ xr.run /\ xr.sel # "none" => xr'.sel = xr.sel

\* A step elsewhere leaves the permanent interface and the override alone.
LEMMA CheckStep ==
  ASSUME NEW at, NEW t, TypeOK, Reached(at, t), at \notin Touching, Step
  PROVE  Isolation
<1>1. todo.call = Call(at, t)
  BY ONLY Reached(at, t), ProgCall DEF Reached
<1>2. ASSUME net' = net, xr' = xr PROVE Isolation
  BY ONLY <1>2 DEF Isolation
<1>3. CASE Load \/ Require \/ KeepOriginal \/ Files \/ Isolate \/ Probe \/ Egress \/ SaveState \/ SaveSettings \/ Healed
  <2>1. net' = net /\ xr' = xr
    BY ONLY <1>3 DEF Load, Require, KeepOriginal, Files, Isolate, Probe, Egress, SaveState, SaveSettings, Healed, runtime
  <2> QED BY ONLY <1>2, <2>1
<1>4. CASE Interface
  <2>1. At("ifup", "awg")
    <3>1. /\ At("down", "awg") => at \in {"ret_down", "down", "end_down", "only_down", "rm_down"}
          /\ At("unconfigure", "awg") => at \in {"ret_unconfigure", "unconfigure", "rm_unconfigure"}
          /\ At("configure", "id") => at = "configure"
          /\ At("configure", "orig") => at = "ret_configure"
      BY ONLY <1>1, CallAt DEF At
    <3>2. At("down", "awg") \/ At("unconfigure", "awg") \/ At("configure", "id") \/ At("configure", "orig") \/ At("ifup",
                "awg")
      BY ONLY <1>4 DEF Interface
    <3> QED BY ONLY <3>1, <3>2, at \notin Touching DEF Touching
  <2>2. ~At("down", "awg") /\ ~At("unconfigure", "awg") /\ \A arg \in {"id", "orig"} : ~At("configure", arg)
    BY ONLY <2>1 DEF At
  <2>3. net' = [net EXCEPT !.up = TRUE, !.rule = TRUE] /\ xr' = xr
    BY ONLY <1>4, <2>2 DEF Interface
  <2> QED BY ONLY TypeOK, <2>3 DEF TypeOK, Isolation
<1>5. CASE ensureAWGManagedRuntime
  <2>1. net' = net /\ xr' = IF xr.run THEN [xr EXCEPT !.sel = Pinned] ELSE [run |-> TRUE, sel |-> "none"]
    BY ONLY <1>5 DEF ensureAWGManagedRuntime
  <2> QED BY ONLY TypeOK, <2>1 DEF TypeOK, Isolation, Pinned
<1>6. ~Restart
  <2>1. (At("reload", "xray") => at = "reload") /\ (At("start", "node") => at = "start")
          /\ (At("stop", "xray") => at \in {"fail_stop", "stop"})
    BY ONLY <1>1, CallAt DEF At
  <2> QED BY ONLY <2>1, at \notin Touching DEF Touching, Restart
<1>7. ~Select
  <2>1. /\ At("select", "direct") => at \in {"open_select", "end_select", "rm_select", "direct_select"}
        /\ At("select", "tag") => at \in {"ret_select", "select"}
        /\ At("select", "prev") => at = "undo"
    BY ONLY <1>1, CallAt DEF At
  <2> QED BY ONLY <2>1, at \notin Touching DEF Touching, Select
<1> QED BY ONLY Step, <1>3, <1>4, <1>5, <1>6, <1>7 DEF Step

\* A check works on an interface of its own: without a fault it neither reconfigures nor
\* takes down the permanent one, nor moves the traffic of a running Xray, and so does
\* the check that precedes the replacement of a connected profile.
THEOREM IsolatedChecks == Spec => CheckIsIsolated
<1>1. ASSUME Inv, Next, ~Idle, faults' = faults, Checking
      PROVE  Isolation
  <2>1. PICK at, t : Reached(at, t)
    BY ONLY Inv DEF Inv
  <2>2. at # "end" /\ TypeOK
    BY ONLY Inv, ~Idle, <1>1, <2>1, IdleAt DEF Inv
  <2>3. at \notin Touching
    BY ONLY <1>1, <2>1, <2>2, CheckPoints
  <2>4. faults' # faults + 1
    BY ONLY <1>1, <2>2, AmneziaWGBounds DEF TypeOK
  <2>5. ~(CallFails \/ Kill \/ Reboot \/ Outage)
    BY ONLY <2>4 DEF CallFails, Kill, Reboot, Outage, Fault
  <2>6. CASE Step
    BY ONLY <2>1, <2>2, <2>3, <2>6, CheckStep
  <2>7. CASE RecoveryNeeded
    BY ONLY <2>7 DEF RecoveryNeeded, runtime, Isolation
  <2>8. /\ ~ProbesAge /\ ~DisconnectAWG /\ ~SettingsChange /\ ~Disconnect /\ ~FailOpen /\ ~HealCheck /\ ~HealConnect
        /\ \A m \in {"manual", "auto"} : ~ConnectNode(m)
        /\ \A p \in Profile : /\ ~ImportAWGProfile(p) /\ ~CheckAWGProfile(p) /\ ~ConnectAWGProfile(p)
                              /\ ~RemoveAWGProfile(p) /\ ~commitAutoSelection(p)
    BY ONLY <1>1 DEF ProbesAge, DisconnectAWG, SettingsChange, Disconnect, FailOpen, HealCheck, HealConnect, ConnectNode,
            ImportAWGProfile, CheckAWGProfile, ConnectAWGProfile, RemoveAWGProfile, commitAutoSelection, User, Begin
  <2>9. ~RestoreRuntime
    BY ONLY <1>1 DEF RestoreRuntime, Begin
  <2> QED BY ONLY <1>1, <2>5, <2>6, <2>7, <2>8, <2>9 DEF Next
<1> DEFINE A == ~Idle /\ faults' = faults /\ Checking => Isolation
<1>2. Inv /\ [Next]_vars => [A]_vars
  BY <1>1
<1>3. [A]_vars => [/\ ~Idle /\ faults' = faults
                   /\ job.by \in {"check", "heal"} \/ (job.by = "connect" /\ job.orig = None /\ job.id # None
                         /\ OtherActive(job.id))
                   => /\ net'.cfg = net.cfg /\ (net.up => net'.up)
                      /\ xr.run /\ xr.sel # "none" => xr'.sel = xr.sel]_vars
  BY DEF Checking, Isolation
<1> QED BY <1>2, <1>3, Always, PTL DEF Spec, CheckIsIsolated
=============================================================================
