-------------------------------- MODULE Store --------------------------------
(***************************************************************************)
(* The file store (store/*.go, app/store_lock.go): threads of several      *)
(* processes update documents under a lock of two levels, a mutex inside   *)
(* the process and a record lock of the file between processes.  A record  *)
(* lock belongs to the process: it does not exclude two threads of one     *)
(* process, and closing the lock file in one of them releases it for all.  *)
(* Documents are replaced through a temporary file and a rename.  At its   *)
(* start a process moves files it cannot decode out of the way.            *)
(*                                                                         *)
(* Processes may be killed and power may be lost at any time, and every    *)
(* write may fail.  Readers outside the lock take one look at one file,    *)
(* which is what Value is for every thread.                                *)
(***************************************************************************)
EXTENDS Documents, FiniteSets

CONSTANTS
    Process,         \* processes that use the state directory
    Thread,          \* their threads
    ProcessOf,       \* the process of a thread
    Link,            \* threads whose store was opened through a symbolic link
    None,            \* no thread, no process
    Damaged,         \* a file that is not a document
    Foreign,         \* the value of a document of a newer version
    OldSettings,     \* files of settings found at the start
    OldStates,       \* files of the state found at the start
    MaxDamages       \* bound on damages by the medium

ASSUME ThreadsHaveProcesses == ProcessOf \in [Thread -> Process]
ASSUME LinkThreads == Link \subseteq Thread
ASSUME NoneIsNobody == None \notin Thread \cup Process
ASSUME DamageBound == MaxDamages \in Nat
ASSUME OldFilesDecode == OldSettings \subseteq RawSettings /\ OldStates \subseteq RawStates
ASSUME MarksAreNoDocuments ==
    /\ Absent # Damaged /\ Absent # Foreign /\ Damaged # Foreign
    /\ \A mark \in {Absent, Damaged, Foreign} :
         /\ mark \notin RawSettings /\ mark \notin RawStates
         /\ mark \notin Settings /\ mark \notin States

VARIABLES
    file,      \* the document on disk: a raw document, Absent or Damaged
    mutex,     \* inProcessWriteLocks: the thread that holds the mutex of a process and key
    flock,     \* the process that holds the record lock
    th,        \* what every thread does
    ready,     \* processes that have been through initService
    damages    \* how often the medium damaged a file

vars == <<file, mutex, flock, th, ready, damages>>

Doc == {"settings", "state"}

-----------------------------------------------------------------------------
(* Documents on disk and their values *)

IsNewer(d, f) == IF d = "settings" THEN Newer(f.schema, SettingsSchema)
                                   ELSE Newer(f.schema, StateSchema)

\* errors.Is(err, ErrUnsupported...Schema) is false for these.
Corrupt(d, f) == \/ f = Damaged
                 \/ f \notin {Absent, Damaged} /\ d = "settings" /\ ~IsNewer(d, f) /\ SettingsRejected(f)

Decode(d, f) == IF d = "settings" THEN DecodeSettings(f) ELSE DecodeState(f)
Encode(d, v) == IF d = "settings" THEN EncodeSettings(v) ELSE EncodeState(v)
Default(d) == IF d = "settings" THEN DefaultSettings ELSE DefaultState

\* readSettings, readState: a missing file is the default, no error.
Loadable(d) == ~Corrupt(d, file[d]) /\ (file[d] # Absent => ~IsNewer(d, file[d]))
Load(d) == IF file[d] = Absent THEN Default(d) ELSE Decode(d, file[d])

-----------------------------------------------------------------------------
(* Updates: the assignments of the service's setters, connect and disconnect *)

\* One edit for each kind of field that a load may change: the list with a default and
\* the selectors that are filtered.
SettingsEdits == {"clear-dns", "zapret"}
StateEdits == {"connect", "disconnect", "candidate"}
Edits(d) == IF d = "settings" THEN SettingsEdits ELSE StateEdits

AppliedSettings(e, s) ==
    CASE e = "clear-dns" -> [s EXCEPT !.dns = "empty"]
      [] e = "zapret" -> [s EXCEPT !.zapret.sel = Selector]

\* saveState derives the operational mode again.
AppliedState(e, s) ==
    CASE e = "connect" -> [s EXCEPT !.connected = TRUE, !.transport = "proxy", !.op = "vpn"]
      [] e = "disconnect" ->
            [s EXCEPT !.resume = IF s.connected THEN "node" ELSE @,
                      !.connected = FALSE, !.transport = "direct", !.op = "direct"]
      [] e = "candidate" ->
            [s EXCEPT !.wins = s.wins + 1,
                      !.op = LegacyOperationalMode(s.connected, s.transport)]

Edited(d, e, v) == IF d = "settings" THEN AppliedSettings(e, v) ELSE AppliedState(e, v)

-----------------------------------------------------------------------------
Steps == {"idle", "mutex", "flock", "load", "write", "unlock", "recover", "rewrite"}
Idle == [pc |-> "idle", doc |-> None, copy |-> None]

\* Mutant: the path as it was given.
RawWriteLockKey(t) == IF t \in Link THEN "link" ELSE "store"

\* The key of the mutex: the directory with links resolved, and the file name.
CanonicalWriteLockKey(t) == "store"
MutexKey == {"store", "link"}

Init == /\ file \in [settings : OldSettings \cup {Absent}, state : OldStates \cup {Absent}]
        /\ mutex = [p \in Process |-> [k \in MutexKey |-> None]]
        /\ flock = None
        /\ th = [t \in Thread |-> Idle]
        /\ ready = {}
        /\ damages = 0

Goto(t, pc) == th' = [th EXCEPT ![t].pc = pc]
Leave(t) == th' = [th EXCEPT ![t] = [Idle EXCEPT !.pc = "unlock"]]

\* initService runs RecoverCorruptFiles before anything else; afterwards every
\* update enters WithWriteLock.
BeginRecovery(t) == /\ th[t].pc = "idle"
                    /\ ProcessOf[t] \notin ready
                    /\ \A u \in Thread : ProcessOf[u] = ProcessOf[t] => th[u].pc = "idle"
                    /\ Goto(t, "mutex")
                    /\ UNCHANGED <<file, mutex, flock, ready, damages>>

BeginUpdate(t) == /\ th[t].pc = "idle"
                  /\ ProcessOf[t] \in ready
                  /\ Goto(t, "mutex")
                  /\ UNCHANGED <<file, mutex, flock, ready, damages>>

TakesMutex(t) == mutex[ProcessOf[t]][CanonicalWriteLockKey(t)] = None

LockMutex(t) == /\ th[t].pc = "mutex"
                /\ TakesMutex(t)
                /\ mutex' = [mutex EXCEPT ![ProcessOf[t]][CanonicalWriteLockKey(t)] = t]
                /\ Goto(t, "flock")
                /\ UNCHANGED <<file, flock, ready, damages>>

\* A record lock of POSIX belongs to the process.
FcntlLock(t) == ProcessOf[t]

LockFile(t) == /\ th[t].pc = "flock"
               /\ flock \in {None, FcntlLock(t)}
               /\ flock' = FcntlLock(t)
               /\ Goto(t, IF ProcessOf[t] \notin ready THEN "recover" ELSE "load")
               /\ UNCHANGED <<file, mutex, ready, damages>>

\* The deferred calls: the record lock, the lock file (closing it gives up the lock of
\* the whole process), the mutex.
Release(t) == /\ flock' = IF flock = ProcessOf[t] THEN None ELSE flock
              /\ mutex' = [mutex EXCEPT ![ProcessOf[t]][CanonicalWriteLockKey(t)] =
                               IF @ = t THEN None ELSE @]
              /\ th' = [th EXCEPT ![t] = Idle]

\* An update loads its document and edits the copy; which update it is matters from
\* here on.
LoadDocument(t) ==
    /\ th[t].pc = "load"
    /\ \E d \in Doc :
        \/ /\ Loadable(d)
           /\ \E e \in Edits(d) :
                th' = [th EXCEPT ![t] = [pc |-> "write", doc |-> d, copy |-> Edited(d, e, Load(d))]]
           /\ UNCHANGED <<mutex, flock>>
        \/ /\ ~Loadable(d)
           /\ Release(t)
    /\ UNCHANGED <<file, ready, damages>>

\* atomicWriteFile up to the rename works on another file; the rename is the write.
AtomicWriteJSON(d, v) == file' = [file EXCEPT ![d] = Encode(d, v)]

SaveDocument(t) == /\ th[t].pc = "write"
                   /\ AtomicWriteJSON(th[t].doc, th[t].copy)
                   /\ Leave(t)
                   /\ UNCHANGED <<mutex, flock, ready, damages>>

SaveFails(t) == /\ th[t].pc = "write"
                /\ Leave(t)
                /\ UNCHANGED <<file, mutex, flock, ready, damages>>

Unlock(t) == /\ th[t].pc = "unlock"
             /\ Release(t)
             /\ UNCHANGED <<file, ready, damages>>

-----------------------------------------------------------------------------
(* Recovery of damaged files, one document after the other *)

\* A file of a newer version is an error of its own, and is left alone.
NeedsRecovery(d) == Corrupt(d, file[d])
FirstDamaged == IF NeedsRecovery("settings") THEN "settings" ELSE "state"

\* renameCorruptFile, then the default is written; either may fail, which ends
\* the start of the process.
SetAside(t) == LET d == FirstDamaged IN
    /\ th[t].pc = "recover"
    /\ \E x \in Doc : NeedsRecovery(x)
    /\ \/ /\ file' = [file EXCEPT ![d] = Absent]
          /\ th' = [th EXCEPT ![t].pc = "rewrite", ![t].doc = d]
       \/ /\ Leave(t)
          /\ UNCHANGED file
    /\ UNCHANGED <<mutex, flock, ready, damages>>

RewriteDefault(t) == LET d == th[t].doc IN
    /\ th[t].pc = "rewrite"
    /\ \/ /\ AtomicWriteJSON(d, Default(d))
          /\ th' = [th EXCEPT ![t] = [Idle EXCEPT !.pc = "recover"]]
       \/ /\ Leave(t)
          /\ UNCHANGED file
    /\ UNCHANGED <<mutex, flock, ready, damages>>

Recovered(t) == /\ th[t].pc = "recover"
                /\ \A x \in Doc : ~NeedsRecovery(x)
                /\ ready' = ready \cup {ProcessOf[t]}
                /\ Leave(t)
                /\ UNCHANGED <<file, mutex, flock, damages>>

-----------------------------------------------------------------------------
(* The environment *)

\* A process is killed: its memory and its locks are gone, its files stay.
Kill(p) == LET own == {t \in Thread : ProcessOf[t] = p} IN
    /\ p \in ready \/ \E t \in own : th[t].pc # "idle"
    /\ th' = [t \in Thread |-> IF t \in own THEN Idle ELSE th[t]]
    /\ mutex' = [mutex EXCEPT ![p] = [k \in MutexKey |-> None]]
    /\ flock' = IF flock = p THEN None ELSE flock
    /\ ready' = ready \ {p}
    /\ UNCHANGED <<file, damages>>

\* Power is lost, and the medium is left with a document it cannot give back.
PowerLoss(d) == /\ damages < MaxDamages
                /\ file[d] \notin {Absent, Damaged}
                /\ ~IsNewer(d, file[d])
                /\ file' = [file EXCEPT ![d] = Damaged]
                /\ damages' = damages + 1
                /\ th' = [t \in Thread |-> Idle]
                /\ mutex' = [p \in Process |-> [k \in MutexKey |-> None]]
                /\ flock' = None
                /\ ready' = {}

Step(t) == \/ LockFile(t) \/ LoadDocument(t)
           \/ SaveDocument(t) \/ SaveFails(t) \/ Unlock(t)
           \/ SetAside(t) \/ RewriteDefault(t) \/ Recovered(t)

Next == \/ \E t \in Thread : BeginRecovery(t) \/ BeginUpdate(t) \/ LockMutex(t) \/ Step(t)
        \/ \E p \in Process : Kill(p)
        \/ \E d \in Doc : PowerLoss(d)

Spec == Init /\ [][Next]_vars

-----------------------------------------------------------------------------
(* Properties *)

\* Types of the files, the two locks and what the threads hold.
TypeOK == /\ file \in [settings : RawSettings \cup {Absent, Damaged},
                       state : RawStates \cup {Absent, Damaged}]
          /\ mutex \in [Process -> [MutexKey -> Thread \cup {None}]]
          /\ flock \in Process \cup {None}
          /\ th \in [Thread -> [pc : Steps, doc : Doc \cup {None},
                                copy : Settings \cup States \cup {None}]]
          /\ ready \subseteq Process
          /\ damages \in 0..MaxDamages

\* The firewall section of an installation before schema 7 routes the same
\* destinations after it was decoded (decodeSettings): from the named hosts, to the
\* named targets, or to all but them.
RoutedOf(fw) == [hosts |-> IF fw.mode = "hosts" THEN fw.hosts ELSE {},
                 dest |-> {x \in Selector :
                             CASE fw.mode = "targets" -> x \in fw.targets
                               [] fw.mode = "split" ->
                                     x \notin fw.bypass /\ (fw.default = "proxy" \/ x \in fw.proxy)
                               [] OTHER -> FALSE}]
LegacyRoutes(f) ==
    LET hosts == Or(f.oldHosts, {})
        targets == Or(f.oldTargets, {})
    IN [hosts |-> hosts,
        dest |-> {x \in Selector : /\ hosts = {} /\ targets # {}
                                   /\ (x \in targets) # (f.oldMode = "bypass")}]
UpgradeKeepsRouting ==
    LET f == file["settings"] IN
    (f \notin {Absent, Damaged} /\ Loadable("settings")) =>
        (f.fw # Absent /\ f.fw.mode = Absent /\ Or(f.fw.hosts, {}) = {} =>
            RoutedOf(Load("settings").fw) = LegacyRoutes(f.fw))

\* The store implements one value per document: an update changes the part it is
\* about on the basis of the current value, whichever threads and processes update at
\* once and by whichever path they opened the store; a killed process or a failed write
\* changes nothing, only damaged files are reset, newer ones never touched.  What the
\* decoder drops is part of the promise: networks of Zapret, an emptied DNS list at
\* the next update, the resume point and the optimisation candidate.
Value == [d \in Doc |-> IF Corrupt(d, file[d]) THEN Damaged
                        ELSE IF file[d] # Absent /\ IsNewer(d, file[d]) THEN Foreign
                        ELSE Load(d)]
Promised(d, e, v) ==
    CASE d = "state" -> [AppliedState(e, v) EXCEPT !.resume = NoResume, !.wins = 0]
      [] e = "clear-dns" -> [v EXCEPT !.dns = "nil"]
      [] e = "zapret" -> [Forgets(v) EXCEPT !.zapret.sel = Selector \ Cidr]
      [] OTHER -> AppliedSettings(e, Forgets(v))
Abstract == INSTANCE DocumentStore
    WITH value <- Value, Applied <- Promised, Initial <- Default
Implements == Abstract!Spec

\* Not so in the code (README, departures): domain.ResumeConnection "remembers the selection before an explicit disconnect":
\* what disconnect wrote is what the next load returns.
ResumeRemembered ==
    LET f == file["state"] IN
    f \notin {Absent, Damaged} /\ Loadable("state") =>
        Load("state").resume = Or(f.resume, NoResume)
==============================================================================
