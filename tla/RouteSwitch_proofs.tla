-------------------------- MODULE RouteSwitch_proofs --------------------------
EXTENDS RouteSwitch, TLAPS

(***************************************************************************)
(* Type correctness.  TypeOK is not inductive: an operation must have a    *)
(* node to go to and, on the live path, one to come back to, and it must   *)
(* not have probed its candidate too often.                                *)
(***************************************************************************)
ApplyPCs == {"pin", "prepare", "same", "probe", "confirm", "intent", "select", "egress",
             "persist", "switched", "undo", "preserve", "static", "verify", "repin",
             "rollback", "dns", "firewall", "final"}
LivePCs == {"prepare", "same", "probe", "confirm", "intent", "select", "egress",
            "persist", "switched", "undo", "preserve"}

JobShape == /\ job.pc \in ApplyPCs => job.cand \in Node
            /\ job.pc \in LivePCs => job.old.node \in Node
            /\ job.dr => job.old.node \in Node
            /\ job.pc \in {"pin", "prepare", "probe"} => job.probes = 0
            /\ job.pc = "confirm" => job.probes = 1

FileOK == st \in RuntimeStates /\ fresh \in BOOLEAN
XrayOK == xr \in XrayProcess /\ cfg \in Conf /\ lkg \in Conf
RouterOK == fw \in BOOLEAN /\ dns \in BOOLEAN /\ net \in [Node -> NodeStatus] /\ paused \in SUBSET Node
JobOK == job \in Job /\ watch \in Watch /\ booted \in BOOLEAN /\ JobShape

TypeInv == FileOK /\ XrayOK /\ RouterOK /\ JobOK

\* SaveRuntimeState's normalisation of the legacy mode stays within the states.
LEMMA SavedType == ASSUME NEW s \in RuntimeStates PROVE Saved(s) \in RuntimeStates
BY DEF Saved, LegacyOperationalMode, RuntimeStates, OperationalMode

\* A router without a state file has a state.
LEMMA DefaultType == DefaultRuntimeState \in RuntimeStates
BY DEF DefaultRuntimeState, RuntimeStates, OperationalMode, Mode, Transport, NoOperation, Operation

\* The record of no operation is an operation record.
LEMMA NoJobType == NoJob \in Job
BY DefaultType DEF NoJob, Job, PCs, Conf, Mode

\* The watch that has seen no failure is a watch record.
LEMMA NoWatchType == NoWatch \in Watch
BY DEF NoWatch, Watch, Mode

\* A stopped Xray is an Xray.
LEMMA StoppedType == Stopped \in XrayProcess
BY DEF Stopped, XrayProcess, Conf

\* Nothing is asked of the state while no operation runs.
LEMMA NoJobShape == job' = NoJob => JobShape'
BY DEF NoJob, JobShape, ApplyPCs, LivePCs

\* The router as it is switched on has the types of every variable.
LEMMA InitType == Init => TypeInv
<1> SUFFICES ASSUME Init PROVE TypeInv  OBVIOUS
<1>1. FileOK BY DefaultType DEF Init, FileOK
<1>2. XrayOK BY StoppedType DEF Init, XrayOK, Conf
<1>3. RouterOK BY DEF Init, RouterOK
<1>4. JobShape BY DEF Init, JobShape, NoJob, ApplyPCs, LivePCs
<1>5. JobOK BY <1>4, NoJobType, NoWatchType DEF Init, JobOK
<1> QED BY <1>1, <1>2, <1>3, <1>5 DEF TypeInv

\* A save, whether it fails or not, leaves a state in the file.
LEMMA SaveType ==
    ASSUME FileOK, NEW s \in RuntimeStates, NEW ok \in BOOLEAN, Save(s, ok)
    PROVE  FileOK'
BY SavedType DEF FileOK, Save

\* An operation that goes on keeps its type if its next step's demands are met.
LEMMA GotoType ==
    ASSUME JobOK, NEW pc \in PCs, Goto(pc),
           pc \in ApplyPCs => job.cand \in Node,
           pc \in LivePCs => job.old.node \in Node,
           pc \in {"pin", "prepare", "probe"} => job.probes = 0,
           pc = "confirm" => job.probes = 1
    PROVE  JobOK'
<1>1. job' = [job EXCEPT !.pc = pc] /\ watch' = watch /\ booted' = booted BY DEF Goto
<1>2. job' \in Job BY <1>1 DEF JobOK, Job
<1>3. job'.pc = pc /\ job'.cand = job.cand /\ job'.old = job.old /\ job'.dr = job.dr
      /\ job'.probes = job.probes
  BY <1>1 DEF JobOK, Job
<1>4. JobShape' BY <1>3 DEF JobOK, JobShape
<1> QED BY <1>1, <1>2, <1>4 DEF JobOK

\* A failed round of the watch leaves a watch record.
LEMMA AfterFailureType == JobOK => AfterFailure \in Watch
BY NoWatchType DEF JobOK, AfterFailure, Watch

\* An operation that returns leaves no operation and a watch record.
LEMMA EndJobType == ASSUME JobOK, NEW success \in BOOLEAN, EndJob(success) PROVE JobOK'
<1>1. job' = NoJob  BY DEF EndJob
<1>2. booted' \in BOOLEAN BY DEF EndJob
<1>3. watch' \in Watch BY NoWatchType, AfterFailureType DEF EndJob, JobOK
<1> QED BY <1>1, <1>2, <1>3, NoJobType, NoJobShape DEF JobOK

\* The steps of stopProxyTransport need nothing of the operation.
LEMMA GotoStop == ASSUME JobOK, NEW pc \in {"stopfw", "stopdns", "stopxray", "stopped"}, Goto(pc)
                  PROVE  JobOK'
<1>1. pc \in PCs /\ pc \notin ApplyPCs \cup LivePCs BY DEF PCs, ApplyPCs, LivePCs
<1> QED BY <1>1, GotoType

\* An operation that fails keeps the types.
LEMMA FailJobType == ASSUME JobOK, FailJob PROVE JobOK'
BY GotoStop, EndJobType DEF FailJob

\* An operation whose final save failed keeps the types.
LEMMA SelectionFailedType == ASSUME JobOK, SelectionFailed PROVE JobOK'
BY GotoStop, FailJobType DEF SelectionFailed

\* A step of the static path, or of the end of a switch.
LEMMA GotoStatic ==
    ASSUME JobOK, NEW pc \in {"static", "verify", "repin", "rollback", "dns", "firewall", "final"},
           Goto(pc), job.pc \in ApplyPCs
    PROVE  JobOK'
<1>1. pc \in PCs /\ pc \notin LivePCs BY DEF PCs, LivePCs
<1>2. job.cand \in Node BY DEF JobOK, JobShape
<1> QED BY <1>1, <1>2, GotoType

\* A step of the live path that does not lead to a probe.
LEMMA GotoLive ==
    ASSUME JobOK, NEW pc \in LivePCs \ {"prepare", "probe", "confirm"}, Goto(pc),
           job.pc \in LivePCs
    PROVE  JobOK'
<1>1. pc \in PCs /\ job.pc \in ApplyPCs BY DEF PCs, LivePCs, ApplyPCs
<1>2. job.cand \in Node /\ job.old.node \in Node BY <1>1 DEF JobOK, JobShape
<1> QED BY <1>1, <1>2, GotoType DEF LivePCs

\* The start of a static connect is an operation with a candidate and a rollback state.
LEMMA ApplyJobType ==
    ASSUME FileOK, NEW by \in {"user", "watch", "restore"}, NEW n \in Node, NEW m \in Mode,
           NEW skip \in BOOLEAN, job' = ApplyJob(by, n, m, skip)
    PROVE  job' \in Job /\ JobShape'
<1> DEFINE on == by # "restore" /\ st.connected /\ st.node # None
           old == [st EXCEPT !.transport = EffectiveActiveTransport(st)]
<1>1. old \in RuntimeStates /\ old.node = st.node
  BY DEF FileOK, RuntimeStates, EffectiveActiveTransport, Transport
<1>2. DirectRecovery(st) \in BOOLEAN BY DEF DirectRecovery
<1>3. on \in BOOLEAN OBVIOUS
<1>4. by \in {"none", "user", "watch", "failopen", "restore"} /\ "pin" \in PCs BY DEF PCs
<1>5. job' = [NoJob EXCEPT !.pc = "pin", !.by = by, !.cand = n, !.mode = m, !.skip = skip,
                           !.old = old, !.dr = DirectRecovery(st), !.on = on]
  BY DEF ApplyJob
<1> HIDE DEF on, old
<1>6. job' \in Job BY <1>1, <1>2, <1>3, <1>4, <1>5, NoJobType DEF Job
<1>7. job'.pc = "pin" /\ job'.cand = n /\ job'.old = old /\ job'.dr = DirectRecovery(st)
      /\ job'.probes = 0
  BY <1>5 DEF NoJob
<1>8. DirectRecovery(st) => st.node \in Node BY DEF DirectRecovery, FileOK, RuntimeStates
<1>9. JobShape' BY <1>1, <1>7, <1>8 DEF JobShape, LivePCs
<1> QED BY <1>6, <1>9

\* SelectOutbound leaves Xray on a configured outbound or where it was.
LEMMA SelectType ==
    ASSUME XrayOK, NEW tag \in Tag, NEW r \in SelectOutbound(tag)
    PROVE  r.ok \in BOOLEAN /\ r.target \in Conf /\ [xr EXCEPT !.target = r.target] \in XrayProcess
BY DEF XrayOK, SelectOutbound, Result, XrayProcess, Conf

\* PersistConfig leaves a configuration and a last-known-good copy.
LEMMA PersistType ==
    ASSUME XrayOK, NEW c \in Conf, NEW r \in PersistConfig(c)
    PROVE  r.ok \in BOOLEAN /\ r.cfg \in Conf /\ r.lkg \in Conf
BY DEF XrayOK, PersistConfig, Result

\* Xray started on a configuration is an Xray.
LEMMA StartedType == ASSUME NEW c \in Conf PROVE Started(c) \in XrayProcess
BY StoppedType DEF Started, XrayProcess, Conf

\* ApplyConfig, with its rollback, leaves an Xray and two configurations.
LEMMA ApplyType ==
    ASSUME XrayOK, NEW c \in Conf, NEW r \in ApplyConfig(c)
    PROVE  r.ok \in BOOLEAN /\ r.cfg \in Conf /\ r.lkg \in Conf /\ r.xr \in XrayProcess
<1>1. RollbackData \in Conf BY DEF RollbackData, XrayOK
<1> QED BY <1>1, StartedType, StoppedType DEF XrayOK, ApplyConfig

\* The outcome of a call is true or false.
LEMMA ResultType == ASSUME NEW p, NEW f, NEW r \in Result(p, f) PROVE r \in BOOLEAN
BY DEF Result

\* The outcome of a save and of a call is true or false.
LEMMA SaveOKType == SaveOK \subseteq BOOLEAN /\ CallOK \subseteq BOOLEAN
BY DEF SaveOK, CallOK, Result

\* The intent that a live switch persists is a state.
LEMMA IntentType == FileOK /\ JobOK /\ job.pc \in LivePCs => SwitchIntent \in RuntimeStates
<1> SUFFICES ASSUME FileOK, JobOK, job.pc \in LivePCs PROVE SwitchIntent \in RuntimeStates OBVIOUS
<1>1. job.cand \in Node /\ FromTag \in Tag /\ job.old \in RuntimeStates
  BY DEF JobOK, JobShape, FromTag, Tag, LivePCs, ApplyPCs, Job
<1> QED BY <1>1 DEF SwitchIntent, RuntimeStates, Operation, OperationalMode, Tag

\* The selection that ends an operation is a state, and holds no intent.
LEMMA SelectionType ==
    ASSUME TypeInv, job.cand \in Node, NEW readback \in BOOLEAN
    PROVE  Selection(readback) \in RuntimeStates /\ ~InTransition(Selection(readback))
<1> USE DEF TypeInv
<1>1. job.old \in RuntimeStates /\ job.mode \in Mode /\ xr.target \in Tag \cup {None} /\ st.managed \in BOOLEAN
  BY DEF JobOK, Job, XrayOK, XrayProcess, Conf, FileOK, RuntimeStates
<1> DEFINE sel == IF readback THEN xr.target ELSE job.old.sel
           managed == IF job.live THEN st.managed ELSE job.old.managed \/ readback
<1>2. sel \in Tag \cup {None} BY <1>1 DEF RuntimeStates
<1>3. managed \in BOOLEAN BY <1>1 DEF RuntimeStates
<1>4. Selection(readback) =
        [job.old EXCEPT !.node = job.cand, !.mode = job.mode, !.connected = TRUE, !.op = "vpn",
                        !.cur = NoOperation, !.transport = "proxy", !.sel = sel, !.managed = managed]
  BY <1>1 DEF Selection, RuntimeStates
<1> HIDE DEF sel, managed
<1>5. "vpn" \in OperationalMode /\ "proxy" \in Transport /\ NoOperation \in Operation
  BY DEF OperationalMode, Transport, NoOperation, Operation
<1>6. Selection(readback) \in RuntimeStates
  BY <1>1, <1>2, <1>3, <1>4, <1>5 DEF RuntimeStates
<1>7. ~InTransition(Selection(readback)) BY <1>1, <1>4 DEF RuntimeStates, InTransition
<1> QED BY <1>6, <1>7

\* Every step of every process keeps the types.
LEMMA StepType == TypeInv /\ [Next]_vars => TypeInv'
<1> SUFFICES ASSUME FileOK, XrayOK, RouterOK, JobOK, [Next]_vars
             PROVE  FileOK' /\ XrayOK' /\ RouterOK' /\ JobOK'
  BY DEF TypeInv
<1>1. CASE ResolveFails
  <2>1. FileOK' BY <1>1 DEF FileOK, file, ResolveFails
  <2>2. XrayOK' BY <1>1 DEF XrayOK, ResolveFails
  <2>3. RouterOK' BY <1>1 DEF RouterOK, ResolveFails
  <2>4. JobOK' BY <1>1, FailJobType DEF ResolveFails
  <2> QED BY <2>1, <2>2, <2>3, <2>4
<1>2. CASE PinCurrent
  <2>0. job.pc \in ApplyPCs /\ job.cand \in Node /\ job.probes = 0 /\ Direct \in Tag
    BY <1>2 DEF PinCurrent, At, JobOK, JobShape, ApplyPCs, Tag
  <2>a. ASSUME NEW pc \in {"prepare", "preserve"}, Goto(pc), job.old.node \in Node PROVE JobOK'
    BY <2>a, <2>0, GotoType DEF PCs
  <2>b. ASSUME Goto("static") PROVE JobOK'  BY <2>b, <2>0, GotoStatic
  <2>c. job.old.node \in Node \cup {None} /\ (job.dr => job.old.node \in Node)
    BY DEF JobOK, JobShape, Job, RuntimeStates
  <2>d. ASSUME Goto("static"), UNCHANGED xr PROVE XrayOK' /\ JobOK'
    BY <2>d, <2>b, <1>2 DEF PinCurrent, XrayOK
  <2>e. ASSUME job.dr,
               \E r \in SelectOutbound(Direct) :
                  /\ xr' = [xr EXCEPT !.target = r.target]
                  /\ Goto(IF r.ok THEN "prepare" ELSE "static")
        PROVE  XrayOK' /\ JobOK'
    <3> PICK r \in SelectOutbound(Direct) : /\ xr' = [xr EXCEPT !.target = r.target]
                                            /\ Goto(IF r.ok THEN "prepare" ELSE "static")
      BY <2>e
    <3>1. xr' \in XrayProcess BY <2>0, SelectType
    <3>2. JobOK' BY <2>a, <2>b, <2>c, <2>e
    <3> QED BY <3>1, <3>2, <1>2 DEF PinCurrent, XrayOK
  <2>f. ASSUME job.old.node # None,
               \E r \in SelectOutbound(job.old.node) :
                  /\ xr' = [xr EXCEPT !.target = r.target]
                  /\ Goto(IF r.ok THEN "prepare" ELSE "preserve")
        PROVE  XrayOK' /\ JobOK'
    <3> PICK r \in SelectOutbound(job.old.node) :
            /\ xr' = [xr EXCEPT !.target = r.target]
            /\ Goto(IF r.ok THEN "prepare" ELSE "preserve")
      BY <2>f
    <3>1. xr' \in XrayProcess BY <2>c, <2>f, SelectType DEF Tag
    <3>2. JobOK' BY <2>a, <2>c, <2>f
    <3> QED BY <3>1, <3>2, <1>2 DEF PinCurrent, XrayOK
  <2>g. XrayOK' /\ JobOK' BY <1>2, <2>d, <2>e, <2>f DEF PinCurrent
  <2>1. FileOK' BY <1>2 DEF FileOK, file, PinCurrent
  <2>2. XrayOK' BY <2>g
  <2>3. RouterOK' BY <1>2 DEF RouterOK, PinCurrent
  <2>4. JobOK' BY <2>g
  <2> QED BY <2>1, <2>2, <2>3, <2>4
<1>3. CASE PrepareCandidate
  <2>0. job.pc \in LivePCs /\ job.cand \in Node /\ job.old.node \in Node /\ FromTag \in Tag
    BY <1>3 DEF PrepareCandidate, At, JobOK, JobShape, LivePCs, ApplyPCs, FromTag, Tag
  <2>a. job.probes = 0 BY <1>3 DEF PrepareCandidate, At, JobOK, JobShape
  <2>1. FileOK' BY <1>3 DEF FileOK, file, PrepareCandidate
  <2>2. XrayOK' BY <1>3 DEF XrayOK, PrepareCandidate
  <2>3. RouterOK' BY <1>3 DEF RouterOK, PrepareCandidate
  <2>4. JobOK' BY <1>3, <2>0, <2>a, GotoLive, GotoType DEF PrepareCandidate, LivePCs, PCs
  <2> QED BY <2>1, <2>2, <2>3, <2>4
<1>4. CASE PersistSame
  <2>0. job.pc \in LivePCs /\ job.cand \in Node /\ job.old.node \in Node /\ FromTag \in Tag
    BY <1>4 DEF PersistSame, At, JobOK, JobShape, LivePCs, ApplyPCs, FromTag, Tag
  <2>b. ASSUME job' = [job EXCEPT !.pc = "final", !.live = TRUE], UNCHANGED <<watch, booted>> PROVE JobOK'
    <3>1. job' \in Job BY <2>b DEF JobOK, Job, PCs
    <3>2. job'.pc = "final" /\ job'.cand = job.cand /\ job'.dr = job.dr /\ job'.old = job.old
      BY <2>b DEF JobOK, Job
    <3> QED BY <3>1, <3>2, <2>0, <2>b DEF JobOK, JobShape, LivePCs
  <2> PICK r \in PersistConfig(job.cand) :
            /\ cfg' = r.cfg /\ lkg' = r.lkg
            /\ IF r.ok THEN /\ job' = [job EXCEPT !.pc = "final", !.live = TRUE]
                            /\ UNCHANGED <<watch, booted>>
               ELSE Goto("preserve")
    BY <1>4 DEF PersistSame
  <2>c. r.cfg \in Conf /\ r.lkg \in Conf BY <2>0, PersistType DEF Conf, Tag
  <2>1. FileOK' BY <1>4 DEF FileOK, file, PersistSame
  <2>2. XrayOK' BY <1>4, <2>c DEF XrayOK, PersistSame
  <2>3. RouterOK' BY <1>4 DEF RouterOK, PersistSame
  <2>4. JobOK' BY <2>0, <2>b, GotoLive DEF LivePCs
  <2> QED BY <2>1, <2>2, <2>3, <2>4
<1>5. CASE ProbeCandidate
  <2>0. job.pc \in LivePCs /\ job.cand \in Node /\ job.old.node \in Node /\ FromTag \in Tag
    BY <1>5 DEF ProbeCandidate, At, JobOK, JobShape, LivePCs, ApplyPCs, FromTag, Tag
  <2>a. job.probes = 0 BY <1>5 DEF ProbeCandidate, At, JobOK, JobShape
  <2>b. ASSUME NEW next \in {"confirm", "intent"}, job' = [job EXCEPT !.pc = next, !.probes = @ + 1],
               UNCHANGED <<file, paused, watch, booted>>
        PROVE  FileOK' /\ RouterOK' /\ JobOK'
    <3>0. job' = [job EXCEPT !.pc = next, !.probes = 1] BY <2>a, <2>b DEF JobOK, Job
    <3>a. next \in PCs /\ 1 \in 0..2 BY DEF PCs
    <3>1. job' \in Job BY <3>0, <3>a DEF JobOK, Job
    <3>2. job'.pc = next /\ job'.cand = job.cand /\ job'.dr = job.dr /\ job'.old = job.old
          /\ job'.probes = 1
      BY <3>0 DEF JobOK, Job
    <3>3. JobShape' BY <3>2, <2>0, <2>b DEF JobOK, JobShape
    <3> QED BY <3>1, <3>3, <2>b, <1>5 DEF FileOK, file, RouterOK, JobOK, ProbeCandidate
  <2>c. ASSUME Goto("preserve"), NEW ok \in SaveOK, Save(st, ok),
               paused' = IF ok /\ Pauses THEN paused \cup {job.cand} ELSE paused
        PROVE  FileOK' /\ RouterOK' /\ JobOK'
    <3>1. FileOK' BY <2>c, SaveType, SaveOKType DEF FileOK
    <3>2. JobOK' BY <2>c, <2>0, GotoLive DEF LivePCs
    <3>3. RouterOK' BY <2>c, <2>0, <1>5 DEF RouterOK, ProbeCandidate
    <3> QED BY <3>1, <3>2, <3>3
  <2>d. FileOK' /\ RouterOK' /\ JobOK' BY <1>5, <2>b, <2>c DEF ProbeCandidate, Probe
  <2>1. FileOK' BY <2>d
  <2>2. XrayOK' BY <1>5 DEF XrayOK, ProbeCandidate
  <2>3. RouterOK' BY <2>d
  <2>4. JobOK' BY <2>d
  <2> QED BY <2>1, <2>2, <2>3, <2>4
<1>6. CASE ConfirmCandidate
  <2>0. job.pc \in LivePCs /\ job.cand \in Node /\ job.old.node \in Node /\ FromTag \in Tag
    BY <1>6 DEF ConfirmCandidate, At, JobOK, JobShape, LivePCs, ApplyPCs, FromTag, Tag
  <2>a. job.probes = 1 BY <1>6 DEF ConfirmCandidate, At, JobOK, JobShape
  <2>b. ASSUME NEW next \in {"intent"}, job' = [job EXCEPT !.pc = next, !.probes = @ + 1],
               UNCHANGED <<file, paused, watch, booted>>
        PROVE  FileOK' /\ RouterOK' /\ JobOK'
    <3>0. job' = [job EXCEPT !.pc = next, !.probes = 2] BY <2>a, <2>b DEF JobOK, Job
    <3>a. next \in PCs /\ 2 \in 0..2 BY DEF PCs
    <3>1. job' \in Job BY <3>0, <3>a DEF JobOK, Job
    <3>2. job'.pc = next /\ job'.cand = job.cand /\ job'.dr = job.dr /\ job'.old = job.old
          /\ job'.probes = 2
      BY <3>0 DEF JobOK, Job
    <3>3. JobShape' BY <3>2, <2>0, <2>b DEF JobOK, JobShape
    <3> QED BY <3>1, <3>3, <2>b, <1>6 DEF FileOK, file, RouterOK, JobOK, ConfirmCandidate
  <2>c. ASSUME Goto("preserve"), NEW ok \in SaveOK, Save(st, ok),
               paused' = IF ok /\ Pauses THEN paused \cup {job.cand} ELSE paused
        PROVE  FileOK' /\ RouterOK' /\ JobOK'
    <3>1. FileOK' BY <2>c, SaveType, SaveOKType DEF FileOK
    <3>2. JobOK' BY <2>c, <2>0, GotoLive DEF LivePCs
    <3>3. RouterOK' BY <2>c, <2>0, <1>6 DEF RouterOK, ConfirmCandidate
    <3> QED BY <3>1, <3>2, <3>3
  <2>d. FileOK' /\ RouterOK' /\ JobOK' BY <1>6, <2>b, <2>c DEF ConfirmCandidate, Probe
  <2>1. FileOK' BY <2>d
  <2>2. XrayOK' BY <1>6 DEF XrayOK, ConfirmCandidate
  <2>3. RouterOK' BY <2>d
  <2>4. JobOK' BY <2>d
  <2> QED BY <2>1, <2>2, <2>3, <2>4
<1>7. CASE SaveIntent
  <2>0. job.pc \in LivePCs /\ job.cand \in Node /\ job.old.node \in Node /\ FromTag \in Tag
    BY <1>7 DEF SaveIntent, At, JobOK, JobShape, LivePCs, ApplyPCs, FromTag, Tag
  <2> PICK ok \in SaveOK : Save(SwitchIntent, ok) /\ Goto(IF ok THEN "select" ELSE "preserve")
    BY <1>7 DEF SaveIntent
  <2>1. FileOK' BY <2>0, IntentType, SaveType, SaveOKType
  <2>2. XrayOK' BY <1>7 DEF XrayOK, SaveIntent
  <2>3. RouterOK' BY <1>7 DEF RouterOK, SaveIntent
  <2>4. JobOK' BY <2>0, GotoLive DEF LivePCs
  <2> QED BY <2>1, <2>2, <2>3, <2>4
<1>8. CASE SelectCandidate
  <2>0. job.pc \in LivePCs /\ job.cand \in Node /\ job.old.node \in Node /\ FromTag \in Tag
    BY <1>8 DEF SelectCandidate, At, JobOK, JobShape, LivePCs, ApplyPCs, FromTag, Tag
  <2> PICK r \in SelectOutbound(job.cand) : /\ xr' = [xr EXCEPT !.target = r.target]
       /\ Goto(IF r.ok THEN "egress" ELSE "preserve")
    BY <1>8 DEF SelectCandidate
  <2>1. FileOK' BY <1>8 DEF FileOK, file, SelectCandidate
  <2>2. XrayOK' BY <1>8, <2>0, SelectType DEF XrayOK, Tag, SelectCandidate
  <2>3. RouterOK' BY <1>8 DEF RouterOK, SelectCandidate
  <2>4. JobOK' BY <2>0, GotoLive DEF LivePCs
  <2> QED BY <2>1, <2>2, <2>3, <2>4
<1>9. CASE EnsureEgress
  <2>0. job.pc \in LivePCs /\ job.cand \in Node /\ job.old.node \in Node /\ FromTag \in Tag
    BY <1>9 DEF EnsureEgress, At, JobOK, JobShape, LivePCs, ApplyPCs, FromTag, Tag
  <2>1. FileOK' BY <1>9 DEF FileOK, file, EnsureEgress
  <2>2. XrayOK' BY <1>9 DEF XrayOK, EnsureEgress
  <2>3. RouterOK' BY <1>9 DEF RouterOK, EnsureEgress
  <2>4. JobOK' BY <1>9, <2>0, GotoLive DEF EnsureEgress, LivePCs
  <2> QED BY <2>1, <2>2, <2>3, <2>4
<1>10. CASE PersistSwitched
  <2>0. job.pc \in LivePCs /\ job.cand \in Node /\ job.old.node \in Node /\ FromTag \in Tag
    BY <1>10 DEF PersistSwitched, At, JobOK, JobShape, LivePCs, ApplyPCs, FromTag, Tag
  <2> PICK r \in PersistConfig(job.cand) : /\ cfg' = r.cfg /\ lkg' = r.lkg
       /\ Goto(IF r.ok THEN "switched" ELSE "undo")
    BY <1>10 DEF PersistSwitched
  <2>c. r.cfg \in Conf /\ r.lkg \in Conf BY <2>0, PersistType DEF Conf, Tag
  <2>1. FileOK' BY <1>10 DEF FileOK, file, PersistSwitched
  <2>2. XrayOK' BY <1>10, <2>c DEF XrayOK, PersistSwitched
  <2>3. RouterOK' BY <1>10 DEF RouterOK, PersistSwitched
  <2>4. JobOK' BY <2>0, GotoLive DEF LivePCs
  <2> QED BY <2>1, <2>2, <2>3, <2>4
<1>11. CASE SaveSwitched
  <2>0. job.pc \in LivePCs /\ job.cand \in Node /\ job.old.node \in Node /\ FromTag \in Tag
    BY <1>11 DEF SaveSwitched, At, JobOK, JobShape, LivePCs, ApplyPCs, FromTag, Tag
  <2>b. ASSUME job' = [job EXCEPT !.pc = "final", !.live = TRUE], UNCHANGED <<watch, booted>> PROVE JobOK'
    <3>1. job' \in Job BY <2>b DEF JobOK, Job, PCs
    <3>2. job'.pc = "final" /\ job'.cand = job.cand /\ job'.dr = job.dr /\ job'.old = job.old
      BY <2>b DEF JobOK, Job
    <3> QED BY <3>1, <3>2, <2>0, <2>b DEF JobOK, JobShape, LivePCs
  <2> PICK ok \in SaveOK :
            /\ Save(SwitchIntent, ok)
            /\ IF ok THEN /\ job' = [job EXCEPT !.pc = "final", !.live = TRUE]
                          /\ UNCHANGED <<watch, booted>>
               ELSE Goto("undo")
    BY <1>11 DEF SaveSwitched
  <2>1. FileOK' BY <2>0, IntentType, SaveType, SaveOKType
  <2>2. XrayOK' BY <1>11 DEF XrayOK, SaveSwitched
  <2>3. RouterOK' BY <1>11 DEF RouterOK, SaveSwitched
  <2>4. JobOK' BY <2>0, <2>b, GotoLive DEF LivePCs
  <2> QED BY <2>1, <2>2, <2>3, <2>4
<1>12. CASE UndoSelect
  <2>0. job.pc \in LivePCs /\ job.cand \in Node /\ job.old.node \in Node /\ FromTag \in Tag
    BY <1>12 DEF UndoSelect, At, JobOK, JobShape, LivePCs, ApplyPCs, FromTag, Tag
  <2>1. FileOK' BY <1>12 DEF FileOK, file, UndoSelect
  <2>2. XrayOK' BY <1>12, <2>0, SelectType DEF XrayOK, UndoSelect
  <2>3. RouterOK' BY <1>12 DEF RouterOK, UndoSelect
  <2>4. JobOK' BY <1>12, <2>0, GotoLive DEF UndoSelect, LivePCs
  <2> QED BY <2>1, <2>2, <2>3, <2>4
<1>13. CASE PreserveConnection
  <2>0. job.pc \in LivePCs /\ job.cand \in Node /\ job.old.node \in Node /\ FromTag \in Tag
    BY <1>13 DEF PreserveConnection, At, JobOK, JobShape, LivePCs, ApplyPCs, FromTag, Tag
  <2>a. Preserved \in RuntimeStates
    BY DEF Preserved, FileOK, JobOK, Job, RuntimeStates, NoOperation, Operation, OperationalMode
  <2>1. FileOK' BY <1>13, <2>a, SaveType, SaveOKType DEF PreserveConnection
  <2>2. XrayOK' BY <1>13 DEF XrayOK, PreserveConnection
  <2>3. RouterOK' BY <1>13 DEF RouterOK, PreserveConnection
  <2>4. JobOK' BY <1>13, FailJobType DEF PreserveConnection
  <2> QED BY <2>1, <2>2, <2>3, <2>4
<1>14. CASE ApplyStatic
  <2>0. job.pc \in ApplyPCs /\ job.cand \in Node
    BY <1>14 DEF ApplyStatic, At, JobOK, JobShape, ApplyPCs
  <2> PICK r \in ApplyConfig(job.cand) :
            /\ cfg' = r.cfg /\ lkg' = r.lkg /\ xr' = r.xr
            /\ IF r.ok THEN /\ job' = [job EXCEPT !.pc = "verify",
                                                  !.rb = IF job.on THEN RollbackData ELSE None]
                            /\ UNCHANGED <<watch, booted>>
               ELSE SelectionFailed
    BY <1>14 DEF ApplyStatic
  <2> DEFINE rb == IF job.on THEN RollbackData ELSE None
  <2>a. rb \in Conf BY DEF RollbackData, XrayOK, Conf
  <2>b. ASSUME r.ok PROVE JobOK'
    <3>0. job' = [job EXCEPT !.pc = "verify", !.rb = rb] /\ UNCHANGED <<watch, booted>> BY <2>b
    <3> HIDE DEF rb
    <3>1. job' \in Job BY <2>a, <3>0 DEF JobOK, Job, PCs
    <3>2. job'.pc = "verify" /\ job'.cand = job.cand /\ job'.dr = job.dr /\ job'.old = job.old
      BY <3>0 DEF JobOK, Job
    <3> QED BY <3>0, <3>1, <3>2, <2>0 DEF JobOK, JobShape, LivePCs
  <2>1. FileOK' BY <1>14 DEF FileOK, file, ApplyStatic
  <2>2. XrayOK' BY <1>14, <2>0, ApplyType DEF XrayOK, ApplyStatic, Conf, Tag
  <2>3. RouterOK' BY <1>14 DEF RouterOK, ApplyStatic
  <2>4. JobOK' BY <2>b, SelectionFailedType
  <2> QED BY <2>1, <2>2, <2>3, <2>4
<1>15. CASE VerifyStatic
  <2>0. job.pc \in ApplyPCs /\ job.cand \in Node
    BY <1>15 DEF VerifyStatic, At, JobOK, JobShape, ApplyPCs
  <2>1. FileOK' BY <1>15 DEF FileOK, file, VerifyStatic
  <2>2. XrayOK' BY <1>15 DEF XrayOK, VerifyStatic
  <2>3. RouterOK' BY <1>15 DEF RouterOK, VerifyStatic
  <2>4. JobOK' BY <1>15, <2>0, GotoStatic DEF VerifyStatic
  <2> QED BY <2>1, <2>2, <2>3, <2>4
<1>16. CASE PinReloaded
  <2>0. job.pc \in ApplyPCs /\ job.cand \in Node
    BY <1>16 DEF PinReloaded, At, JobOK, JobShape, ApplyPCs
  <2>1. FileOK' BY <1>16 DEF FileOK, file, PinReloaded
  <2>2. XrayOK' BY <1>16, <2>0, SelectType DEF XrayOK, PinReloaded, Tag
  <2>3. RouterOK' BY <1>16 DEF RouterOK, PinReloaded
  <2>4. JobOK' BY <1>16, <2>0, GotoStatic DEF PinReloaded
  <2> QED BY <2>1, <2>2, <2>3, <2>4
<1>17. CASE RollbackVerification
  <2>a. job.rb \in Conf BY DEF JobOK, Job
  <2>b. [st EXCEPT !.connected = TRUE] \in RuntimeStates BY DEF FileOK, RuntimeStates
  <2>c. st \in RuntimeStates BY DEF FileOK
  <2>1. FileOK' BY <1>17, <2>b, <2>c, SaveType, SaveOKType DEF RollbackVerification
  <2>2. XrayOK' BY <1>17, <2>a, StartedType, StoppedType DEF XrayOK, RollbackVerification
  <2>3. RouterOK' BY <1>17 DEF RouterOK, RollbackVerification
  <2>4. JobOK' BY <1>17, FailJobType, SelectionFailedType DEF RollbackVerification
  <2> QED BY <2>1, <2>2, <2>3, <2>4
<1>18. CASE ApplyDNS
  <2>0. job.pc \in ApplyPCs /\ job.cand \in Node
    BY <1>18 DEF ApplyDNS, At, JobOK, JobShape, ApplyPCs
  <2>1. FileOK' BY <1>18 DEF FileOK, file, ApplyDNS
  <2>2. XrayOK' BY <1>18 DEF XrayOK, ApplyDNS
  <2>3. RouterOK' BY <1>18 DEF RouterOK, ApplyDNS
  <2>4. JobOK' BY <1>18, <2>0, GotoStatic, SelectionFailedType DEF ApplyDNS
  <2> QED BY <2>1, <2>2, <2>3, <2>4
<1>19. CASE ApplyFirewall
  <2>0. job.pc \in ApplyPCs /\ job.cand \in Node
    BY <1>19 DEF ApplyFirewall, At, JobOK, JobShape, ApplyPCs
  <2>1. FileOK' BY <1>19 DEF FileOK, file, ApplyFirewall
  <2>2. XrayOK' BY <1>19 DEF XrayOK, ApplyFirewall
  <2>3. RouterOK' BY <1>19 DEF RouterOK, ApplyFirewall
  <2>4. JobOK' BY <1>19, <2>0, GotoStatic, SelectionFailedType DEF ApplyFirewall
  <2> QED BY <2>1, <2>2, <2>3, <2>4
<1>20. CASE CommitSelection
  <2>0. job.pc \in ApplyPCs /\ job.cand \in Node
    BY <1>20 DEF CommitSelection, At, JobOK, JobShape, ApplyPCs
  <2> PICK readback \in Result(xr.run /\ xr.target # None, ApiFaults), ok \in SaveOK :
            /\ Save(Selection(readback), ok)
            /\ IF ok THEN \E noted \in SaveOK : EndJob(noted \/ job.by # "watch") ELSE FailJob
    BY <1>20 DEF CommitSelection
  <2>a. readback \in BOOLEAN BY ResultType
  <2>b. Selection(readback) \in RuntimeStates BY <2>0, <2>a, SelectionType DEF TypeInv
  <2>1. FileOK' BY <2>b, SaveType, SaveOKType
  <2>2. XrayOK' BY <1>20 DEF XrayOK, CommitSelection
  <2>3. RouterOK' BY <1>20 DEF RouterOK, CommitSelection
  <2>4. JobOK' BY EndJobType, FailJobType, SaveOKType
  <2> QED BY <2>1, <2>2, <2>3, <2>4
<1>21. CASE DisableFirewall
  <2>1. FileOK' BY <1>21 DEF FileOK, file, DisableFirewall
  <2>2. XrayOK' BY <1>21 DEF XrayOK, DisableFirewall
  <2>3. RouterOK' BY <1>21 DEF RouterOK, DisableFirewall
  <2>4. JobOK' BY <1>21, GotoStop, EndJobType DEF DisableFirewall
  <2> QED BY <2>1, <2>2, <2>3, <2>4
<1>22. CASE DisableDNS
  <2>1. FileOK' BY <1>22 DEF FileOK, file, DisableDNS
  <2>2. XrayOK' BY <1>22 DEF XrayOK, DisableDNS
  <2>3. RouterOK' BY <1>22 DEF RouterOK, DisableDNS
  <2>4. JobOK' BY <1>22, GotoStop, EndJobType DEF DisableDNS
  <2> QED BY <2>1, <2>2, <2>3, <2>4
<1>23. CASE StopBackend
  <2>1. FileOK' BY <1>23 DEF FileOK, file, StopBackend
  <2>2. XrayOK' BY <1>23, StoppedType DEF XrayOK, StopBackend
  <2>3. RouterOK' BY <1>23 DEF RouterOK, StopBackend
  <2>4. JobOK' BY <1>23, GotoStop, EndJobType DEF StopBackend
  <2> QED BY <2>1, <2>2, <2>3, <2>4
<1>24. CASE SaveStopped
  <2>a. Down \in RuntimeStates BY DEF FileOK, Down, RuntimeStates, Transport
  <2>b. [Down EXCEPT !.node = job.cand, !.mode = job.mode] \in RuntimeStates
    BY <2>a DEF JobOK, Job, RuntimeStates
  <2>c. [Down EXCEPT !.node = None, !.mode = "disconnected"] \in RuntimeStates
    BY <2>a DEF RuntimeStates, Mode
  <2>d. ASSUME NEW s \in RuntimeStates, NEW ok \in SaveOK, Save(s, ok) PROVE FileOK'
    BY <2>d, SaveType, SaveOKType
  <2>1. FileOK' BY <1>24, <2>a, <2>b, <2>c, <2>d DEF SaveStopped, FileOK, file
  <2>2. XrayOK' BY <1>24 DEF XrayOK, SaveStopped
  <2>3. RouterOK' BY <1>24 DEF RouterOK, SaveStopped
  <2>4. JobOK' BY <1>24, EndJobType, SaveOKType DEF SaveStopped
  <2> QED BY <2>1, <2>2, <2>3, <2>4
<1>25. CASE FailOpenIntent
  <2>a. [job.old EXCEPT !.op = "recovering", !.managed = TRUE,
                           !.cur = [kind |-> "fail_open", from |-> job.old.sel, to |-> Direct]] \in RuntimeStates
    BY DEF JobOK, Job, RuntimeStates, OperationalMode, Operation, Tag
  <2>b. ASSUME Goto("foselect") PROVE JobOK'  BY <2>b, GotoType DEF PCs, ApplyPCs, LivePCs
  <2>1. FileOK' BY <1>25, <2>a, SaveType, SaveOKType DEF FailOpenIntent
  <2>2. XrayOK' BY <1>25 DEF XrayOK, FailOpenIntent
  <2>3. RouterOK' BY <1>25 DEF RouterOK, FailOpenIntent
  <2>4. JobOK' BY <1>25, <2>b, EndJobType DEF FailOpenIntent
  <2> QED BY <2>1, <2>2, <2>3, <2>4
<1>26. CASE FailOpenSelect
  <2>b. ASSUME NEW pc \in {"fopersist", "fofinal", "fofailed", "restored"}, Goto(pc) PROVE JobOK'
    BY <2>b, GotoType DEF PCs, ApplyPCs, LivePCs
  <2>1. FileOK' BY <1>26 DEF FileOK, file, FailOpenSelect
  <2>2. XrayOK' BY <1>26, SelectType DEF XrayOK, FailOpenSelect, Tag
  <2>3. RouterOK' BY <1>26 DEF RouterOK, FailOpenSelect
  <2>4. JobOK' BY <1>26, <2>b DEF FailOpenSelect
  <2> QED BY <2>1, <2>2, <2>3, <2>4
<1>27. CASE FailOpenPersist
  <2>b. ASSUME NEW pc \in {"fopersist", "fofinal", "fofailed", "restored"}, Goto(pc) PROVE JobOK'
    BY <2>b, GotoType DEF PCs, ApplyPCs, LivePCs
  <2>c. job.old.sel \in Tag \cup {None} /\ Direct \in Conf BY DEF JobOK, Job, RuntimeStates, Conf, Tag
  <2>d. cfg' \in Conf /\ lkg' \in Conf BY <1>27, <2>c, PersistType DEF FailOpenPersist
  <2>e. xr' \in XrayProcess BY <1>27, <2>c, SelectType DEF FailOpenPersist, XrayOK
  <2>1. FileOK' BY <1>27 DEF FileOK, file, FailOpenPersist
  <2>2. XrayOK' BY <2>d, <2>e DEF XrayOK
  <2>3. RouterOK' BY <1>27 DEF RouterOK, FailOpenPersist
  <2>4. JobOK' BY <1>27, <2>b DEF FailOpenPersist
  <2> QED BY <2>1, <2>2, <2>3, <2>4
<1>28. CASE FailOpenFailed
  <2>a. [job.old EXCEPT !.cur = NoOperation] \in RuntimeStates
    BY DEF JobOK, Job, RuntimeStates, NoOperation, Operation
  <2>1. FileOK' BY <1>28, <2>a, SaveType, SaveOKType DEF FailOpenFailed
  <2>2. XrayOK' BY <1>28 DEF XrayOK, FailOpenFailed
  <2>3. RouterOK' BY <1>28 DEF RouterOK, FailOpenFailed
  <2>4. JobOK' BY <1>28, EndJobType DEF FailOpenFailed
  <2> QED BY <2>1, <2>2, <2>3, <2>4
<1>29. CASE FailOpenDone
  <2>a. [job.old EXCEPT !.op = "direct", !.sel = Direct, !.cur = NoOperation,
                           !.managed = TRUE, !.connected = FALSE, !.transport = "direct"] \in RuntimeStates
    BY DEF JobOK, Job, RuntimeStates, NoOperation, Operation, OperationalMode, Transport, Tag
  <2>1. FileOK' BY <1>29, <2>a, SaveType, SaveOKType DEF FailOpenDone
  <2>2. XrayOK' BY <1>29 DEF XrayOK, FailOpenDone
  <2>3. RouterOK' BY <1>29 DEF RouterOK, FailOpenDone
  <2>4. JobOK' BY <1>29, EndJobType, SaveOKType DEF FailOpenDone
  <2> QED BY <2>1, <2>2, <2>3, <2>4
<1>30. CASE RestoreRuntime
  <2>b. ASSUME NEW pc \in {"fopersist", "fofinal", "fofailed", "restored"}, Goto(pc) PROVE JobOK'
    BY <2>b, GotoType DEF PCs, ApplyPCs, LivePCs
  <2>c. ASSUME job' = ApplyJob("restore", st.node, st.mode, FALSE), st.node # None,
               UNCHANGED <<watch, booted>>
        PROVE  JobOK'
    <3>1. st.node \in Node /\ st.mode \in Mode BY <2>c DEF FileOK, RuntimeStates
    <3> QED BY <3>1, <2>c, ApplyJobType DEF JobOK
  <2>1. FileOK' BY <1>30 DEF FileOK, file, RestoreRuntime
  <2>2. XrayOK' BY <1>30, SelectType DEF XrayOK, RestoreRuntime, Tag
  <2>3. RouterOK' BY <1>30 DEF RouterOK, RestoreRuntime
  <2>4. JobOK' BY <1>30, <2>b, <2>c, GotoStop, EndJobType DEF RestoreRuntime
  <2> QED BY <2>1, <2>2, <2>3, <2>4
<1>31. CASE RestoreDirect
  <2>a. [Down EXCEPT !.sel = Direct, !.cur = NoOperation] \in RuntimeStates
    BY DEF FileOK, Down, RuntimeStates, Transport, NoOperation, Operation, Tag
  <2>1. FileOK' BY <1>31, <2>a, SaveType, SaveOKType DEF RestoreDirect
  <2>2. XrayOK' BY <1>31 DEF XrayOK, RestoreDirect
  <2>3. RouterOK' BY <1>31 DEF RouterOK, RestoreDirect
  <2>4. JobOK' BY <1>31, EndJobType DEF RestoreDirect
  <2> QED BY <2>1, <2>2, <2>3, <2>4
<1>32. CASE WatchStart
  <2>1. FileOK' BY <1>32 DEF FileOK, file, WatchStart
  <2>2. XrayOK' BY <1>32 DEF XrayOK, WatchStart
  <2>3. RouterOK' BY <1>32 DEF RouterOK, WatchStart
  <2>5. JobShape' BY <1>32 DEF JobOK, JobShape, WatchStart
  <2>6. watch' \in Watch BY <1>32, NoWatchType, AfterFailureType DEF JobOK, Watch, WatchStart, FailedRoute, ShouldFailOpenDirect, FileOK, RuntimeStates
  <2>4. JobOK' BY <1>32, <2>5, <2>6 DEF JobOK, WatchStart
  <2> QED BY <2>1, <2>2, <2>3, <2>4
<1>33. CASE WatchNoReserve
  <2>1. FileOK' BY <1>33 DEF FileOK, file, WatchNoReserve
  <2>2. XrayOK' BY <1>33 DEF XrayOK, WatchNoReserve
  <2>3. RouterOK' BY <1>33 DEF RouterOK, WatchNoReserve
  <2>5. JobShape' BY <1>33 DEF JobOK, JobShape, WatchNoReserve
  <2>6. watch' \in Watch BY <1>33, NoWatchType, AfterFailureType DEF JobOK, Watch, WatchNoReserve
  <2>4. JobOK' BY <1>33, <2>5, <2>6 DEF JobOK, WatchNoReserve
  <2> QED BY <2>1, <2>2, <2>3, <2>4
<1>34. CASE WatchRetry
  <2>1. FileOK' BY <1>34 DEF FileOK, file, WatchRetry
  <2>2. XrayOK' BY <1>34 DEF XrayOK, WatchRetry
  <2>3. RouterOK' BY <1>34 DEF RouterOK, WatchRetry
  <2>5. JobShape' BY <1>34 DEF JobOK, JobShape, WatchRetry
  <2>6. watch' \in Watch BY <1>34, NoWatchType, AfterFailureType DEF JobOK, Watch, WatchRetry, FailedRoute, FileOK, RuntimeStates
  <2>4. JobOK' BY <1>34, <2>5, <2>6 DEF JobOK, WatchRetry
  <2> QED BY <2>1, <2>2, <2>3, <2>4
<1>35. CASE WatchDiscard
  <2>1. FileOK' BY <1>35 DEF FileOK, file, WatchDiscard
  <2>2. XrayOK' BY <1>35 DEF XrayOK, WatchDiscard
  <2>3. RouterOK' BY <1>35 DEF RouterOK, WatchDiscard
  <2>5. JobShape' BY <1>35 DEF JobOK, JobShape, WatchDiscard
  <2>6. watch' \in Watch BY <1>35, NoWatchType, AfterFailureType DEF JobOK, Watch, WatchDiscard
  <2>4. JobOK' BY <1>35, <2>5, <2>6 DEF JobOK, WatchDiscard
  <2> QED BY <2>1, <2>2, <2>3, <2>4
<1>36. CASE WatchNoCandidate
  <2>1. FileOK' BY <1>36 DEF FileOK, file, WatchNoCandidate
  <2>2. XrayOK' BY <1>36 DEF XrayOK, WatchNoCandidate
  <2>3. RouterOK' BY <1>36 DEF RouterOK, WatchNoCandidate
  <2>5. JobShape' BY <1>36 DEF JobOK, JobShape, WatchNoCandidate
  <2>6. watch' \in Watch BY <1>36, NoWatchType, AfterFailureType DEF JobOK, Watch, WatchNoCandidate
  <2>4. JobOK' BY <1>36, <2>5, <2>6 DEF JobOK, WatchNoCandidate
  <2> QED BY <2>1, <2>2, <2>3, <2>4
<1>37. CASE FallbackSnapshot
  <2>1. FileOK' BY <1>37 DEF FileOK, file, FallbackSnapshot
  <2>2. XrayOK' BY <1>37 DEF XrayOK, FallbackSnapshot
  <2>3. RouterOK' BY <1>37 DEF RouterOK, FallbackSnapshot
  <2>5. JobShape' BY <1>37 DEF JobOK, JobShape, FallbackSnapshot
  <2>6. watch' \in Watch BY <1>37, NoWatchType, AfterFailureType DEF JobOK, Watch, FallbackSnapshot
  <2>4. JobOK' BY <1>37, <2>5, <2>6 DEF JobOK, FallbackSnapshot
  <2> QED BY <2>1, <2>2, <2>3, <2>4
<1>38. CASE FailOpen
  <2>1. FileOK' BY <1>38 DEF FileOK, file, FailOpen, StartJob
  <2>2. XrayOK' BY <1>38 DEF XrayOK, FailOpen, StartJob
  <2>3. RouterOK' BY <1>38 DEF RouterOK, FailOpen, StartJob
  <2>5. job' \in Job BY <1>38, NoJobType DEF FailOpen, StartJob, Job, PCs, FileOK
  <2>6. job'.pc = "fointent" /\ ~job'.dr BY <1>38 DEF FailOpen, StartJob, NoJob
  <2>7. JobShape' BY <2>6 DEF JobShape, ApplyPCs, LivePCs
  <2>4. JobOK' BY <1>38, <2>5, <2>7 DEF JobOK, FailOpen, StartJob
  <2> QED BY <2>1, <2>2, <2>3, <2>4
<1>39. CASE \E n \in Node, verified \in BOOLEAN : WatchCommit(n, verified)
  <2>1. FileOK' BY <1>39 DEF FileOK, file, WatchCommit, StartJob
  <2>2. XrayOK' BY <1>39 DEF XrayOK, WatchCommit, StartJob
  <2>3. RouterOK' BY <1>39 DEF RouterOK, WatchCommit, StartJob
  <2>5. job' \in Job /\ JobShape' BY <1>39, ApplyJobType DEF WatchCommit, StartJob, FileOK, RuntimeStates
  <2>6. watch' \in Watch BY <1>39 DEF WatchCommit, JobOK, Watch
  <2>4. JobOK' BY <1>39, <2>5, <2>6 DEF JobOK, WatchCommit, StartJob
  <2> QED BY <2>1, <2>2, <2>3, <2>4
<1>40. CASE StartDaemon
  <2>1. FileOK' BY <1>40 DEF FileOK, file, StartDaemon, StartJob
  <2>2. XrayOK' BY <1>40 DEF XrayOK, StartDaemon, StartJob
  <2>3. RouterOK' BY <1>40 DEF RouterOK, StartDaemon, StartJob
  <2>5. job' \in Job BY <1>40, NoJobType DEF StartDaemon, StartJob, Job, PCs
  <2>6. job'.pc = "restore" /\ ~job'.dr BY <1>40 DEF StartDaemon, StartJob, NoJob
  <2>7. JobShape' BY <2>6 DEF JobShape, ApplyPCs, LivePCs
  <2>4. JobOK' BY <1>40, <2>5, <2>7 DEF JobOK, StartDaemon, StartJob
  <2> QED BY <2>1, <2>2, <2>3, <2>4
<1>41. CASE Disconnect
  <2>1. FileOK' BY <1>41 DEF FileOK, file, Disconnect, StartJob
  <2>2. XrayOK' BY <1>41 DEF XrayOK, Disconnect, StartJob
  <2>3. RouterOK' BY <1>41 DEF RouterOK, Disconnect, StartJob
  <2>5. job' \in Job BY <1>41, NoJobType DEF Disconnect, StartJob, Job, PCs
  <2>6. job'.pc = "stopfw" /\ ~job'.dr BY <1>41 DEF Disconnect, StartJob, NoJob
  <2>7. JobShape' BY <2>6 DEF JobShape, ApplyPCs, LivePCs
  <2>4. JobOK' BY <1>41, <2>5, <2>7 DEF JobOK, Disconnect, StartJob
  <2> QED BY <2>1, <2>2, <2>3, <2>4
<1>42. CASE \E n \in Node, m \in UserModes : Connect(n, m)
  <2>1. FileOK' BY <1>42 DEF FileOK, file, Connect, StartJob
  <2>2. XrayOK' BY <1>42 DEF XrayOK, Connect, StartJob
  <2>3. RouterOK' BY <1>42 DEF RouterOK, Connect, StartJob
  <2>5. job' \in Job /\ JobShape' BY <1>42, ApplyJobType, ConnectModes DEF Connect, StartJob, Mode
  <2>4. JobOK' BY <1>42, <2>5 DEF JobOK, Connect, StartJob
  <2> QED BY <2>1, <2>2, <2>3, <2>4
<1>43. CASE \E n \in Node, status \in NodeStatus : NodeChanges(n, status)
  <2>1. FileOK' BY <1>43 DEF FileOK, file, NodeChanges
  <2>2. XrayOK' BY <1>43 DEF XrayOK, NodeChanges
  <2>3. RouterOK' BY <1>43 DEF RouterOK, NodeChanges
  <2>5. JobShape' BY <1>43 DEF JobOK, JobShape, NodeChanges
  <2>4. JobOK' BY <1>43, <2>5 DEF JobOK, NodeChanges
  <2> QED BY <2>1, <2>2, <2>3, <2>4
<1>44. CASE \E n \in Node : BackoffEnds(n)
  <2>1. FileOK' BY <1>44 DEF FileOK, file, BackoffEnds
  <2>2. XrayOK' BY <1>44 DEF XrayOK, BackoffEnds
  <2>3. RouterOK' BY <1>44 DEF RouterOK, BackoffEnds
  <2>5. JobShape' BY <1>44 DEF JobOK, JobShape, BackoffEnds
  <2>4. JobOK' BY <1>44, <2>5 DEF JobOK, BackoffEnds
  <2> QED BY <2>1, <2>2, <2>3, <2>4
<1>45. CASE XrayDies
  <2>1. FileOK' BY <1>45 DEF FileOK, file, XrayDies
  <2>2. XrayOK' BY <1>45, StoppedType DEF XrayOK, XrayDies
  <2>3. RouterOK' BY <1>45 DEF RouterOK, XrayDies
  <2>5. JobShape' BY <1>45 DEF JobOK, JobShape, XrayDies
  <2>4. JobOK' BY <1>45, <2>5 DEF JobOK, XrayDies
  <2> QED BY <2>1, <2>2, <2>3, <2>4
<1>46. CASE ClientDies
  <2>1. FileOK' BY <1>46 DEF FileOK, file, ClientDies
  <2>2. XrayOK' BY <1>46 DEF XrayOK, ClientDies
  <2>3. RouterOK' BY <1>46 DEF RouterOK, ClientDies
  <2>4. JobOK' BY <1>46, NoJobType, NoJobShape DEF JobOK, ClientDies
  <2> QED BY <2>1, <2>2, <2>3, <2>4
<1>47. CASE DaemonDies
  <2>1. FileOK' BY <1>47 DEF FileOK, file, DaemonDies
  <2>2. XrayOK' BY <1>47 DEF XrayOK, DaemonDies
  <2>3. RouterOK' BY <1>47 DEF RouterOK, DaemonDies
  <2>5. JobShape' BY <1>47, NoJobShape DEF JobOK, JobShape, DaemonDies
  <2>4. JobOK' BY <1>47, <2>5, NoJobType, NoWatchType DEF JobOK, DaemonDies
  <2> QED BY <2>1, <2>2, <2>3, <2>4
<1>48. CASE Reboot
  <2>1. FileOK' BY <1>48 DEF FileOK, file, Reboot
  <2>2. XrayOK' BY <1>48, StartedType DEF XrayOK, Reboot
  <2>3. RouterOK' BY <1>48 DEF RouterOK, Reboot
  <2>4. JobOK' BY <1>48, NoJobType, NoWatchType, NoJobShape DEF JobOK, Reboot
  <2> QED BY <2>1, <2>2, <2>3, <2>4
<1>49. CASE UNCHANGED vars
  <2>1. FileOK' /\ XrayOK' /\ RouterOK' BY <1>49 DEF vars, FileOK, XrayOK, RouterOK
  <2>2. JobShape' BY <1>49 DEF vars, JobOK, JobShape
  <2> QED BY <1>49, <2>1, <2>2 DEF vars, JobOK
<1> QED
    BY <1>1, <1>2, <1>3, <1>4, <1>5, <1>6, <1>7, <1>8, <1>9, <1>10, <1>11,
       <1>12, <1>13, <1>14, <1>15, <1>16, <1>17, <1>18, <1>19, <1>20, <1>21,
       <1>22, <1>23, <1>24, <1>25, <1>26, <1>27, <1>28, <1>29, <1>30, <1>31,
       <1>32, <1>33, <1>34, <1>35, <1>36, <1>37, <1>38, <1>39, <1>40, <1>41,
       <1>42, <1>43, <1>44, <1>45, <1>46, <1>47, <1>48, <1>49
    DEF Next, JobStep, WatchStep

\* Whatever fails, whoever dies and however the operations interleave, the state
\* file, Xray, the router and the operation under the store lock stay well formed.
THEOREM TypeCorrect == Spec => []TypeOK
<1>1. TypeInv => TypeOK BY DEF TypeInv, FileOK, XrayOK, RouterOK, JobOK, TypeOK
<1> QED BY <1>1, InitType, StepType, PTL DEF Spec

-------------------------------------------------------------------------------
(***************************************************************************)
(* Safety of RouteSwitch for every set of nodes: the order in which the    *)
(* transport is set up and taken down (NoBlackhole), the return of a       *)
(* failed switch to its old outbound (FailedSwitchReturns), the life of a  *)
(* persisted intent (NoOrphanIntent, and RecoveryNotSuppressed from it),   *)
(* the two probes before a return from direct (ReturnConfirmed) and, for a *)
(* router on which nothing fails, the agreement of state.json with the     *)
(* balancer and the interception (RouteAsRecorded, RestoredIsIntercepted,  *)
(* IntentCoversRoute).  Each needs the type invariant and an invariant of  *)
(* its own about the operation in progress.                                *)
(***************************************************************************)

-------------------------------------------------------------------------------
(* Where the steps shared by the operations lead. *)

\* An operation that goes on keeps its candidate and the state it started from.
LEMMA GotoPC == ASSUME job \in Job, NEW pc \in PCs, Goto(pc)
                PROVE  /\ job'.pc = pc /\ job'.cand = job.cand
                       /\ job'.old = job.old /\ job'.dr = job.dr
BY DEF Goto, Job

\* An operation that returned is no longer there.
LEMMA EndJobPC == ASSUME NEW success \in BOOLEAN, EndJob(success)
                  PROVE  job' = NoJob /\ job'.pc = "idle" /\ job'.old = DefaultRuntimeState
BY DEF EndJob, NoJob

\* An operation that fails ends, or goes on to take the transport down.
LEMMA FailPC == ASSUME job \in Job, FailJob \/ SelectionFailed
                PROVE  job'.old \in {job.old, DefaultRuntimeState} /\ job'.pc \in {"idle", "stopfw"}
<1>1. ASSUME Goto("stopfw") PROVE job'.old = job.old /\ job'.pc = "stopfw"
  BY <1>1, GotoPC DEF PCs
<1>2. ASSUME EndJob(FALSE) PROVE job'.old = DefaultRuntimeState /\ job'.pc = "idle"
  BY <1>2, EndJobPC
<1> QED BY <1>1, <1>2 DEF FailJob, SelectionFailed

-------------------------------------------------------------------------------
(* Setting the transport up and taking it down. *)

\* The interception is removed before what it leads to, and set up over a
\* running Xray.
TransportOrder ==
    /\ job.pc \in {"stopdns", "stopxray", "stopped"} => ~fw
    /\ job.pc \in {"stopxray", "stopped"} => ~dns
    /\ job.pc \in {"dns", "firewall"} => xr.run

Sensitive == {"stopdns", "stopxray", "stopped", "dns", "firewall"}

\* Outside the steps that take the transport down or up nothing is asked of the order.
LEMMA NotSensitive == job'.pc \notin Sensitive => TransportOrder'
BY DEF TransportOrder, Sensitive

\* A router that is switched on intercepts nothing.
LEMMA BlackholeInit == Init => NoBlackhole /\ TransportOrder
BY DEF Init, NoBlackhole, TransportOrder, NoJob

\* No step hands traffic to a stopped Xray, given the order of the steps before it.
LEMMA BlackholeStep ==
    ASSUME ~ApiFaults, TypeInv, NoBlackhole, TransportOrder, [Next]_vars
    PROVE  NoBlackhole' /\ TransportOrder'
<1> USE DEF TypeInv
<1>a. job \in Job BY DEF JobOK
<1>1. CASE ResolveFails
  BY <1>1, <1>a, FailPC, NotSensitive DEF ResolveFails, Sensitive, NoBlackhole
<1>2. CASE PinCurrent
  <2>1. xr'.run = xr.run BY <1>2 DEF XrayOK, XrayProcess, PinCurrent
  <2>2. job'.pc \notin Sensitive BY <1>2, <1>a, GotoPC DEF PinCurrent, Sensitive, PCs
  <2> QED BY <1>2, <2>1, <2>2, NotSensitive DEF PinCurrent, NoBlackhole
<1>3. CASE PrepareCandidate
  BY <1>3, <1>a, GotoPC, NotSensitive DEF PrepareCandidate, Sensitive, PCs, NoBlackhole
<1>4. CASE PersistSame
  <2>1. job'.pc \notin Sensitive BY <1>4, <1>a, GotoPC DEF PersistSame, Sensitive, PCs, Job
  <2> QED BY <1>4, <2>1, NotSensitive DEF PersistSame, NoBlackhole
<1>5. CASE ProbeCandidate
  <2>1. job'.pc \notin Sensitive BY <1>5, <1>a, GotoPC DEF ProbeCandidate, Probe, Sensitive, PCs, Job
  <2> QED BY <1>5, <2>1, NotSensitive DEF ProbeCandidate, NoBlackhole
<1>6. CASE ConfirmCandidate
  <2>1. job'.pc \notin Sensitive BY <1>6, <1>a, GotoPC DEF ConfirmCandidate, Probe, Sensitive, PCs, Job
  <2> QED BY <1>6, <2>1, NotSensitive DEF ConfirmCandidate, NoBlackhole
<1>7. CASE SaveIntent
  BY <1>7, <1>a, GotoPC, NotSensitive DEF SaveIntent, Sensitive, PCs, NoBlackhole
<1>8. CASE SelectCandidate
  <2>1. xr'.run = xr.run BY <1>8 DEF XrayOK, XrayProcess, SelectCandidate
  <2>2. job'.pc \notin Sensitive BY <1>8, <1>a, GotoPC DEF SelectCandidate, Sensitive, PCs
  <2> QED BY <1>8, <2>1, <2>2, NotSensitive DEF SelectCandidate, NoBlackhole
<1>9. CASE EnsureEgress
  BY <1>9, <1>a, GotoPC, NotSensitive DEF EnsureEgress, Sensitive, PCs, NoBlackhole
<1>10. CASE PersistSwitched
  BY <1>10, <1>a, GotoPC, NotSensitive DEF PersistSwitched, Sensitive, PCs, NoBlackhole
<1>11. CASE SaveSwitched
  <2>1. job'.pc \notin Sensitive BY <1>11, <1>a, GotoPC DEF SaveSwitched, Sensitive, PCs, Job
  <2> QED BY <1>11, <2>1, NotSensitive DEF SaveSwitched, NoBlackhole
<1>12. CASE UndoSelect
  <2>1. xr'.run = xr.run BY <1>12 DEF XrayOK, XrayProcess, UndoSelect
  <2>2. job'.pc \notin Sensitive BY <1>12, <1>a, GotoPC DEF UndoSelect, Sensitive, PCs
  <2> QED BY <1>12, <2>1, <2>2, NotSensitive DEF UndoSelect, NoBlackhole
<1>13. CASE PreserveConnection
  BY <1>13, <1>a, FailPC, NotSensitive DEF PreserveConnection, Sensitive, NoBlackhole
<1>14. CASE ApplyStatic
  <2>0. job.cand \in Node BY <1>14 DEF ApplyStatic, At, JobOK, JobShape, ApplyPCs
  <2>1. job'.pc \notin Sensitive BY <1>14, <1>a, FailPC DEF ApplyStatic, Sensitive, PCs, Job
  <2>2. ASSUME NEW r \in ApplyConfig(job.cand) PROVE r.xr.run \/ r.xr = xr
    BY <2>0, TagsDistinct DEF ApplyConfig, Started
  <2> QED BY <1>14, <2>1, <2>2, NotSensitive DEF ApplyStatic, NoBlackhole
<1>15. CASE VerifyStatic
  BY <1>15, <1>a, GotoPC, NotSensitive DEF VerifyStatic, Sensitive, PCs, NoBlackhole
<1>16. CASE PinReloaded
  <2>1. xr'.run = xr.run BY <1>16 DEF XrayOK, XrayProcess, PinReloaded
  <2>2. job'.pc \in {"dns", "rollback"} /\ (job'.pc = "dns" => xr.run)
    BY <1>16, <1>a, GotoPC DEF PinReloaded, PCs, Result
  <2>3. TransportOrder' BY <2>1, <2>2 DEF TransportOrder
  <2> QED BY <1>16, <2>1, <2>3 DEF PinReloaded, NoBlackhole
<1>17. CASE RollbackVerification
  <2>1. job'.pc \notin Sensitive BY <1>17, <1>a, FailPC DEF RollbackVerification, Sensitive
  <2>2. xr'.run \/ xr' = xr BY <1>17 DEF RollbackVerification, Started
  <2> QED BY <1>17, <2>1, <2>2, NotSensitive DEF RollbackVerification, NoBlackhole
<1>18. CASE ApplyDNS
  <2>1. xr.run BY <1>18 DEF ApplyDNS, At, TransportOrder
  <2>2. job'.pc = "firewall" BY <1>18, <1>a, GotoPC DEF ApplyDNS, CallOK, Result, PCs
  <2> QED BY <1>18, <2>1, <2>2 DEF ApplyDNS, NoBlackhole, TransportOrder
<1>19. CASE ApplyFirewall
  <2>1. xr.run BY <1>19 DEF ApplyFirewall, At, TransportOrder
  <2>2. job'.pc = "final" BY <1>19, <1>a, GotoPC DEF ApplyFirewall, CallOK, Result, PCs
  <2> QED BY <1>19, <2>1, <2>2 DEF ApplyFirewall, NoBlackhole, TransportOrder
<1>20. CASE CommitSelection
  <2>1. job'.pc \notin Sensitive BY <1>20, <1>a, FailPC DEF EndJob, CommitSelection, NoJob, Sensitive
  <2> QED BY <1>20, <2>1, NotSensitive DEF CommitSelection, NoBlackhole
<1>21. CASE DisableFirewall
  <2>1. job'.pc = "stopdns" BY <1>21, <1>a, GotoPC DEF DisableFirewall, CallOK, Result, PCs
  <2>2. ~fw' BY <1>21 DEF DisableFirewall, CallOK, Result, TransportOrder, At
  <2> QED BY <1>21, <2>1, <2>2 DEF DisableFirewall, NoBlackhole, TransportOrder
<1>22. CASE DisableDNS
  <2>1. job'.pc = "stopxray" BY <1>22, <1>a, GotoPC DEF DisableDNS, CallOK, Result, PCs
  <2>2. ~dns' /\ ~fw BY <1>22 DEF DisableDNS, CallOK, Result, TransportOrder, At
  <2> QED BY <1>22, <2>1, <2>2 DEF DisableDNS, NoBlackhole, TransportOrder
<1>23. CASE StopBackend
  <2>1. job'.pc = "stopped" BY <1>23, <1>a, GotoPC DEF StopBackend, CallOK, Result, PCs
  <2>2. ~fw /\ ~dns BY <1>23 DEF StopBackend, TransportOrder, At
  <2> QED BY <1>23, <2>1, <2>2 DEF StopBackend, NoBlackhole, TransportOrder
<1>24. CASE SaveStopped
  <2>1. job'.pc \notin Sensitive BY <1>24 DEF EndJob, SaveStopped, NoJob, Sensitive
  <2> QED BY <1>24, <2>1, NotSensitive DEF SaveStopped, NoBlackhole
<1>25. CASE FailOpenIntent
  <2>1. job'.pc \notin Sensitive BY <1>25, <1>a, GotoPC DEF EndJob, FailOpenIntent, NoJob, Sensitive, PCs
  <2> QED BY <1>25, <2>1, NotSensitive DEF FailOpenIntent, NoBlackhole
<1>26. CASE FailOpenSelect
  <2>1. xr'.run = xr.run BY <1>26 DEF XrayOK, XrayProcess, FailOpenSelect
  <2>2. job'.pc \notin Sensitive BY <1>26, <1>a, GotoPC DEF FailOpenSelect, Sensitive, PCs
  <2> QED BY <1>26, <2>1, <2>2, NotSensitive DEF FailOpenSelect, NoBlackhole
<1>27. CASE FailOpenPersist
  <2>1. xr'.run = xr.run BY <1>27 DEF XrayOK, XrayProcess, FailOpenPersist
  <2>2. job'.pc \notin Sensitive BY <1>27, <1>a, GotoPC DEF FailOpenPersist, Sensitive, PCs
  <2> QED BY <1>27, <2>1, <2>2, NotSensitive DEF FailOpenPersist, NoBlackhole
<1>28. CASE FailOpenFailed
  <2>1. job'.pc \notin Sensitive BY <1>28 DEF EndJob, FailOpenFailed, NoJob, Sensitive
  <2> QED BY <1>28, <2>1, NotSensitive DEF FailOpenFailed, NoBlackhole
<1>29. CASE FailOpenDone
  <2>1. job'.pc \notin Sensitive BY <1>29 DEF EndJob, FailOpenDone, NoJob, Sensitive
  <2> QED BY <1>29, <2>1, NotSensitive DEF FailOpenDone, NoBlackhole
<1>30. CASE RestoreRuntime
  <2>0. \/ Goto("restored") \/ EndJob(FALSE) \/ Goto("stopfw")
        \/ job' = ApplyJob("restore", st.node, st.mode, FALSE)
    BY <1>30 DEF RestoreRuntime
  <2>a. EndJob(FALSE) => job'.pc = "idle" BY EndJobPC
  <2>b. job' = ApplyJob("restore", st.node, st.mode, FALSE) => job'.pc = "pin" BY DEF ApplyJob, NoJob
  <2>c. \A p \in {"restored", "stopfw"} : Goto(p) => job'.pc = p BY <1>a, GotoPC DEF PCs
  <2>1. job'.pc \notin Sensitive BY <2>0, <2>a, <2>b, <2>c DEF Sensitive
  <2>2. xr'.run = xr.run BY <1>30 DEF XrayOK, XrayProcess, RestoreRuntime
  <2> QED BY <1>30, <2>1, <2>2, NotSensitive DEF RestoreRuntime, NoBlackhole
<1>31. CASE RestoreDirect
  <2>1. job'.pc \notin Sensitive BY <1>31 DEF EndJob, RestoreDirect, NoJob, Sensitive
  <2> QED BY <1>31, <2>1, NotSensitive DEF RestoreDirect, NoBlackhole
<1>32. CASE WatchStart
  BY <1>32 DEF WatchStart, NoBlackhole, TransportOrder
<1>33. CASE WatchNoReserve
  BY <1>33 DEF WatchNoReserve, NoBlackhole, TransportOrder
<1>34. CASE WatchRetry
  BY <1>34 DEF WatchRetry, NoBlackhole, TransportOrder
<1>35. CASE WatchDiscard
  BY <1>35 DEF WatchDiscard, NoBlackhole, TransportOrder
<1>36. CASE WatchNoCandidate
  BY <1>36 DEF WatchNoCandidate, NoBlackhole, TransportOrder
<1>37. CASE FallbackSnapshot
  BY <1>37 DEF FallbackSnapshot, NoBlackhole, TransportOrder
<1>38. CASE FailOpen
  <2>1. job'.pc \notin Sensitive BY <1>38 DEF FailOpen, StartJob, ApplyJob, NoJob, Sensitive
  <2> QED BY <1>38, <2>1, NotSensitive DEF FailOpen, StartJob, NoBlackhole
<1>39. CASE \E n \in Node, verified \in BOOLEAN : WatchCommit(n, verified)
  <2>1. job'.pc \notin Sensitive BY <1>39 DEF WatchCommit, StartJob, ApplyJob, NoJob, Sensitive
  <2> QED BY <1>39, <2>1, NotSensitive DEF WatchCommit, StartJob, NoBlackhole
<1>40. CASE StartDaemon
  <2>1. job'.pc \notin Sensitive BY <1>40 DEF StartDaemon, StartJob, ApplyJob, NoJob, Sensitive
  <2> QED BY <1>40, <2>1, NotSensitive DEF StartDaemon, StartJob, NoBlackhole
<1>41. CASE Disconnect
  <2>1. job'.pc \notin Sensitive BY <1>41 DEF Disconnect, StartJob, ApplyJob, NoJob, Sensitive
  <2> QED BY <1>41, <2>1, NotSensitive DEF Disconnect, StartJob, NoBlackhole
<1>42. CASE \E n \in Node, m \in UserModes : Connect(n, m)
  <2>1. job'.pc \notin Sensitive BY <1>42 DEF Connect, StartJob, ApplyJob, NoJob, Sensitive
  <2> QED BY <1>42, <2>1, NotSensitive DEF Connect, StartJob, NoBlackhole
<1>43. CASE \E n \in Node, status \in NodeStatus : NodeChanges(n, status)
  BY <1>43 DEF NodeChanges, NoBlackhole, TransportOrder
<1>44. CASE \E n \in Node : BackoffEnds(n)
  BY <1>44 DEF BackoffEnds, NoBlackhole, TransportOrder
<1>45. CASE XrayDies
  BY <1>45 DEF XrayDies
<1>46. CASE ClientDies
  BY <1>46 DEF ClientDies, NoJob, NoBlackhole, TransportOrder
<1>47. CASE DaemonDies
  BY <1>47 DEF DaemonDies, NoJob, NoBlackhole, TransportOrder
<1>48. CASE Reboot
  BY <1>48 DEF Reboot, NoJob, NoBlackhole, TransportOrder
<1>49. CASE UNCHANGED vars
  BY <1>49 DEF vars, NoBlackhole, TransportOrder
<1> QED
    BY <1>1, <1>2, <1>3, <1>4, <1>5, <1>6, <1>7, <1>8, <1>9, <1>10, <1>11, <1>12,
       <1>13, <1>14, <1>15, <1>16, <1>17, <1>18, <1>19, <1>20, <1>21, <1>22,
       <1>23, <1>24, <1>25, <1>26, <1>27, <1>28, <1>29, <1>30, <1>31, <1>32,
       <1>33, <1>34, <1>35, <1>36, <1>37, <1>38, <1>39, <1>40, <1>41, <1>42,
       <1>43, <1>44, <1>45, <1>46, <1>47, <1>48, <1>49
    DEF Next, JobStep, WatchStep

\* With calls that do not fail in a running Xray, no interleaving of operations,
\* no failed write and no crash leaves traffic or DNS handed to a stopped Xray.
THEOREM NoBlackholeTheorem == ASSUME ~ApiFaults PROVE Spec => []NoBlackhole
<1>1. TypeInv /\ NoBlackhole /\ TransportOrder /\ [Next]_vars
      => TypeInv' /\ NoBlackhole' /\ TransportOrder'
  BY StepType, BlackholeStep
<1> QED BY <1>1, InitType, BlackholeInit, PTL DEF Spec

-------------------------------------------------------------------------------
(* The life of a persisted intent. *)

\* The steps at which the state file may hold an intent.
IntentPCs == {"select", "egress", "persist", "switched", "undo", "preserve", "final",
              "foselect", "fopersist", "fofinal", "fofailed"}

\* An intent belongs to the operation in progress, which started without one.
IntentOwned == /\ InTransition(st) => job.pc \in IntentPCs
               /\ ~InTransition(job.old)

\* The default state holds no intent.
LEMMA DefaultSettled == ~InTransition(DefaultRuntimeState) /\ ~InTransition(NoJob.old)
BY DEF InTransition, DefaultRuntimeState, NoJob

\* A save that succeeds and has no intent to write leaves none.
LEMMA SaveSettled ==
    ASSUME ~SaveFaults, NEW s \in RuntimeStates, ~InTransition(s), NEW ok \in SaveOK, Save(s, ok)
    PROVE  ~InTransition(st')
<1>1. ok BY DEF SaveOK, Result
<1>2. st' = Saved(s) BY <1>1 DEF Save
<1> QED BY <1>2 DEF Saved, InTransition, LegacyOperationalMode, RuntimeStates

\* The next state has no intent, or a step that may hold one.
LEMMA OwnedBy ==
    ASSUME IntentOwned, job'.old \in {job.old, DefaultRuntimeState},
           ~InTransition(st') \/ job'.pc \in IntentPCs
    PROVE  IntentOwned'
BY DefaultSettled DEF IntentOwned

\* A router that is switched on holds no intent.
LEMMA IntentInit == Init => IntentOwned
BY DefaultSettled DEF Init, IntentOwned

\* An intent in the file belongs to the operation under the lock, after every step.
LEMMA IntentStep ==
    ASSUME ~SaveFaults, Deaths = {}, TypeInv, IntentOwned, [Next]_vars
    PROVE  IntentOwned'
<1> USE DEF TypeInv
<1>a. job \in Job /\ job.old \in RuntimeStates /\ st \in RuntimeStates BY DEF JobOK, FileOK, Job
<1>b. job.pc \notin IntentPCs => ~InTransition(st) BY DEF IntentOwned
<1>1. CASE ResolveFails
  <2>1. ~InTransition(st') BY <1>1, <1>b DEF ResolveFails, At, IntentPCs, file
  <2> QED BY <1>1, <1>a, <2>1, FailPC, OwnedBy DEF ResolveFails
<1>2. CASE PinCurrent
  <2>1. ~InTransition(st') BY <1>2, <1>b DEF PinCurrent, At, IntentPCs, file
  <2>2. job'.old = job.old BY <1>2, <1>a DEF PinCurrent, Goto, Job
  <2> QED BY <2>1, <2>2, OwnedBy
<1>3. CASE PrepareCandidate
  <2>1. ~InTransition(st') BY <1>3, <1>b DEF PrepareCandidate, At, IntentPCs, file
  <2>2. job'.old = job.old BY <1>3, <1>a DEF PrepareCandidate, Goto, Job
  <2> QED BY <2>1, <2>2, OwnedBy
<1>4. CASE PersistSame
  <2>1. ~InTransition(st') BY <1>4, <1>b DEF PersistSame, At, IntentPCs, file
  <2>2. job'.old = job.old BY <1>4, <1>a DEF PersistSame, Goto, Job
  <2> QED BY <2>1, <2>2, OwnedBy
<1>5. CASE ProbeCandidate
  <2>1. ~InTransition(st) BY <1>5, <1>b DEF ProbeCandidate, At, IntentPCs
  <2>2. job'.old = job.old BY <1>5, <1>a DEF ProbeCandidate, Probe, Goto, Job
  <2>3. st' = st \/ \E ok \in SaveOK : Save(st, ok) BY <1>5 DEF ProbeCandidate, Probe, file
  <2> QED BY <1>a, <2>1, <2>2, <2>3, SaveSettled, OwnedBy
<1>6. CASE ConfirmCandidate
  <2>1. ~InTransition(st) BY <1>6, <1>b DEF ConfirmCandidate, At, IntentPCs
  <2>2. job'.old = job.old BY <1>6, <1>a DEF ConfirmCandidate, Probe, Goto, Job
  <2>3. st' = st \/ \E ok \in SaveOK : Save(st, ok) BY <1>6 DEF ConfirmCandidate, Probe, file
  <2> QED BY <1>a, <2>1, <2>2, <2>3, SaveSettled, OwnedBy
<1>7. CASE SaveIntent
  BY <1>7, <1>a, OwnedBy DEF SaveIntent, Goto, Job, IntentPCs, SaveOK, Result
<1>8. CASE SelectCandidate
  BY <1>8, <1>a, OwnedBy DEF SelectCandidate, Goto, Job, IntentPCs
<1>9. CASE EnsureEgress
  BY <1>9, <1>a, OwnedBy DEF EnsureEgress, Goto, Job, IntentPCs
<1>10. CASE PersistSwitched
  BY <1>10, <1>a, OwnedBy DEF PersistSwitched, Goto, Job, IntentPCs
<1>11. CASE SaveSwitched
  BY <1>11, <1>a, OwnedBy DEF SaveSwitched, Goto, Job, IntentPCs
<1>12. CASE UndoSelect
  BY <1>12, <1>a, OwnedBy DEF UndoSelect, Goto, Job, IntentPCs
<1>13. CASE PreserveConnection
  <2>1. Preserved \in RuntimeStates /\ ~InTransition(Preserved)
    BY <1>a DEF Preserved, RuntimeStates, InTransition, OperationalMode, Operation, NoOperation
  <2>2. \E ok \in SaveOK : Save(Preserved, ok) BY <1>13 DEF PreserveConnection
  <2>3. ~InTransition(st') BY <2>1, <2>2, SaveSettled
  <2> QED BY <1>13, <1>a, <2>3, FailPC, OwnedBy DEF PreserveConnection
<1>14. CASE ApplyStatic
  <2>1. ~InTransition(st') BY <1>14, <1>b DEF ApplyStatic, At, IntentPCs, file
  <2>2. job'.old \in {job.old, DefaultRuntimeState} BY <1>14, <1>a, FailPC DEF ApplyStatic, Job
  <2> QED BY <2>1, <2>2, OwnedBy
<1>15. CASE VerifyStatic
  <2>1. ~InTransition(st') BY <1>15, <1>b DEF VerifyStatic, At, IntentPCs, file
  <2>2. job'.old = job.old BY <1>15, <1>a DEF VerifyStatic, Goto, Job
  <2> QED BY <2>1, <2>2, OwnedBy
<1>16. CASE PinReloaded
  <2>1. ~InTransition(st') BY <1>16, <1>b DEF PinReloaded, At, IntentPCs, file
  <2>2. job'.old = job.old BY <1>16, <1>a DEF PinReloaded, Goto, Job
  <2> QED BY <2>1, <2>2, OwnedBy
<1>17. CASE RollbackVerification
  <2>1. ~InTransition(st) BY <1>17, <1>b DEF RollbackVerification, At, IntentPCs
  <2>2. [st EXCEPT !.connected = TRUE] \in RuntimeStates /\ ~InTransition([st EXCEPT !.connected = TRUE])
    BY <1>a, <2>1 DEF RuntimeStates, InTransition
  <2>3. \E ok \in SaveOK : Save(st, ok) \/ Save([st EXCEPT !.connected = TRUE], ok)
    BY <1>17 DEF RollbackVerification
  <2>4. ~InTransition(st') BY <1>a, <2>1, <2>2, <2>3, SaveSettled
  <2>5. FailJob \/ SelectionFailed BY <1>17 DEF RollbackVerification
  <2> QED BY <1>a, <2>4, <2>5, FailPC, OwnedBy
<1>18. CASE ApplyDNS
  <2>1. ~InTransition(st') BY <1>18, <1>b DEF ApplyDNS, At, IntentPCs, file
  <2>2. job'.old \in {job.old, DefaultRuntimeState}
    BY <1>18, <1>a, FailPC DEF ApplyDNS, Goto, EndJob, NoJob, Job
  <2> QED BY <2>1, <2>2, OwnedBy
<1>19. CASE ApplyFirewall
  <2>1. ~InTransition(st') BY <1>19, <1>b DEF ApplyFirewall, At, IntentPCs, file
  <2>2. job'.old \in {job.old, DefaultRuntimeState}
    BY <1>19, <1>a, FailPC DEF ApplyFirewall, Goto, EndJob, NoJob, Job
  <2> QED BY <2>1, <2>2, OwnedBy
<1>20. CASE CommitSelection
  <2>1. job.cand \in Node BY <1>20 DEF CommitSelection, At, JobOK, JobShape, ApplyPCs
  <2>2. \E readback \in BOOLEAN, ok \in SaveOK : Save(Selection(readback), ok) BY <1>20 DEF CommitSelection, Result
  <2>3. ~InTransition(st') BY <2>1, <2>2, SelectionType, SaveSettled
  <2>4. job'.old \in {job.old, DefaultRuntimeState} BY <1>20, <1>a, FailPC DEF CommitSelection, EndJob, NoJob
  <2> QED BY <2>3, <2>4, OwnedBy
<1>21. CASE DisableFirewall
  <2>1. ~InTransition(st') BY <1>21, <1>b DEF DisableFirewall, At, IntentPCs, file
  <2>2. job'.old \in {job.old, DefaultRuntimeState}
    BY <1>21, <1>a, FailPC DEF DisableFirewall, Goto, EndJob, NoJob, Job
  <2> QED BY <2>1, <2>2, OwnedBy
<1>22. CASE DisableDNS
  <2>1. ~InTransition(st') BY <1>22, <1>b DEF DisableDNS, At, IntentPCs, file
  <2>2. job'.old \in {job.old, DefaultRuntimeState}
    BY <1>22, <1>a, FailPC DEF DisableDNS, Goto, EndJob, NoJob, Job
  <2> QED BY <2>1, <2>2, OwnedBy
<1>23. CASE StopBackend
  <2>1. ~InTransition(st') BY <1>23, <1>b DEF StopBackend, At, IntentPCs, file
  <2>2. job'.old \in {job.old, DefaultRuntimeState}
    BY <1>23, <1>a, FailPC DEF StopBackend, Goto, EndJob, NoJob, Job
  <2> QED BY <2>1, <2>2, OwnedBy
<1>24. CASE SaveStopped
  <2>1. ~InTransition(st) BY <1>24, <1>b DEF SaveStopped, At, IntentPCs
  <2>2. ASSUME NEW n \in Node \cup {None}, NEW m \in Mode
        PROVE  [Down EXCEPT !.node = n, !.mode = m] \in RuntimeStates /\ ~InTransition([Down EXCEPT !.node = n, !.mode = m])
    BY <1>a, <2>1 DEF Down, RuntimeStates, InTransition, Transport
  <2>3. Down \in RuntimeStates /\ ~InTransition(Down) BY <1>a, <2>1 DEF Down, RuntimeStates, InTransition, Transport
  <2>4. job.cand \in Node \cup {None} /\ job.mode \in Mode /\ "disconnected" \in Mode BY <1>a DEF Job, Mode
  <2>5. \E ok \in SaveOK : \/ Save([Down EXCEPT !.node = job.cand, !.mode = job.mode], ok)
                           \/ Save([Down EXCEPT !.node = None, !.mode = "disconnected"], ok)
                           \/ Save(Down, ok) \/ st' = st
    BY <1>24 DEF SaveStopped, file
  <2>6. ~InTransition(st') BY <2>1, <2>2, <2>3, <2>4, <2>5, SaveSettled
  <2>7. job' = NoJob BY <1>24 DEF SaveStopped, EndJob
  <2> QED BY <2>6, <2>7, OwnedBy DEF NoJob
<1>25. CASE FailOpenIntent
  <2>1. \E ok \in SaveOK : ok /\ Goto("foselect") BY <1>25 DEF FailOpenIntent, SaveOK, Result
  <2> QED BY <1>a, <2>1, OwnedBy DEF Goto, Job, IntentPCs
<1>26. CASE FailOpenSelect
  BY <1>26, <1>a, OwnedBy DEF FailOpenSelect, Goto, Job, IntentPCs
<1>27. CASE FailOpenPersist
  BY <1>27, <1>a, OwnedBy DEF FailOpenPersist, Goto, Job, IntentPCs
<1>28. CASE FailOpenFailed
  <2>1. [job.old EXCEPT !.cur = NoOperation] \in RuntimeStates /\ ~InTransition([job.old EXCEPT !.cur = NoOperation])
    BY <1>a DEF RuntimeStates, InTransition, IntentOwned, Operation, NoOperation
  <2>2. \E ok \in SaveOK : Save([job.old EXCEPT !.cur = NoOperation], ok) BY <1>28 DEF FailOpenFailed
  <2>3. ~InTransition(st') BY <2>1, <2>2, SaveSettled
  <2> QED BY <1>28, <2>3, OwnedBy DEF FailOpenFailed, EndJob, NoJob
<1>29. CASE FailOpenDone
  <2> DEFINE s == [job.old EXCEPT !.op = "direct", !.sel = Direct, !.cur = NoOperation,
                               !.managed = TRUE, !.connected = FALSE, !.transport = "direct"]
  <2>1. s \in RuntimeStates /\ ~InTransition(s)
    BY <1>a DEF RuntimeStates, InTransition, Operation, NoOperation, OperationalMode, Transport, Tag
  <2>2. \E ok \in SaveOK : Save(s, ok) /\ EndJob(ok) BY <1>29 DEF FailOpenDone
  <2> HIDE DEF s
  <2>3. ~InTransition(st') BY <2>1, <2>2, SaveSettled
  <2> QED BY <2>2, <2>3, OwnedBy DEF EndJob, NoJob
<1>30. CASE RestoreRuntime
  <2>1. ~InTransition(st) BY <1>30, <1>b DEF RestoreRuntime, At, IntentPCs
  <2>2. \/ Goto("restored") \/ EndJob(FALSE) \/ Goto("stopfw")
        \/ job' = ApplyJob("restore", st.node, st.mode, FALSE)
    BY <1>30 DEF RestoreRuntime
  <2>a. EndJob(FALSE) => ~InTransition(job'.old) BY DefaultSettled DEF EndJob
  <2>b. \A p : Goto(p) => ~InTransition(job'.old) BY <1>a DEF Goto, Job, IntentOwned
  <2>c. job' = ApplyJob("restore", st.node, st.mode, FALSE) => ~InTransition(job'.old)
    BY <1>a, <2>1 DEF ApplyJob, NoJob, RuntimeStates, InTransition
  <2>3. ~InTransition(job'.old) BY <2>2, <2>a, <2>b, <2>c
  <2> QED BY <1>30, <2>1, <2>3 DEF RestoreRuntime, IntentOwned, file
<1>31. CASE RestoreDirect
  <2>1. ~InTransition(st) BY <1>31, <1>b DEF RestoreDirect, At, IntentPCs
  <2> DEFINE s == [Down EXCEPT !.sel = Direct, !.cur = NoOperation]
  <2>2. s \in RuntimeStates /\ ~InTransition(s)
    BY <1>a, <2>1 DEF Down, RuntimeStates, InTransition, Operation, NoOperation, Transport, Tag
  <2>3. \E ok \in SaveOK : Save(s, ok) BY <1>31 DEF RestoreDirect
  <2> HIDE DEF s
  <2>4. ~InTransition(st') BY <2>2, <2>3, SaveSettled
  <2> QED BY <1>31, <2>4, OwnedBy DEF RestoreDirect, EndJob, NoJob
<1>32. CASE WatchStart
  BY <1>32 DEF WatchStart, IntentOwned, file
<1>33. CASE WatchNoReserve
  BY <1>33 DEF WatchNoReserve, IntentOwned, file
<1>34. CASE WatchRetry
  BY <1>34 DEF WatchRetry, IntentOwned, file
<1>35. CASE WatchDiscard
  BY <1>35 DEF WatchDiscard, IntentOwned, file
<1>36. CASE WatchNoCandidate
  BY <1>36 DEF WatchNoCandidate, IntentOwned, file
<1>37. CASE FallbackSnapshot
  BY <1>37 DEF FallbackSnapshot, IntentOwned, file
<1>38. CASE FailOpen
  <2>1. ~InTransition(st) BY <1>38, <1>b DEF FailOpen, StartJob, At, IntentPCs
  <2>2. ~InTransition(job'.old) 
    BY <1>38, <1>a, <2>1, DefaultSettled DEF FailOpen, StartJob, NoJob, ApplyJob, RuntimeStates, InTransition
  <2> QED BY <1>38, <2>1, <2>2 DEF FailOpen, StartJob, IntentOwned, file
<1>39. CASE \E n \in Node, verified \in BOOLEAN : WatchCommit(n, verified)
  <2>1. ~InTransition(st) BY <1>39, <1>b DEF WatchCommit, StartJob, At, IntentPCs
  <2>2. ~InTransition(job'.old) 
    BY <1>39, <1>a, <2>1, DefaultSettled DEF WatchCommit, StartJob, NoJob, ApplyJob, RuntimeStates, InTransition
  <2> QED BY <1>39, <2>1, <2>2 DEF WatchCommit, StartJob, IntentOwned, file
<1>40. CASE StartDaemon
  <2>1. ~InTransition(st) BY <1>40, <1>b DEF StartDaemon, StartJob, At, IntentPCs
  <2>2. ~InTransition(job'.old) 
    BY <1>40, <1>a, <2>1, DefaultSettled DEF StartDaemon, StartJob, NoJob, ApplyJob, RuntimeStates, InTransition
  <2> QED BY <1>40, <2>1, <2>2 DEF StartDaemon, StartJob, IntentOwned, file
<1>41. CASE Disconnect
  <2>1. ~InTransition(st) BY <1>41, <1>b DEF Disconnect, StartJob, At, IntentPCs
  <2>2. ~InTransition(job'.old) 
    BY <1>41, <1>a, <2>1, DefaultSettled DEF Disconnect, StartJob, NoJob, ApplyJob, RuntimeStates, InTransition
  <2> QED BY <1>41, <2>1, <2>2 DEF Disconnect, StartJob, IntentOwned, file
<1>42. CASE \E n \in Node, m \in UserModes : Connect(n, m)
  <2>1. ~InTransition(st) BY <1>42, <1>b DEF Connect, StartJob, At, IntentPCs
  <2>2. ~InTransition(job'.old) 
    BY <1>42, <1>a, <2>1, DefaultSettled DEF Connect, StartJob, NoJob, ApplyJob, RuntimeStates, InTransition
  <2> QED BY <1>42, <2>1, <2>2 DEF Connect, StartJob, IntentOwned, file
<1>43. CASE \E n \in Node, status \in NodeStatus : NodeChanges(n, status)
  BY <1>43 DEF NodeChanges, IntentOwned, file
<1>44. CASE \E n \in Node : BackoffEnds(n)
  BY <1>44 DEF BackoffEnds, IntentOwned, file
<1>45. CASE XrayDies
  BY <1>45 DEF XrayDies, IntentOwned, file
<1>46. CASE ClientDies
  BY <1>46 DEF ClientDies
<1>47. CASE DaemonDies
  BY <1>47 DEF DaemonDies
<1>48. CASE Reboot
  BY <1>48 DEF Reboot
<1>49. CASE UNCHANGED vars
  BY <1>49 DEF vars, IntentOwned
<1> QED
    BY <1>1, <1>2, <1>3, <1>4, <1>5, <1>6, <1>7, <1>8, <1>9, <1>10, <1>11, <1>12,
       <1>13, <1>14, <1>15, <1>16, <1>17, <1>18, <1>19, <1>20, <1>21, <1>22,
       <1>23, <1>24, <1>25, <1>26, <1>27, <1>28, <1>29, <1>30, <1>31, <1>32,
       <1>33, <1>34, <1>35, <1>36, <1>37, <1>38, <1>39, <1>40, <1>41, <1>42,
       <1>43, <1>44, <1>45, <1>46, <1>47, <1>48, <1>49
    DEF Next, JobStep, WatchStep

\* Every intent is cleared by the operation that wrote it, whatever call to the
\* runtime fails, if its saves succeed and its process lives.
THEOREM NoOrphanIntentTheorem ==
    ASSUME ~SaveFaults, Deaths = {} PROVE Spec => []NoOrphanIntent
<1>1. TypeInv /\ IntentOwned /\ [Next]_vars => TypeInv' /\ IntentOwned'
  BY StepType, IntentStep
<1>2. IntentOwned => NoOrphanIntent BY DEF IntentOwned, NoOrphanIntent, At, IntentPCs
<1> QED BY <1>1, <1>2, InitType, IntentInit, PTL DEF Spec

\* So the recovery watcher sees every selected connection whose Xray is down.
THEOREM RecoveryNotSuppressedTheorem ==
    ASSUME ~SaveFaults, Deaths = {} PROVE Spec => []RecoveryNotSuppressed
<1>1. NoOrphanIntent => RecoveryNotSuppressed
  BY DEF NoOrphanIntent, RecoveryNotSuppressed, RecoveryNeeded, RecoveryReason, At
<1> QED BY <1>1, NoOrphanIntentTheorem, PTL

-------------------------------------------------------------------------------
(* Where a switch has left the balancer. *)

\* From the pin to the end of a live switch Xray runs and there is a tag to return
\* to; except between the selection and its undo, it is the tag in force.
MovedPCs == {"egress", "persist", "switched", "undo"}
SwitchHeld == job.pc \in LivePCs =>
                /\ xr.run /\ FromTag # None
                /\ job.pc \notin MovedPCs => xr.target = FromTag

\* Nothing is asked of Xray while no live switch runs.
LEMMA HeldElsewhere == job'.pc \notin LivePCs => SwitchHeld'
BY DEF SwitchHeld

\* No live switch runs on a router that is switched on.
LEMMA HeldInit == Init => SwitchHeld
BY DEF Init, SwitchHeld, NoJob, LivePCs

\* A call to a running Xray succeeds.
LEMMA SelectWorks ==
    ASSUME ~ApiFaults, XrayOK, NEW tag \in Tag \cup {None}, NEW r \in SelectOutbound(tag)
    PROVE  /\ r.ok = xr.run
           /\ xr.run => [xr EXCEPT !.target = r.target] = [xr EXCEPT !.target = tag]
           /\ [xr EXCEPT !.target = tag].run = xr.run
           /\ [xr EXCEPT !.target = tag].target = tag
BY DEF SelectOutbound, Result, XrayOK, XrayProcess

\* A live switch keeps a running Xray, on the old outbound until it moves it.
LEMMA SwitchStep ==
    ASSUME ~ApiFaults, TypeInv, SwitchHeld, [Next]_vars
    PROVE  SwitchHeld'
<1> USE DEF TypeInv
<1>a. job \in Job BY DEF JobOK
<1>b. job.pc \in LivePCs => FromTag \in Tag BY DEF JobOK, JobShape, FromTag, Tag
<1>c. job'.dr = job.dr /\ job'.old = job.old => FromTag' = FromTag BY DEF FromTag
<1>1. CASE ResolveFails
  <2>1. job'.pc \notin LivePCs BY <1>1, <1>a, FailPC DEF ResolveFails, LivePCs
  <2> QED BY <2>1, HeldElsewhere
<1>2. CASE PinCurrent
  <2>1. FromTag' = FromTag BY <1>2, <1>a, <1>c DEF PinCurrent, Goto, Job
  <2>2. CASE Goto("static")
    <3>1. job'.pc = "static" BY <1>a, <2>2 DEF Goto, Job
    <3> QED BY <3>1, HeldElsewhere DEF LivePCs
  <2>3. CASE job.dr /\ \E r \in SelectOutbound(Direct) :
                          /\ xr' = [xr EXCEPT !.target = r.target]
                          /\ Goto(IF r.ok THEN "prepare" ELSE "static")
    <3> PICK r \in SelectOutbound(Direct) :
                          /\ xr' = [xr EXCEPT !.target = r.target]
                          /\ Goto(IF r.ok THEN "prepare" ELSE "static")
      BY <2>3
    <3>1. r.ok = xr.run /\ (xr.run => xr'.run /\ xr'.target = Direct) BY SelectWorks DEF Tag
    <3>2. job'.pc = IF r.ok THEN "prepare" ELSE "static" BY <1>a DEF Goto, Job
    <3>3. FromTag = Direct BY <2>3 DEF FromTag
    <3>4. CASE ~r.ok BY <3>2, <3>4, HeldElsewhere DEF LivePCs
    <3>5. CASE r.ok BY <2>1, <3>1, <3>2, <3>3, <3>5, TagsDistinct DEF SwitchHeld, MovedPCs
    <3> QED BY <3>4, <3>5, <3>1
  <2>4. CASE ~job.dr /\ job.old.node # None /\ xr.run /\ \E r \in SelectOutbound(job.old.node) :
                          /\ xr' = [xr EXCEPT !.target = r.target]
                          /\ Goto(IF r.ok THEN "prepare" ELSE "preserve")
    <3> PICK r \in SelectOutbound(job.old.node) :
                          /\ xr' = [xr EXCEPT !.target = r.target]
                          /\ Goto(IF r.ok THEN "prepare" ELSE "preserve")
      BY <2>4
    <3>0. job.old.node \in Tag BY <1>a, <2>4 DEF Job, RuntimeStates, Tag
    <3>a. xr.run BY <2>4
    <3>1. r.ok /\ xr'.run /\ xr'.target = job.old.node BY <3>a, <3>0, SelectWorks
    <3>2. job'.pc = "prepare" BY <1>a, <3>1 DEF Goto, Job
    <3>3. FromTag = job.old.node BY <2>4 DEF FromTag
    <3> QED BY <2>1, <2>4, <3>1, <3>2, <3>3 DEF SwitchHeld, MovedPCs
  <2> QED BY <1>2, <2>2, <2>3, <2>4 DEF PinCurrent, Result
<1>3. CASE PrepareCandidate
  <2>1. xr' = xr /\ job.pc \in LivePCs /\ job.pc \notin MovedPCs BY <1>3 DEF PrepareCandidate, At, LivePCs, MovedPCs
  <2>2. FromTag' = FromTag BY <1>3, <1>a, <1>c DEF PrepareCandidate, Goto, Probe, Job
  <2> QED BY <2>1, <2>2 DEF SwitchHeld
<1>4. CASE PersistSame
  <2>1. xr' = xr /\ job.pc \in LivePCs /\ job.pc \notin MovedPCs BY <1>4 DEF PersistSame, At, LivePCs, MovedPCs
  <2>2. FromTag' = FromTag BY <1>4, <1>a, <1>c DEF PersistSame, Goto, Probe, Job
  <2> QED BY <2>1, <2>2 DEF SwitchHeld
<1>5. CASE ProbeCandidate
  <2>1. xr' = xr /\ job.pc \in LivePCs /\ job.pc \notin MovedPCs BY <1>5 DEF ProbeCandidate, At, LivePCs, MovedPCs
  <2>2. FromTag' = FromTag BY <1>5, <1>a, <1>c DEF ProbeCandidate, Goto, Probe, Job
  <2> QED BY <2>1, <2>2 DEF SwitchHeld
<1>6. CASE ConfirmCandidate
  <2>1. xr' = xr /\ job.pc \in LivePCs /\ job.pc \notin MovedPCs BY <1>6 DEF ConfirmCandidate, At, LivePCs, MovedPCs
  <2>2. FromTag' = FromTag BY <1>6, <1>a, <1>c DEF ConfirmCandidate, Goto, Probe, Job
  <2> QED BY <2>1, <2>2 DEF SwitchHeld
<1>7. CASE SaveIntent
  <2>1. xr' = xr /\ job.pc \in LivePCs /\ job.pc \notin MovedPCs BY <1>7 DEF SaveIntent, At, LivePCs, MovedPCs
  <2>2. FromTag' = FromTag BY <1>7, <1>a, <1>c DEF SaveIntent, Goto, Probe, Job
  <2> QED BY <2>1, <2>2 DEF SwitchHeld
<1>8. CASE SelectCandidate
  <2>1. xr.run /\ FromTag # None /\ job.cand \in Tag
    BY <1>8 DEF SelectCandidate, At, SwitchHeld, LivePCs, JobOK, JobShape, ApplyPCs, Tag
  <2>2. FromTag' = FromTag BY <1>8, <1>a, <1>c DEF SelectCandidate, Goto, Job
  <2> PICK r \in SelectOutbound(job.cand) : /\ xr' = [xr EXCEPT !.target = r.target]
                                         /\ Goto(IF r.ok THEN "egress" ELSE "preserve")
    BY <1>8 DEF SelectCandidate
  <2>3. r.ok /\ xr'.run BY <2>1, SelectWorks
  <2>4. job'.pc = "egress" BY <1>a, <2>3 DEF Goto, Job
  <2> QED BY <2>1, <2>2, <2>3, <2>4 DEF SwitchHeld, MovedPCs
<1>9. CASE EnsureEgress
  <2>1. xr' = xr /\ xr.run /\ FromTag # None BY <1>9 DEF EnsureEgress, At, SwitchHeld, LivePCs
  <2>2. FromTag' = FromTag BY <1>9, <1>a, <1>c DEF EnsureEgress, Goto, Job
  <2>3. job'.pc \in MovedPCs \cup {"final"} BY <1>9, <1>a DEF EnsureEgress, Goto, Job, MovedPCs
  <2> QED BY <2>1, <2>2, <2>3 DEF SwitchHeld, LivePCs
<1>10. CASE PersistSwitched
  <2>1. xr' = xr /\ xr.run /\ FromTag # None BY <1>10 DEF PersistSwitched, At, SwitchHeld, LivePCs
  <2>2. FromTag' = FromTag BY <1>10, <1>a, <1>c DEF PersistSwitched, Goto, Job
  <2>3. job'.pc \in MovedPCs \cup {"final"} BY <1>10, <1>a DEF PersistSwitched, Goto, Job, MovedPCs
  <2> QED BY <2>1, <2>2, <2>3 DEF SwitchHeld, LivePCs
<1>11. CASE SaveSwitched
  <2>1. xr' = xr /\ xr.run /\ FromTag # None BY <1>11 DEF SaveSwitched, At, SwitchHeld, LivePCs
  <2>2. FromTag' = FromTag BY <1>11, <1>a, <1>c DEF SaveSwitched, Goto, Job
  <2>3. job'.pc \in MovedPCs \cup {"final"} BY <1>11, <1>a DEF SaveSwitched, Goto, Job, MovedPCs
  <2> QED BY <2>1, <2>2, <2>3 DEF SwitchHeld, LivePCs
<1>12. CASE UndoSelect
  <2>1. xr.run /\ FromTag \in Tag /\ FromTag # None
    BY <1>12, <1>b DEF UndoSelect, At, SwitchHeld, LivePCs
  <2>2. FromTag' = FromTag BY <1>12, <1>a, <1>c DEF UndoSelect, Goto, Job
  <2>3. xr'.run /\ xr'.target = FromTag BY <1>12, <2>1, SelectWorks DEF UndoSelect
  <2> QED BY <2>1, <2>2, <2>3 DEF SwitchHeld
<1>13. CASE PreserveConnection
  <2>1. job'.pc \notin LivePCs BY <1>13, <1>a, FailPC DEF PreserveConnection, LivePCs
  <2> QED BY <2>1, HeldElsewhere
<1>14. CASE ApplyStatic
  <2>1. job'.pc \notin LivePCs BY <1>14, <1>a, FailPC DEF ApplyStatic, LivePCs, Job
  <2> QED BY <2>1, HeldElsewhere
<1>15. CASE VerifyStatic
  <2>1. job'.pc \notin LivePCs BY <1>15, <1>a DEF VerifyStatic, Goto, EndJob, NoJob, Job, LivePCs
  <2> QED BY <2>1, HeldElsewhere
<1>16. CASE PinReloaded
  <2>1. job'.pc \notin LivePCs BY <1>16, <1>a DEF PinReloaded, Goto, EndJob, NoJob, Job, LivePCs
  <2> QED BY <2>1, HeldElsewhere
<1>17. CASE RollbackVerification
  <2>1. job'.pc \notin LivePCs BY <1>17, <1>a, FailPC DEF RollbackVerification, LivePCs
  <2> QED BY <2>1, HeldElsewhere
<1>18. CASE ApplyDNS
  <2>1. job'.pc \notin LivePCs BY <1>18, <1>a, FailPC DEF ApplyDNS, Goto, EndJob, NoJob, Job, LivePCs
  <2> QED BY <2>1, HeldElsewhere
<1>19. CASE ApplyFirewall
  <2>1. job'.pc \notin LivePCs BY <1>19, <1>a, FailPC DEF ApplyFirewall, Goto, EndJob, NoJob, Job, LivePCs
  <2> QED BY <2>1, HeldElsewhere
<1>20. CASE CommitSelection
  <2>1. job'.pc \notin LivePCs BY <1>20, <1>a, FailPC DEF CommitSelection, Goto, EndJob, NoJob, Job, LivePCs
  <2> QED BY <2>1, HeldElsewhere
<1>21. CASE DisableFirewall
  <2>1. job'.pc \notin LivePCs BY <1>21, <1>a DEF DisableFirewall, Goto, EndJob, NoJob, Job, LivePCs
  <2> QED BY <2>1, HeldElsewhere
<1>22. CASE DisableDNS
  <2>1. job'.pc \notin LivePCs BY <1>22, <1>a DEF DisableDNS, Goto, EndJob, NoJob, Job, LivePCs
  <2> QED BY <2>1, HeldElsewhere
<1>23. CASE StopBackend
  <2>1. job'.pc \notin LivePCs BY <1>23, <1>a DEF StopBackend, Goto, EndJob, NoJob, Job, LivePCs
  <2> QED BY <2>1, HeldElsewhere
<1>24. CASE SaveStopped
  <2>1. job'.pc \notin LivePCs BY <1>24, <1>a DEF SaveStopped, Goto, EndJob, NoJob, Job, LivePCs
  <2> QED BY <2>1, HeldElsewhere
<1>25. CASE FailOpenIntent
  <2>1. job'.pc \notin LivePCs BY <1>25, <1>a DEF FailOpenIntent, Goto, EndJob, NoJob, Job, LivePCs
  <2> QED BY <2>1, HeldElsewhere
<1>26. CASE FailOpenSelect
  <2>1. job'.pc \notin LivePCs BY <1>26, <1>a DEF FailOpenSelect, Goto, EndJob, NoJob, Job, LivePCs
  <2> QED BY <2>1, HeldElsewhere
<1>27. CASE FailOpenPersist
  <2>1. job'.pc \notin LivePCs BY <1>27, <1>a DEF FailOpenPersist, Goto, EndJob, NoJob, Job, LivePCs
  <2> QED BY <2>1, HeldElsewhere
<1>28. CASE FailOpenFailed
  <2>1. job'.pc \notin LivePCs BY <1>28, <1>a DEF FailOpenFailed, Goto, EndJob, NoJob, Job, LivePCs
  <2> QED BY <2>1, HeldElsewhere
<1>29. CASE FailOpenDone
  <2>1. job'.pc \notin LivePCs BY <1>29, <1>a DEF FailOpenDone, Goto, EndJob, NoJob, Job, LivePCs
  <2> QED BY <2>1, HeldElsewhere
<1>30. CASE RestoreRuntime
  <2>1. \/ Goto("restored") \/ EndJob(FALSE) \/ Goto("stopfw")
        \/ job' = ApplyJob("restore", st.node, st.mode, FALSE)
    BY <1>30 DEF RestoreRuntime
  <2>a. EndJob(FALSE) => job'.pc = "idle" BY EndJobPC
  <2>b. job' = ApplyJob("restore", st.node, st.mode, FALSE) => job'.pc = "pin" BY DEF ApplyJob, NoJob
  <2>c. \A p \in {"restored", "stopfw"} : Goto(p) => job'.pc = p BY <1>a, GotoPC DEF PCs
  <2>2. job'.pc \notin LivePCs BY <2>1, <2>a, <2>b, <2>c DEF LivePCs
  <2> QED BY <2>2, HeldElsewhere
<1>31. CASE RestoreDirect
  <2>1. job'.pc \notin LivePCs BY <1>31, <1>a DEF RestoreDirect, Goto, EndJob, NoJob, Job, LivePCs
  <2> QED BY <2>1, HeldElsewhere
<1>32. CASE WatchStart
  BY <1>32 DEF WatchStart, SwitchHeld, FromTag
<1>33. CASE WatchNoReserve
  BY <1>33 DEF WatchNoReserve, SwitchHeld, FromTag
<1>34. CASE WatchRetry
  BY <1>34 DEF WatchRetry, SwitchHeld, FromTag
<1>35. CASE WatchDiscard
  BY <1>35 DEF WatchDiscard, SwitchHeld, FromTag
<1>36. CASE WatchNoCandidate
  BY <1>36 DEF WatchNoCandidate, SwitchHeld, FromTag
<1>37. CASE FallbackSnapshot
  BY <1>37 DEF FallbackSnapshot, SwitchHeld, FromTag
<1>38. CASE FailOpen
  <2>1. job'.pc \notin LivePCs BY <1>38, <1>a DEF FailOpen, StartJob, ApplyJob, NoJob, LivePCs
  <2> QED BY <2>1, HeldElsewhere
<1>39. CASE \E n \in Node, verified \in BOOLEAN : WatchCommit(n, verified)
  <2>1. job'.pc \notin LivePCs BY <1>39, <1>a DEF WatchCommit, StartJob, ApplyJob, NoJob, LivePCs
  <2> QED BY <2>1, HeldElsewhere
<1>40. CASE StartDaemon
  <2>1. job'.pc \notin LivePCs BY <1>40, <1>a DEF StartDaemon, StartJob, ApplyJob, NoJob, LivePCs
  <2> QED BY <2>1, HeldElsewhere
<1>41. CASE Disconnect
  <2>1. job'.pc \notin LivePCs BY <1>41, <1>a DEF Disconnect, StartJob, ApplyJob, NoJob, LivePCs
  <2> QED BY <2>1, HeldElsewhere
<1>42. CASE \E n \in Node, m \in UserModes : Connect(n, m)
  <2>1. job'.pc \notin LivePCs BY <1>42, <1>a DEF Connect, StartJob, ApplyJob, NoJob, LivePCs
  <2> QED BY <2>1, HeldElsewhere
<1>43. CASE \E n \in Node, status \in NodeStatus : NodeChanges(n, status)
  BY <1>43 DEF NodeChanges, SwitchHeld, FromTag
<1>44. CASE \E n \in Node : BackoffEnds(n)
  BY <1>44 DEF BackoffEnds, SwitchHeld, FromTag
<1>45. CASE XrayDies
  BY <1>45 DEF XrayDies
<1>46. CASE ClientDies
  <2>1. job'.pc \notin LivePCs BY <1>46, <1>a DEF ClientDies, NoJob, LivePCs
  <2> QED BY <2>1, HeldElsewhere
<1>47. CASE DaemonDies
  BY <1>47, HeldElsewhere DEF DaemonDies, NoJob, LivePCs, SwitchHeld, FromTag
<1>48. CASE Reboot
  <2>1. job'.pc \notin LivePCs BY <1>48, <1>a DEF Reboot, NoJob, LivePCs
  <2> QED BY <2>1, HeldElsewhere
<1>49. CASE UNCHANGED vars
  BY <1>49 DEF vars, SwitchHeld, FromTag
<1> QED
    BY <1>1, <1>2, <1>3, <1>4, <1>5, <1>6, <1>7, <1>8, <1>9, <1>10, <1>11, <1>12,
       <1>13, <1>14, <1>15, <1>16, <1>17, <1>18, <1>19, <1>20, <1>21, <1>22,
       <1>23, <1>24, <1>25, <1>26, <1>27, <1>28, <1>29, <1>30, <1>31, <1>32,
       <1>33, <1>34, <1>35, <1>36, <1>37, <1>38, <1>39, <1>40, <1>41, <1>42,
       <1>43, <1>44, <1>45, <1>46, <1>47, <1>48, <1>49
    DEF Next, JobStep, WatchStep

\* Whatever write fails and whoever is killed, a live switch that did not succeed
\* has traffic on its old outbound when the old selection is written back, if
\* calls to a running Xray succeed.
THEOREM FailedSwitchReturnsTheorem ==
    ASSUME ~ApiFaults PROVE Spec => []FailedSwitchReturns
<1>1. TypeInv /\ SwitchHeld /\ [Next]_vars => TypeInv' /\ SwitchHeld'
  BY StepType, SwitchStep
<1>2. SwitchHeld => FailedSwitchReturns
  BY DEF SwitchHeld, FailedSwitchReturns, At, Route, LivePCs, MovedPCs
<1> QED BY <1>1, <1>2, InitType, HeldInit, PTL DEF Spec

-------------------------------------------------------------------------------
(* The return from the direct outbound. *)

\* A live switch that returns from direct has probed its candidate twice by the time
\* it writes its intent, and an intent names the outbound that its operation leaves.
ReturnOrder ==
    /\ job.pc \in {"intent", "select"} /\ job.dr => job.probes = 2
    /\ job.pc \in {"select"} \cup MovedPCs => st.cur.from = FromTag
    /\ job.pc \in {"foselect", "fopersist"} => st.cur.from = job.old.sel

OrderedPCs == {"intent", "select", "egress", "persist", "switched", "undo", "foselect", "fopersist"}

\* Nothing is asked of the order outside these steps.
LEMMA OrderElsewhere == job'.pc \notin OrderedPCs => ReturnOrder'
BY DEF ReturnOrder, OrderedPCs, MovedPCs

\* Only the steps of a switch and of a fail-open lead to them.
LEMMA LeadsElsewhere ==
    ASSUME TypeInv, [Next]_vars
    PROVE  \/ PrepareCandidate \/ ProbeCandidate \/ ConfirmCandidate \/ SaveIntent \/ SelectCandidate
           \/ EnsureEgress \/ PersistSwitched \/ SaveSwitched \/ FailOpenIntent \/ FailOpenSelect
           \/ job'.pc \notin OrderedPCs
           \/ UNCHANGED <<st, job>>
<1>a. job \in Job BY DEF TypeInv, JobOK
<1>b. \A pc \in PCs : Goto(pc) => job'.pc = pc BY <1>a, GotoPC
<1>c. \A success \in BOOLEAN : EndJob(success) => job'.pc = "idle" BY EndJobPC
<1>d. FailJob \/ SelectionFailed => job'.pc \notin OrderedPCs BY <1>a, FailPC DEF OrderedPCs
<1>e. NoJob.pc = "idle" BY DEF NoJob
<1> USE DEF OrderedPCs
<1>1. CASE ResolveFails BY <1>1, <1>d DEF ResolveFails
<1>2. CASE PinCurrent BY <1>2, <1>b DEF PinCurrent, PCs
<1>3. CASE PersistSame BY <1>3, <1>a, <1>b DEF PersistSame, PCs, Job
<1>4. CASE UndoSelect BY <1>4, <1>b DEF UndoSelect, PCs
<1>5. CASE PreserveConnection BY <1>5, <1>d DEF PreserveConnection
<1>6. CASE ApplyStatic BY <1>6, <1>a, <1>d DEF ApplyStatic, Job
<1>7. CASE VerifyStatic BY <1>7, <1>b DEF VerifyStatic, PCs
<1>8. CASE PinReloaded BY <1>8, <1>b DEF PinReloaded, PCs
<1>9. CASE RollbackVerification BY <1>9, <1>d DEF RollbackVerification
<1>10. CASE ApplyDNS BY <1>10, <1>b, <1>d DEF ApplyDNS, PCs
<1>11. CASE ApplyFirewall BY <1>11, <1>b, <1>d DEF ApplyFirewall, PCs
<1>12. CASE CommitSelection
  <2>1. FailJob \/ \E success \in BOOLEAN : EndJob(success) BY <1>12 DEF CommitSelection
  <2> QED BY <2>1, <1>c, <1>d
<1>13. CASE DisableFirewall BY <1>13, <1>b, <1>c DEF DisableFirewall, PCs
<1>14. CASE DisableDNS BY <1>14, <1>b, <1>c DEF DisableDNS, PCs
<1>15. CASE StopBackend BY <1>15, <1>b, <1>c DEF StopBackend, PCs
<1>16. CASE SaveStopped
  <2>1. job' = NoJob BY <1>16 DEF SaveStopped, EndJob
  <2> QED BY <1>e, <2>1
<1>17. CASE FailOpenPersist BY <1>17, <1>b DEF FailOpenPersist, PCs
<1>18. CASE FailOpenFailed BY <1>18, <1>c DEF FailOpenFailed
<1>19. CASE FailOpenDone
  <2>1. job' = NoJob BY <1>19 DEF FailOpenDone, EndJob
  <2> QED BY <1>e, <2>1
<1>20. CASE RestoreRuntime
  <2>1. \/ Goto("restored") \/ EndJob(FALSE) \/ Goto("stopfw")
        \/ job' = ApplyJob("restore", st.node, st.mode, FALSE)
    BY <1>20 DEF RestoreRuntime
  <2>2. job' = ApplyJob("restore", st.node, st.mode, FALSE) => job'.pc = "pin" BY DEF ApplyJob, NoJob
  <2> QED BY <1>b, <1>c, <2>1, <2>2 DEF PCs
<1>21. CASE RestoreDirect BY <1>21, <1>c DEF RestoreDirect
<1>22. CASE WatchStart \/ WatchNoReserve \/ WatchRetry \/ WatchDiscard \/ WatchNoCandidate \/ FallbackSnapshot
  BY <1>22 DEF WatchStart, WatchNoReserve, WatchRetry, WatchDiscard, WatchNoCandidate, FallbackSnapshot, file
<1>23. CASE FailOpen BY <1>23 DEF FailOpen, StartJob, NoJob
<1>24. CASE \E n \in Node, verified \in BOOLEAN : WatchCommit(n, verified)
  BY <1>24 DEF WatchCommit, StartJob, ApplyJob, NoJob
<1>25. CASE StartDaemon \/ Disconnect BY <1>25 DEF StartDaemon, Disconnect, StartJob, NoJob
<1>26. CASE \E n \in Node, m \in UserModes : Connect(n, m) BY <1>26 DEF Connect, StartJob, ApplyJob, NoJob
<1>27. CASE (\E n \in Node, status \in NodeStatus : NodeChanges(n, status)) \/ XrayDies
  BY <1>27 DEF NodeChanges, XrayDies, file
<1>28. CASE \E n \in Node : BackoffEnds(n) BY <1>28 DEF BackoffEnds, file
<1>29. CASE ClientDies \/ DaemonDies \/ Reboot
  BY <1>29, <1>e DEF ClientDies, DaemonDies, Reboot, file
<1>30. CASE UNCHANGED vars BY <1>30 DEF vars
<1> QED
    BY <1>1, <1>2, <1>3, <1>4, <1>5, <1>6, <1>7, <1>8, <1>9, <1>10, <1>11, <1>12, <1>13,
       <1>14, <1>15, <1>16, <1>17, <1>18, <1>19, <1>20, <1>21, <1>22, <1>23, <1>24, <1>25,
       <1>26, <1>27, <1>28, <1>29, <1>30
    DEF Next, JobStep, WatchStep

\* Every step keeps the order.
LEMMA OrderStep ==
    ASSUME TypeInv, ReturnOrder, [Next]_vars
    PROVE  ReturnOrder'
<1> USE DEF TypeInv
<1>a. job \in Job /\ st \in RuntimeStates BY DEF JobOK, FileOK
<1>b. \A pc \in PCs : Goto(pc) => /\ job'.pc = pc /\ job'.cand = job.cand
                                  /\ job'.old = job.old /\ job'.dr = job.dr /\ job'.probes = job.probes
  BY <1>a DEF Goto, Job
<1>c. job'.dr = job.dr /\ job'.old = job.old => FromTag' = FromTag BY DEF FromTag
<1>1. CASE PrepareCandidate
  <2>1. job'.pc \in {"preserve", "same", "probe"} \/ (job'.pc = "intent" /\ ~job'.dr)
    BY <1>1, <1>b DEF PrepareCandidate, PCs
  <2> QED BY <2>1 DEF ReturnOrder, MovedPCs
<1>2. CASE ProbeCandidate
  <2>1. job'.pc \in {"preserve", "confirm"} \/ (job'.pc = "intent" /\ ~job'.dr)
    BY <1>2, <1>a, <1>b, ZenonT(60) DEF ProbeCandidate, Probe, PCs, Job
  <2> QED BY <2>1 DEF ReturnOrder, MovedPCs
<1>3. CASE ConfirmCandidate
  <2>1. job.probes = 1 BY <1>3 DEF ConfirmCandidate, At, JobOK, JobShape
  <2>2. CASE Goto("preserve")
    <3>1. job'.pc = "preserve" BY <1>b, <2>2 DEF PCs
    <3> QED BY <3>1 DEF ReturnOrder, MovedPCs
  <2>3. CASE job' = [job EXCEPT !.pc = "intent", !.probes = @ + 1]
    <3>1. job'.pc = "intent" /\ job'.probes = job.probes + 1 BY <1>a, <2>3 DEF Job
    <3>2. job'.probes = 2 BY <2>1, <3>1
    <3> QED BY <3>1, <3>2 DEF ReturnOrder, MovedPCs
  <2> QED BY <1>3, <2>2, <2>3 DEF ConfirmCandidate, Probe
<1>4. CASE SaveIntent
  <2>1. PICK ok \in SaveOK : Save(SwitchIntent, ok) /\ Goto(IF ok THEN "select" ELSE "preserve")
    BY <1>4 DEF SaveIntent
  <2>2. CASE ok
    <3>1. job'.pc = "select" /\ job'.dr = job.dr /\ job'.probes = job.probes /\ FromTag' = FromTag
      BY <1>b, <1>c, <2>1, <2>2 DEF PCs
    <3>2. SwitchIntent.op = "recovering" /\ SwitchIntent.cur.from = FromTag
      BY <1>a DEF SwitchIntent, Job, RuntimeStates
    <3>3. st'.cur.from = FromTag BY <2>1, <2>2, <3>2 DEF Save, Saved
    <3> QED BY <1>4, <3>1, <3>3 DEF SaveIntent, At, ReturnOrder
  <2>3. CASE ~ok
    <3>1. job'.pc = "preserve" BY <1>b, <2>1, <2>3 DEF PCs
    <3> QED BY <3>1, OrderElsewhere DEF OrderedPCs
  <2> QED BY <2>2, <2>3
<1>5. CASE SelectCandidate \/ EnsureEgress \/ PersistSwitched
  <2>1. job.pc \in {"select"} \cup MovedPCs /\ st' = st
    BY <1>5 DEF SelectCandidate, EnsureEgress, PersistSwitched, At, MovedPCs, file
  <2>2. job'.pc \in MovedPCs \cup {"preserve"} /\ FromTag' = FromTag
    BY <1>5, <1>b, <1>c DEF SelectCandidate, EnsureEgress, PersistSwitched, MovedPCs, PCs
  <2> QED BY <2>1, <2>2 DEF ReturnOrder, MovedPCs
<1>6. CASE SaveSwitched
  <2>1. PICK ok \in SaveOK : /\ Save(SwitchIntent, ok)
                             /\ IF ok THEN job' = [job EXCEPT !.pc = "final", !.live = TRUE] ELSE Goto("undo")
    BY <1>6 DEF SaveSwitched
  <2>2. CASE ok
    <3>1. job'.pc = "final" BY <1>a, <2>1, <2>2 DEF Job
    <3> QED BY <3>1, OrderElsewhere DEF OrderedPCs
  <2>3. CASE ~ok
    <3>1. job'.pc = "undo" /\ FromTag' = FromTag /\ st' = st
      BY <1>b, <1>c, <2>1, <2>3 DEF PCs, Save
    <3> QED BY <1>6, <3>1 DEF SaveSwitched, At, ReturnOrder, MovedPCs
  <2> QED BY <2>2, <2>3
<1>7. CASE FailOpenIntent
  <2> DEFINE s == [job.old EXCEPT !.op = "recovering", !.managed = TRUE,
                                  !.cur = [kind |-> "fail_open", from |-> job.old.sel, to |-> Direct]]
  <2>1. PICK ok \in SaveOK : Save(s, ok) /\ IF ok THEN Goto("foselect") ELSE EndJob(FALSE)
    BY <1>7 DEF FailOpenIntent
  <2>2. CASE ok
    <3>1. job'.pc = "foselect" /\ job'.old = job.old BY <1>b, <2>1, <2>2 DEF PCs
    <3>2. s.op = "recovering" /\ s.cur.from = job.old.sel BY <1>a DEF Job, RuntimeStates
    <3>3. st'.cur.from = job.old.sel BY <2>1, <2>2, <3>2 DEF Save, Saved
    <3> QED BY <3>1, <3>3 DEF ReturnOrder, MovedPCs
  <2>3. CASE ~ok
    <3>1. job'.pc = "idle" BY <2>1, <2>3, EndJobPC
    <3> QED BY <3>1, OrderElsewhere DEF OrderedPCs
  <2> QED BY <2>2, <2>3
<1>8. CASE FailOpenSelect
  <2>1. job'.pc \in {"fopersist", "fofailed"} /\ job'.old = job.old /\ st' = st /\ job.pc = "foselect"
    BY <1>8, <1>b DEF FailOpenSelect, PCs, file, At
  <2> QED BY <2>1 DEF ReturnOrder, MovedPCs
<1>9. CASE job'.pc \notin OrderedPCs BY <1>9, OrderElsewhere
<1>10. CASE UNCHANGED <<st, job>> BY <1>10 DEF ReturnOrder, FromTag
<1> QED BY <1>1, <1>2, <1>3, <1>4, <1>5, <1>6, <1>7, <1>8, <1>9, <1>10, LeadsElsewhere

\* Within an intent only four calls move the balancer, and the Xray process may die.
LEMMA MovesRoute ==
    ASSUME Deaths = {}, TypeInv, [Next]_vars, job.pc \in IntentPCs
    PROVE  \/ SelectCandidate \/ UndoSelect \/ FailOpenSelect \/ FailOpenPersist
           \/ xr' = Stopped \/ UNCHANGED xr
<1>1. ~PinCurrent BY DEF PinCurrent, At, IntentPCs
<1>2. ~ApplyStatic /\ ~PinReloaded /\ ~RollbackVerification
  BY DEF ApplyStatic, PinReloaded, RollbackVerification, At, IntentPCs
<1>3. ~StopBackend /\ ~RestoreRuntime BY DEF StopBackend, RestoreRuntime, At, IntentPCs
<1>4. ~ClientDies /\ ~DaemonDies /\ ~Reboot BY DEF ClientDies, DaemonDies, Reboot
<1>5. CASE ResolveFails \/ PrepareCandidate \/ PersistSame \/ ProbeCandidate \/ ConfirmCandidate
           \/ SaveIntent \/ EnsureEgress \/ PersistSwitched \/ SaveSwitched \/ PreserveConnection
  BY <1>5 DEF ResolveFails, PrepareCandidate, PersistSame, ProbeCandidate, ConfirmCandidate,
       SaveIntent, EnsureEgress, PersistSwitched, SaveSwitched, PreserveConnection
<1>6. CASE VerifyStatic \/ ApplyDNS \/ ApplyFirewall \/ CommitSelection \/ DisableFirewall \/ DisableDNS
           \/ SaveStopped \/ FailOpenIntent \/ FailOpenFailed \/ FailOpenDone \/ RestoreDirect
  BY <1>6 DEF VerifyStatic, ApplyDNS, ApplyFirewall, CommitSelection, DisableFirewall, DisableDNS,
       SaveStopped, FailOpenIntent, FailOpenFailed, FailOpenDone, RestoreDirect
<1>7. CASE WatchStart \/ WatchNoReserve \/ WatchRetry \/ WatchDiscard \/ WatchNoCandidate \/ FallbackSnapshot
  BY <1>7 DEF WatchStart, WatchNoReserve, WatchRetry, WatchDiscard, WatchNoCandidate, FallbackSnapshot
<1>8. CASE FailOpen \/ StartDaemon \/ Disconnect \/ (\E n \in Node, verified \in BOOLEAN : WatchCommit(n, verified))
           \/ (\E n \in Node, m \in UserModes : Connect(n, m))
  BY <1>8 DEF FailOpen, StartDaemon, Disconnect, WatchCommit, Connect, StartJob
<1>9. CASE (\E n \in Node, status \in NodeStatus : NodeChanges(n, status)) \/ (\E n \in Node : BackoffEnds(n))
  BY <1>9 DEF NodeChanges, BackoffEnds
<1>10. CASE XrayDies BY <1>10 DEF XrayDies
<1>11. CASE UNCHANGED vars BY <1>11 DEF vars
<1> QED
    BY <1>1, <1>2, <1>3, <1>4, <1>5, <1>6, <1>7, <1>8, <1>9, <1>10, <1>11 DEF Next, JobStep, WatchStep

\* Whatever call to the runtime fails, a switch recorded as leaving the direct outbound
\* moves traffic to a node only after two successful probes of it, if saves succeed
\* and no process dies.
THEOREM ReturnConfirmedTheorem ==
    ASSUME ~SaveFaults, Deaths = {} PROVE Spec => ReturnConfirmed
<1>1. Init => ReturnOrder BY DEF Init, ReturnOrder, NoJob, MovedPCs
<1>2. TypeInv /\ IntentOwned /\ ReturnOrder /\ [Next]_vars => (TypeInv /\ IntentOwned /\ ReturnOrder)'
  BY StepType, IntentStep, OrderStep
<1>3. ASSUME TypeInv, IntentOwned, ReturnOrder, [Next]_vars,
             st.cur.from = Direct, Route = Direct, Route' \in Node
      PROVE  job.probes = 2
  <2>a. job.pc \in IntentPCs
    BY <1>3, TagsDistinct DEF IntentOwned, InTransition, NoOperation
  <2>b. xr.run /\ xr \in XrayProcess /\ job \in Job
    BY <1>3, TagsDistinct DEF Route, TypeInv, XrayOK, JobOK
  <2>c. \A t \in {xr.target, Direct} : xr' = [xr EXCEPT !.target = t] => Route' = Direct
    BY <1>3, <2>b, TagsDistinct DEF Route, XrayProcess
  <2>1. CASE SelectCandidate
    <3>1. job.pc = "select" /\ FromTag = Direct BY <1>3, <2>1 DEF SelectCandidate, At, ReturnOrder
    <3>2. job.old.node # Direct BY <2>b, TagsDistinct DEF Job, RuntimeStates
    <3>3. job.dr BY <3>1, <3>2 DEF FromTag
    <3> QED BY <1>3, <3>1, <3>3 DEF ReturnOrder
  <2>2. CASE UndoSelect
    <3>1. FromTag = Direct BY <1>3, <2>2 DEF UndoSelect, At, ReturnOrder, MovedPCs
    <3>2. \E t \in {xr.target, Direct} : xr' = [xr EXCEPT !.target = t]
      BY <2>2, <3>1 DEF UndoSelect, SelectOutbound
    <3> QED BY <1>3, <2>c, <3>2, TagsDistinct
  <2>3. CASE FailOpenSelect
    <3>1. \E t \in {xr.target, Direct} : xr' = [xr EXCEPT !.target = t]
      BY <2>3 DEF FailOpenSelect, SelectOutbound
    <3> QED BY <1>3, <2>c, <3>1, TagsDistinct
  <2>4. CASE FailOpenPersist
    <3>1. job.old.sel = Direct BY <1>3, <2>4 DEF FailOpenPersist, At, ReturnOrder
    <3>2. xr' = xr \/ \E t \in {xr.target, Direct} : xr' = [xr EXCEPT !.target = t]
      BY <2>4, <3>1 DEF FailOpenPersist, SelectOutbound
    <3>3. xr' = xr => Route' = Route BY DEF Route
    <3> QED BY <1>3, <2>c, <3>2, <3>3, TagsDistinct
  <2>5. CASE xr' = Stopped \/ UNCHANGED xr
    BY <1>3, <2>5, TagsDistinct DEF Route, Stopped
  <2> QED BY <1>3, <2>a, <2>1, <2>2, <2>3, <2>4, <2>5, MovesRoute
<1>4. TypeInv /\ IntentOwned /\ ReturnOrder /\ [Next]_vars =>
        [st.cur.from = Direct /\ Route = Direct /\ Route' \in Node => job.probes = 2]_vars
  BY <1>3
<1> QED BY <1>1, <1>2, <1>4, InitType, IntentInit, PTL DEF Spec, ReturnConfirmed

-------------------------------------------------------------------------------
(* What the state file says of the router, when nothing fails and nobody dies. *)

StopPCs == {"stopfw", "stopdns", "stopxray", "stopped"}
StaticPCs == {"static", "verify", "repin", "rollback", "dns", "firewall"}
SettledPCs == {"idle", "pin", "restore", "restored", "fointent"}

\* State s describes the router: interception and Xray go together, a running Xray is
\* on the direct outbound or on the node of s, and direct is recorded as selected.
SettledAs(s) ==
    /\ s.connected => fw
    /\ fw => xr.run
    /\ xr.run => /\ fw /\ s.node # None /\ Route \in {Direct, s.node}
                 /\ Route # Direct => s.connected
                 /\ s.op = "direct" => Route = Direct /\ s.sel = Direct

\* saveState derives the operational mode, except that of an operation in progress.
Derived == st.op = "recovering" \/ st.op = LegacyOperationalMode(st.connected, st.transport)

\* What an operation loaded is what the file has until its intent is written.
Loaded ==
    /\ job.old.node = st.node /\ job.old.sel = st.sel
    /\ job.old.connected = st.connected /\ job.old.transport = EffectiveActiveTransport(st)
    /\ job.dr = DirectRecovery(st)
    /\ job.on => st.connected /\ st.node # None
    /\ job.rb = None

\* A live switch: traffic is on the old outbound, or on the candidate once it is moved.
LiveOK ==
    /\ xr.run /\ fw /\ job.old.node = st.node /\ job.old.sel = st.sel
    /\ job.dr => job.old.sel = Direct
    /\ ~job.dr => job.old.transport = "proxy"
    /\ xr.target = IF job.pc \in MovedPCs THEN job.cand ELSE FromTag
    /\ job.pc = "same" => job.cand = FromTag
    /\ job.pc \in {"select"} \cup MovedPCs => st.cur.to = job.cand

\* A reload happens without interception, and so without a config to roll back to.
StaticOK ==
    /\ ~fw /\ ~job.on /\ job.rb = None
    /\ job.pc \in {"dns", "firewall"} => xr.run /\ xr.target = job.cand

FinalOK == /\ xr.run /\ fw /\ xr.target = job.cand
           /\ job.live => job.cand \in {st.node, st.cur.to}

StopOK == /\ job.pc # "stopfw" => ~fw
          /\ job.pc = "stopped" => ~xr.run
          /\ job.by = "restore" /\ job.cand = None => ~st.connected

\* A fail-open moves traffic to direct, or finds no Xray to do it with.
FailOpenOK ==
    /\ job.pc = "fointent" => job.old = st
    /\ job.pc \in {"foselect", "fofailed"} => SettledAs(job.old)
    /\ job.pc = "fofailed" => ~xr.run
    /\ job.pc \in {"fopersist", "fofinal"} => xr.run /\ fw /\ xr.target = Direct /\ job.old.node # None

QuietInv ==
    /\ Derived
    /\ job.live => job.pc = "final"
    /\ job.pc \in SettledPCs => SettledAs(st)
    /\ job.pc = "pin" => Loaded
    /\ job.pc \in LivePCs => LiveOK
    /\ job.pc \in StaticPCs => StaticOK
    /\ job.pc = "final" => FinalOK
    /\ job.pc \in StopPCs => StopOK
    /\ job.pc = "restored" => xr.run /\ xr.target = Direct
    /\ FailOpenOK

\* One part of it speaks of each step.
LEMMA QuietParts ==
    ASSUME Derived', job'.live => job'.pc = "final"
    PROVE  /\ job'.pc \in {"idle", "restore"} /\ SettledAs(st)' => QuietInv'
           /\ job'.pc = "pin" /\ SettledAs(st)' /\ Loaded' => QuietInv'
           /\ job'.pc \in LivePCs /\ LiveOK' => QuietInv'
           /\ job'.pc \in StaticPCs /\ StaticOK' => QuietInv'
           /\ job'.pc = "final" /\ FinalOK' => QuietInv'
           /\ job'.pc \in StopPCs /\ StopOK' => QuietInv'
           /\ job'.pc \in {"fointent"} /\ SettledAs(st)' /\ job'.old = st' => QuietInv'
           /\ job'.pc \in {"foselect", "fopersist", "fofinal", "fofailed"} /\ FailOpenOK' => QuietInv'
           /\ job'.pc = "restored" /\ SettledAs(st)' /\ xr'.run /\ xr'.target = Direct => QuietInv'
BY DEF QuietInv, SettledPCs, LivePCs, StaticPCs, StopPCs, FailOpenOK

\* A save writes the fields it is asked to write and derives the mode.
LEMMA SavedFields ==
    ASSUME NEW s \in RuntimeStates
    PROVE  /\ Saved(s).node = s.node /\ Saved(s).sel = s.sel /\ Saved(s).connected = s.connected
           /\ Saved(s).transport = s.transport /\ Saved(s).cur = s.cur /\ Saved(s).mode = s.mode
           /\ Saved(s).op = "recovering" \/ Saved(s).op = LegacyOperationalMode(s.connected, s.transport)
           /\ s.op = "recovering" => Saved(s) = s
           /\ s.op # "recovering" => Saved(s).op = LegacyOperationalMode(s.connected, s.transport)
BY DEF Saved, RuntimeStates

\* Without faults a save succeeds, and so does every call to the router.
LEMMA QuietCalls ==
    ASSUME ~ApiFaults, ~SaveFaults
    PROVE  /\ \A ok \in SaveOK : ok = TRUE
           /\ \A ok \in CallOK : ok = TRUE
           /\ \A p \in BOOLEAN : \A r \in Result(p, ApiFaults) : r = p
           /\ \A c, r : r \in PersistConfig(c) => r.ok = TRUE
           /\ \A c, r : r \in ApplyConfig(c) => r.ok = TRUE /\ r.xr = Started(c)
BY DEF SaveOK, CallOK, Result, PersistConfig, ApplyConfig

\* The mode in the file is derived whenever it is written.
LEMMA DerivedSaved ==
    ASSUME Derived, st' = st \/ \E s \in RuntimeStates : st' = Saved(s)
    PROVE  Derived'
<1>1. CASE st' = st BY <1>1 DEF Derived
<1>2. ASSUME NEW s \in RuntimeStates, st' = Saved(s) PROVE Derived'
  BY <1>2, SavedFields DEF Derived
<1> QED BY <1>1, <1>2

\* An operation that starts has loaded the state.
LEMMA AppliedLoads ==
    ASSUME st \in RuntimeStates, NEW by, NEW n, NEW m, NEW skip,
           job' = ApplyJob(by, n, m, skip), UNCHANGED st
    PROVE  job'.pc = "pin" /\ Loaded' /\ ~job'.live
<1> DEFINE old == [st EXCEPT !.transport = EffectiveActiveTransport(st)]
<1>1. /\ job'.pc = "pin" /\ job'.old = old /\ job'.dr = DirectRecovery(st)
      /\ job'.on = (by # "restore" /\ st.connected /\ st.node # None)
      /\ job'.rb = None /\ job'.live = FALSE
  BY DEF ApplyJob, NoJob
<1>2. /\ old.node = st.node /\ old.sel = st.sel /\ old.connected = st.connected
      /\ old.transport = EffectiveActiveTransport(st)
  BY DEF RuntimeStates
<1> HIDE DEF old
<1> QED BY <1>1, <1>2 DEF Loaded

\* A router that is switched on is described by the default state.
LEMMA QuietInit == Init => QuietInv
<1> SUFFICES ASSUME Init PROVE QuietInv OBVIOUS
<1>1. st.connected = FALSE /\ st.op = "direct" /\ fw = FALSE /\ xr.run = FALSE /\ job.pc = "idle" /\ job.live = FALSE
  BY DEF Init, DefaultRuntimeState, Stopped, NoJob
<1>2. Derived BY <1>1 DEF Derived, LegacyOperationalMode
<1>3. SettledAs(st) BY <1>1 DEF SettledAs
<1> QED BY <1>1, <1>2, <1>3 DEF QuietInv, SettledPCs, LivePCs, StaticPCs, StopPCs, FailOpenOK


\* Goto changes nothing else of the operation.
LEMMA GotoKeeps ==
    ASSUME job \in Job, NEW pc \in PCs, Goto(pc)
    PROVE  /\ job'.pc = pc /\ job'.cand = job.cand /\ job'.by = job.by /\ job'.mode = job.mode
           /\ job'.old = job.old /\ job'.dr = job.dr /\ job'.on = job.on /\ job'.rb = job.rb
           /\ job'.live = job.live /\ FromTag' = FromTag
BY DEF Goto, Job, FromTag

\* Without faults a save writes what it is asked to write, with the mode derived.
LEMMA QuietSave ==
    ASSUME ~SaveFaults, NEW s, NEW ok \in SaveOK, Save(s, ok) PROVE st' = Saved(s)
BY DEF SaveOK, Result, Save

\* The override in force is the route.
LEMMA RouteIs == ASSUME XrayOK, xr.run, xr.target # None PROVE Route = xr.target
BY DEF Route

\* The start of a live switch, or the decision for a reload.
LEMMA QuietPin ==
    ASSUME ~ApiFaults, ~SaveFaults, TypeInv, IntentOwned, QuietInv, PinCurrent
    PROVE  QuietInv'
<1> USE DEF TypeInv
<1>a. /\ job \in Job /\ st \in RuntimeStates /\ xr \in XrayProcess /\ fw \in BOOLEAN
      /\ job.pc = "pin" /\ st' = st /\ fw' = fw
  BY DEF PinCurrent, At, file, FileOK, JobOK, XrayOK, RouterOK
<1>b. SettledAs(st) /\ Loaded /\ Derived /\ ~job.live BY <1>a DEF QuietInv, SettledPCs
<1>c. st.op = LegacyOperationalMode(st.connected, st.transport)
  BY <1>a, <1>b DEF IntentOwned, IntentPCs, InTransition, Derived
<1>d. Derived' BY <1>a, <1>b DEF Derived
<1>1. CASE Goto("static") /\ ~xr.run
  <2>1. job'.pc = "static" /\ job'.on = job.on /\ job'.rb = job.rb /\ ~job'.live
    BY <1>a, <1>b, <1>1, GotoKeeps DEF PCs
  <2>2. ~fw /\ ~job.on /\ job.rb = None BY <1>b, <1>1 DEF SettledAs, Loaded
  <2>3. StaticOK' BY <1>a, <2>1, <2>2 DEF StaticOK
  <2> QED BY <1>d, <2>1, <2>3, QuietParts DEF StaticPCs
<1>2. CASE Goto("prepare") /\ xr.run /\ xr'.run /\ xr'.target = FromTag /\ (~job.dr => st.op = "vpn")
  <2>1. /\ job'.pc = "prepare" /\ job'.old = job.old /\ job'.dr = job.dr /\ ~job'.live
        /\ FromTag' = FromTag
    BY <1>a, <1>b, <1>2, GotoKeeps DEF PCs
  <2>2. fw /\ job.old.node = st.node /\ job.old.sel = st.sel BY <1>b, <1>2 DEF SettledAs, Loaded
  <2>3. job.dr => job.old.sel = Direct BY <1>b, <1>2 DEF SettledAs, Loaded, DirectRecovery
  <2>4. ~job.dr => job.old.transport = "proxy"
    BY <1>b, <1>c, <1>2 DEF Loaded, LegacyOperationalMode, EffectiveActiveTransport
  <2>5. LiveOK' BY <1>a, <1>2, <2>1, <2>2, <2>3, <2>4 DEF LiveOK, MovedPCs
  <2> QED BY <1>d, <2>1, <2>5, QuietParts DEF LivePCs
<1>3. CASE ((~job.old.connected /\ ~job.dr) \/ job.old.node = None) /\ Goto("static")
  <2>1. ~st.connected /\ st.node # None => DirectRecovery(st)
    BY <1>c DEF LegacyOperationalMode, DirectRecovery
  <2>2. st.node = None BY <1>3, <1>b, <2>1 DEF Loaded
  <2>3. ~xr.run BY <1>b, <2>2 DEF SettledAs
  <2> QED BY <1>1, <1>3, <2>3
<1>4. CASE job.dr /\ \E r \in SelectOutbound(Direct) :
                        /\ xr' = [xr EXCEPT !.target = r.target]
                        /\ Goto(IF r.ok THEN "prepare" ELSE "static")
  <2> PICK r \in SelectOutbound(Direct) : /\ xr' = [xr EXCEPT !.target = r.target]
                                          /\ Goto(IF r.ok THEN "prepare" ELSE "static")
    BY <1>4
  <2>1. r.ok = xr.run /\ (xr.run => xr'.run /\ xr'.target = Direct) BY SelectWorks DEF Tag
  <2>2. FromTag = Direct BY <1>4 DEF FromTag
  <2> QED BY <1>1, <1>2, <1>4, <2>1, <2>2
<1>5. CASE /\ job.old.connected /\ ~job.dr /\ job.old.node # None
           /\ \E prepared \in Result(xr.run, ApiFaults) :
                 IF prepared
                 THEN \E r \in SelectOutbound(job.old.node) :
                         /\ xr' = [xr EXCEPT !.target = r.target]
                         /\ Goto(IF r.ok THEN "prepare" ELSE "preserve")
                 ELSE Goto("static") /\ UNCHANGED xr
  <2>1. xr.run BY <1>5, <1>b DEF Loaded, SettledAs
  <2>2. st.op = "vpn" BY <1>5, <1>b, <1>c DEF Loaded, LegacyOperationalMode, DirectRecovery
  <2>3. PICK r \in SelectOutbound(job.old.node) : /\ xr' = [xr EXCEPT !.target = r.target]
                                                  /\ Goto(IF r.ok THEN "prepare" ELSE "preserve")
    BY <1>5, <2>1 DEF Result
  <2>4. job.old.node \in Tag \cup {None} BY <1>a DEF Job, RuntimeStates, Tag
  <2>5. r.ok /\ xr'.run /\ xr'.target = job.old.node BY <2>1, <2>3, <2>4, SelectWorks
  <2>6. FromTag = job.old.node BY <1>5 DEF FromTag
  <2> QED BY <1>2, <2>1, <2>2, <2>3, <2>5, <2>6
<1> QED BY <1>3, <1>4, <1>5 DEF PinCurrent

\* A step of the live path that leaves the balancer and the selection in the file.
LEMMA LiveGoes ==
    ASSUME job \in Job, QuietInv, job.pc \in LivePCs, NEW pc \in LivePCs,
           job'.pc = pc, job'.cand = job.cand, job'.old = job.old, job'.dr = job.dr,
           job'.live = job.live, FromTag' = FromTag,
           UNCHANGED <<xr, fw>>, Derived', st'.node = st.node, st'.sel = st.sel,
           pc \in MovedPCs <=> job.pc \in MovedPCs,
           pc = "same" => job.cand = FromTag,
           pc \in {"select"} \cup MovedPCs => st'.cur.to = job.cand
    PROVE  QuietInv'
<1>1. LiveOK /\ ~job.live BY DEF QuietInv, LivePCs
<1>2. LiveOK' BY <1>1 DEF LiveOK
<1> QED BY <1>1, <1>2, QuietParts

\* No operation is not a live switch.
LEMMA NotLive == ~NoJob.live
BY DEF NoJob

\* The steps of a live switch.
LEMMA QuietLive ==
    ASSUME ~ApiFaults, ~SaveFaults, TypeInv, QuietInv, job.pc \in LivePCs, JobStep
    PROVE  QuietInv'
<1> USE DEF TypeInv
<1>a. /\ job \in Job /\ st \in RuntimeStates /\ xr \in XrayProcess /\ fw \in BOOLEAN
      /\ job.old \in RuntimeStates
  BY DEF FileOK, JobOK, XrayOK, RouterOK, Job
<1>b. LiveOK /\ Derived /\ ~job.live BY DEF QuietInv, LivePCs
<1>c. job.cand \in Node /\ job.old.node \in Node /\ FromTag \in Tag
  BY DEF JobOK, JobShape, LivePCs, ApplyPCs, FromTag, Tag
<1>d. UNCHANGED file => Derived' BY <1>b DEF Derived, file
<1>e. \A pc \in PCs : Goto(pc) =>
        /\ job'.pc = pc /\ job'.cand = job.cand /\ job'.old = job.old /\ job'.dr = job.dr
        /\ job'.live = job.live /\ FromTag' = FromTag
  BY <1>a, GotoKeeps
<1>f. LivePCs \subseteq PCs BY DEF LivePCs, PCs
<1>1. CASE PrepareCandidate
  <2>1. PICK pc \in {"preserve", "same", "intent", "probe"} : Goto(pc) /\ (pc = "same" => job.cand = FromTag)
    BY <1>1 DEF PrepareCandidate
  <2>2. pc \in LivePCs /\ pc \notin {"select"} \cup MovedPCs BY DEF LivePCs, MovedPCs
  <2>3. UNCHANGED <<xr, fw, file, st>> /\ job.pc \notin MovedPCs
    BY <1>1 DEF PrepareCandidate, At, MovedPCs, file
  <2>4. Goto(pc) BY <2>1
  <2>5. /\ job'.pc = pc /\ job'.cand = job.cand /\ job'.old = job.old /\ job'.dr = job.dr
        /\ job'.live = job.live /\ FromTag' = FromTag
    BY <1>e, <1>f, <2>2, <2>4
  <2> QED BY <1>a, <1>d, <2>1, <2>2, <2>3, <2>5, LiveGoes
<1>2. CASE PersistSame
  <2>1. /\ job' = [job EXCEPT !.pc = "final", !.live = TRUE] /\ UNCHANGED <<xr, fw, file, st>> /\ job.pc = "same"
    BY <1>2, QuietCalls DEF PersistSame, At, file
  <2>2. job'.pc = "final" /\ job'.cand = job.cand BY <1>a, <2>1 DEF Job
  <2>3. job.cand = FromTag /\ xr.target = FromTag /\ xr.run /\ fw /\ job.old.node = st.node
    BY <1>b, <2>1 DEF LiveOK, MovedPCs
  <2>4. FromTag = job.old.node BY <1>c, <2>3, TagsDistinct DEF FromTag
  <2>5. FinalOK' BY <2>1, <2>2, <2>3, <2>4 DEF FinalOK
  <2> QED BY <1>d, <2>1, <2>2, <2>5, QuietParts
<1>3. ASSUME NEW next \in {"confirm", "intent"}, Probe(next), UNCHANGED <<xr, fw>>, job.pc \in {"probe", "confirm"}
      PROVE  QuietInv'
  <2>1. job.pc \notin MovedPCs BY <1>3 DEF MovedPCs
  <2>2. CASE job' = [job EXCEPT !.pc = next, !.probes = @ + 1] /\ UNCHANGED file
    <3>1. /\ job'.pc = next /\ job'.cand = job.cand /\ job'.old = job.old /\ job'.dr = job.dr /\ job'.live = job.live
      BY <1>a, <2>2 DEF Job
    <3>2. FromTag' = FromTag BY <3>1 DEF FromTag
    <3>3. next \in LivePCs /\ next \notin {"select", "same"} \cup MovedPCs BY DEF LivePCs, MovedPCs
    <3>4. st' = st /\ Derived' BY <1>d, <2>2 DEF file
    <3> QED BY <1>3, <1>a, <2>1, <3>1, <3>2, <3>3, <3>4, LiveGoes
  <2>3. ASSUME Goto("preserve"), NEW ok \in SaveOK, Save(st, ok) PROVE QuietInv'
    <3>1. st' = Saved(st) BY <2>3, QuietSave
    <3>2. st'.node = st.node /\ st'.sel = st.sel BY <1>a, <3>1, SavedFields
    <3>3. Derived' BY <1>a, <1>b, <3>1, DerivedSaved
    <3>4. "preserve" \in LivePCs /\ "preserve" \notin {"select", "same"} \cup MovedPCs BY DEF LivePCs, MovedPCs
    <3>5. /\ job'.pc = "preserve" /\ job'.cand = job.cand /\ job'.old = job.old /\ job'.dr = job.dr
          /\ job'.live = job.live /\ FromTag' = FromTag
      BY <1>e, <1>f, <2>3, <3>4
    <3> QED BY <1>3, <1>a, <2>1, <3>2, <3>3, <3>4, <3>5, LiveGoes
  <2> QED BY <1>3, <2>2, <2>3 DEF Probe
<1>4. CASE ProbeCandidate BY <1>3, <1>4 DEF ProbeCandidate, At
<1>5. CASE ConfirmCandidate BY <1>3, <1>5 DEF ConfirmCandidate, At
<1>g. /\ SwitchIntent.node = job.old.node /\ SwitchIntent.sel = job.old.sel
      /\ SwitchIntent.op = "recovering" /\ SwitchIntent.cur.to = job.cand
  BY <1>a DEF SwitchIntent, RuntimeStates
<1>h. ASSUME NEW ok \in SaveOK, Save(SwitchIntent, ok)
      PROVE  st' = SwitchIntent /\ Derived' /\ st'.node = st.node /\ st'.sel = st.sel /\ st'.cur.to = job.cand
  <2>1. st' = Saved(SwitchIntent) BY <1>h, QuietSave
  <2>2. st' = SwitchIntent BY <1>g, <2>1 DEF Saved
  <2> QED BY <1>b, <1>g, <2>2 DEF Derived, LiveOK
<1>6. CASE SaveIntent
  <2>1. PICK ok \in SaveOK : Save(SwitchIntent, ok) /\ Goto(IF ok THEN "select" ELSE "preserve")
    BY <1>6 DEF SaveIntent
  <2>2. ok BY QuietCalls
  <2>3. Goto("select") BY <2>1, <2>2
  <2>4. "select" \in LivePCs /\ "select" \notin MovedPCs BY DEF LivePCs, MovedPCs
  <2>5. UNCHANGED <<xr, fw>> /\ job.pc \notin MovedPCs BY <1>6 DEF SaveIntent, At, MovedPCs
  <2>6. /\ job'.pc = "select" /\ job'.cand = job.cand /\ job'.old = job.old /\ job'.dr = job.dr
        /\ job'.live = job.live /\ FromTag' = FromTag
    BY <1>e, <1>f, <2>3, <2>4
  <2> QED BY <1>a, <1>h, <2>1, <2>4, <2>5, <2>6, LiveGoes
<1>7. CASE SelectCandidate
  <2> PICK r \in SelectOutbound(job.cand) : /\ xr' = [xr EXCEPT !.target = r.target]
                                            /\ Goto(IF r.ok THEN "egress" ELSE "preserve")
    BY <1>7 DEF SelectCandidate
  <2>1. r.ok /\ xr'.run /\ xr'.target = job.cand BY <1>b, <1>c, SelectWorks, ZenonT(60) DEF LiveOK, Tag
  <2>2. /\ job'.pc = "egress" /\ job'.cand = job.cand /\ job'.old = job.old /\ job'.dr = job.dr /\ job'.live = job.live
    BY <1>e, <2>1 DEF PCs
  <2>3. UNCHANGED <<fw, file, st>> /\ st.cur.to = job.cand BY <1>7, <1>b DEF SelectCandidate, file, At, LiveOK
  <2>4. LiveOK' BY <1>b, <2>1, <2>2, <2>3 DEF LiveOK, MovedPCs
  <2> QED BY <1>b, <1>d, <2>2, <2>3, <2>4, QuietParts DEF LivePCs
<1>8. CASE EnsureEgress \/ PersistSwitched
  <2>1. PICK pc \in {"persist", "undo", "switched"} : Goto(pc)
    BY <1>8 DEF EnsureEgress, PersistSwitched
  <2>2. pc \in LivePCs /\ pc \in MovedPCs /\ pc # "same" BY DEF LivePCs, MovedPCs
  <2>3. UNCHANGED <<xr, fw, file, st>> /\ job.pc \in MovedPCs
    BY <1>8 DEF EnsureEgress, PersistSwitched, At, MovedPCs, file
  <2>4. st.cur.to = job.cand BY <1>b, <2>3 DEF LiveOK
  <2>5. /\ job'.pc = pc /\ job'.cand = job.cand /\ job'.old = job.old /\ job'.dr = job.dr
        /\ job'.live = job.live /\ FromTag' = FromTag
    BY <1>e, <1>f, <2>1, <2>2
  <2> QED BY <1>a, <1>d, <2>2, <2>3, <2>4, <2>5, LiveGoes
<1>9. CASE SaveSwitched
  <2>1. PICK ok \in SaveOK : /\ Save(SwitchIntent, ok)
                             /\ IF ok THEN job' = [job EXCEPT !.pc = "final", !.live = TRUE] ELSE Goto("undo")
    BY <1>9 DEF SaveSwitched
  <2>2. job' = [job EXCEPT !.pc = "final", !.live = TRUE] BY <2>1, QuietCalls
  <2>3. job'.pc = "final" /\ job'.cand = job.cand BY <1>a, <2>2 DEF Job
  <2>4. UNCHANGED <<xr, fw>> /\ job.pc \in MovedPCs BY <1>9 DEF SaveSwitched, At, MovedPCs
  <2>5. FinalOK' BY <1>b, <1>h, <2>1, <2>3, <2>4 DEF FinalOK, LiveOK
  <2> QED BY <1>h, <2>1, <2>3, <2>5, QuietParts
<1>10. CASE UndoSelect
  <2> PICK r \in SelectOutbound(FromTag) : xr' = [xr EXCEPT !.target = r.target]
    BY <1>10 DEF UndoSelect
  <2>1. xr'.run /\ xr'.target = FromTag BY <1>b, <1>c, SelectWorks, ZenonT(60) DEF LiveOK
  <2>2. Goto("preserve") /\ UNCHANGED <<fw, file, st>> BY <1>10 DEF UndoSelect, file
  <2>3. /\ job'.pc = "preserve" /\ job'.cand = job.cand /\ job'.old = job.old /\ job'.dr = job.dr
        /\ job'.live = job.live /\ FromTag' = FromTag
    BY <1>e, <2>2 DEF PCs
  <2>4. LiveOK' BY <1>b, <2>1, <2>2, <2>3 DEF LiveOK, MovedPCs
  <2> QED BY <1>b, <1>d, <2>2, <2>3, <2>4, QuietParts DEF LivePCs
<1>11. CASE PreserveConnection
  <2>1. PICK ok \in SaveOK : Save(Preserved, ok) BY <1>11 DEF PreserveConnection
  <2>2. Preserved \in RuntimeStates
    BY <1>a DEF Preserved, RuntimeStates, NoOperation, Operation, OperationalMode
  <2>3. /\ Preserved.node = job.old.node /\ Preserved.connected = TRUE /\ Preserved.op = "vpn"
        /\ Preserved.transport = job.old.transport /\ Preserved.sel = st.sel
    BY <1>a DEF Preserved, RuntimeStates
  <2>4. st' = Saved(Preserved) BY <2>1, QuietSave
  <2>5. /\ st'.node = job.old.node /\ st'.connected = TRUE /\ st'.sel = st.sel
        /\ st'.op = LegacyOperationalMode(TRUE, job.old.transport)
    BY <2>2, <2>3, <2>4, SavedFields
  <2>6. Derived' BY <1>b, <2>2, <2>4, DerivedSaved
  <2>7. xr' = xr /\ fw' = fw /\ FailJob /\ job.pc = "preserve" BY <1>11 DEF PreserveConnection, At
  <2>8. CASE Goto("stopfw")
    <3>1. job'.pc = "stopfw" /\ job'.cand = job.cand /\ job'.live = job.live BY <1>e, <2>8 DEF PCs
    <3>2. StopOK' BY <1>c, <3>1, TagsDistinct DEF StopOK
    <3> QED BY <1>b, <2>6, <3>1, <3>2, QuietParts DEF StopPCs
  <2>9. CASE EndJob(FALSE)
    <3>1. job'.pc = "idle" /\ ~job'.live BY <2>9, EndJobPC, NotLive
    <3>2. xr.run /\ fw /\ xr.target = FromTag BY <1>b, <2>7 DEF LiveOK, MovedPCs
    <3>3. Route' = FromTag BY <1>c, <2>7, <3>2, TagsDistinct DEF Route, Tag
    <3>4. FromTag \in {Direct, job.old.node} BY DEF FromTag
    <3>5. st'.op = "direct" => FromTag = Direct /\ st'.sel = Direct
      BY <1>b, <2>5 DEF LiveOK, LegacyOperationalMode, FromTag
    <3>6. st'.node # None BY <1>c, <2>5, TagsDistinct
    <3>7. SettledAs(st)' BY <2>5, <2>7, <3>2, <3>3, <3>4, <3>5, <3>6 DEF SettledAs
    <3> QED BY <2>6, <3>1, <3>7, QuietParts
  <2> QED BY <2>7, <2>8, <2>9 DEF FailJob
<1>12. ~ResolveFails /\ ~PinCurrent /\ ~ApplyStatic /\ ~VerifyStatic /\ ~PinReloaded /\ ~RollbackVerification
  BY DEF ResolveFails, PinCurrent, ApplyStatic, VerifyStatic, PinReloaded, RollbackVerification, At, LivePCs
<1>13. ~ApplyDNS /\ ~ApplyFirewall /\ ~CommitSelection /\ ~DisableFirewall /\ ~DisableDNS /\ ~StopBackend
       /\ ~SaveStopped
  BY DEF ApplyDNS, ApplyFirewall, CommitSelection, DisableFirewall, DisableDNS, StopBackend, SaveStopped,
         At, LivePCs
<1>14. ~FailOpenIntent /\ ~FailOpenSelect /\ ~FailOpenPersist /\ ~FailOpenFailed /\ ~FailOpenDone
       /\ ~RestoreRuntime /\ ~RestoreDirect
  BY DEF FailOpenIntent, FailOpenSelect, FailOpenPersist, FailOpenFailed, FailOpenDone,
         RestoreRuntime, RestoreDirect, At, LivePCs
<1> QED
    BY <1>1, <1>2, <1>4, <1>5, <1>6, <1>7, <1>8, <1>9, <1>10, <1>11, <1>12, <1>13, <1>14 DEF JobStep

\* The steps of a reload, and the end of either path.
LEMMA QuietStatic ==
    ASSUME ~ApiFaults, ~SaveFaults, TypeInv, QuietInv, job.pc \in StaticPCs \cup {"final"}, JobStep
    PROVE  QuietInv'
<1> USE DEF TypeInv
<1>a. /\ job \in Job /\ st \in RuntimeStates /\ xr \in XrayProcess /\ fw \in BOOLEAN
      /\ job.old \in RuntimeStates
  BY DEF FileOK, JobOK, XrayOK, RouterOK, Job
<1>b. /\ Derived /\ (job.pc \in StaticPCs => StaticOK /\ ~job.live) /\ (job.pc = "final" => FinalOK)
  BY DEF QuietInv, StaticPCs
<1>c. job.cand \in Node BY DEF JobOK, JobShape, StaticPCs, ApplyPCs
<1>d. UNCHANGED file => Derived' BY <1>b DEF Derived, file
<1>e. \A pc \in PCs : Goto(pc) =>
        /\ job'.pc = pc /\ job'.cand = job.cand /\ job'.on = job.on /\ job'.rb = job.rb
        /\ job'.live = job.live
  BY <1>a, GotoKeeps
<1>f. ASSUME NEW pc \in StaticPCs, Goto(pc), job.pc \in StaticPCs, fw' = fw, UNCHANGED file,
             pc \in {"dns", "firewall"} => xr'.run /\ xr'.target = job.cand
      PROVE  QuietInv'
  <2>1. pc \in PCs BY DEF StaticPCs, PCs
  <2>2. job'.pc = pc /\ job'.cand = job.cand /\ job'.on = job.on /\ job'.rb = job.rb /\ job'.live = job.live
    BY <1>e, <1>f, <2>1
  <2>3. StaticOK' BY <1>b, <1>f, <2>2 DEF StaticOK
  <2> QED BY <1>b, <1>d, <1>f, <2>2, <2>3, QuietParts
<1>1. CASE ApplyStatic
  <2>1. PICK r \in ApplyConfig(job.cand) :
          /\ xr' = r.xr
          /\ IF r.ok THEN job' = [job EXCEPT !.pc = "verify", !.rb = IF job.on THEN RollbackData ELSE None]
             ELSE SelectionFailed
    BY <1>1 DEF ApplyStatic
  <2>2. r.ok BY QuietCalls
  <2>3. StaticOK /\ ~job.live /\ UNCHANGED <<fw, file>>
    BY <1>1, <1>b DEF ApplyStatic, At, StaticPCs
  <2>4. ~job.on BY <2>3 DEF StaticOK
  <2>5. job' = [job EXCEPT !.pc = "verify", !.rb = IF job.on THEN RollbackData ELSE None] BY <2>1, <2>2
  <2>6. job'.pc = "verify" /\ job'.on = job.on /\ job'.live = job.live BY <1>a, <2>5 DEF Job
  <2>7. job'.rb = None BY <1>a, <2>4, <2>5 DEF Job
  <2>8. StaticOK' BY <2>3, <2>6, <2>7 DEF StaticOK
  <2> QED BY <1>d, <2>3, <2>6, <2>8, QuietParts DEF StaticPCs
<1>2. CASE VerifyStatic
  <2>1. PICK pc \in {"repin", "rollback"} : Goto(pc) BY <1>2 DEF VerifyStatic
  <2>2. UNCHANGED <<fw, file>> /\ job.pc \in StaticPCs BY <1>2 DEF VerifyStatic, At, StaticPCs
  <2> QED BY <1>f, <2>1, <2>2 DEF StaticPCs
<1>3. CASE PinReloaded
  <2>1. UNCHANGED <<fw, file>> /\ job.pc \in StaticPCs BY <1>3 DEF PinReloaded, At, StaticPCs
  <2>2. CASE Goto("rollback") BY <1>f, <2>1, <2>2 DEF StaticPCs
  <2>3. ASSUME NEW r \in SelectOutbound(job.cand), xr' = [xr EXCEPT !.target = r.target], Goto("dns"), r.ok
        PROVE  QuietInv'
    <3>1. xr'.run /\ xr'.target = job.cand BY <1>c, <2>3, SelectWorks, ZenonT(60) DEF Tag
    <3> QED BY <1>f, <2>1, <2>3, <3>1 DEF StaticPCs
  <2> QED BY <1>3, <2>2, <2>3 DEF PinReloaded
<1>4. CASE RollbackVerification
  <2>1. job.rb = None /\ job.pc \in StaticPCs BY <1>4, <1>b DEF RollbackVerification, At, StaticPCs, StaticOK
  <2>2. PICK ok \in SaveOK : Save(st, ok) /\ IF ok THEN SelectionFailed ELSE FailJob
    BY <1>4, <2>1 DEF RollbackVerification
  <2>3. ok BY QuietCalls
  <2>4. Goto("stopfw") BY <2>2, <2>3 DEF SelectionFailed, FailJob
  <2>5. job'.pc = "stopfw" /\ job'.cand = job.cand /\ job'.live = job.live BY <1>e, <2>4 DEF PCs
  <2>6. StopOK' BY <1>c, <2>5, TagsDistinct DEF StopOK
  <2>7. st' = Saved(st) BY <2>2, QuietSave
  <2>8. Derived' BY <1>a, <1>b, <2>7, DerivedSaved
  <2> QED BY <1>b, <2>1, <2>5, <2>6, <2>8, QuietParts DEF StopPCs
<1>5. CASE ApplyDNS
  <2>1. UNCHANGED <<xr, fw, file>> /\ job.pc = "dns" BY <1>5 DEF ApplyDNS, At
  <2>2. Goto("firewall") BY <1>5, QuietCalls DEF ApplyDNS
  <2>3. xr.run /\ xr.target = job.cand BY <1>b, <2>1 DEF StaticOK, StaticPCs
  <2> QED BY <1>f, <2>1, <2>2, <2>3 DEF StaticPCs
<1>6. CASE ApplyFirewall
  <2>1. UNCHANGED <<xr, file>> /\ job.pc = "firewall" BY <1>6 DEF ApplyFirewall, At
  <2>2. fw' /\ Goto("final") BY <1>6, QuietCalls DEF ApplyFirewall
  <2>3. xr.run /\ xr.target = job.cand /\ ~job.live BY <1>b, <2>1 DEF StaticOK, StaticPCs
  <2>4. job'.pc = "final" /\ job'.cand = job.cand /\ job'.live = job.live BY <1>e, <2>2 DEF PCs
  <2>5. FinalOK' BY <2>1, <2>2, <2>3, <2>4 DEF FinalOK
  <2> QED BY <1>d, <2>1, <2>3, <2>4, <2>5, QuietParts
<1>7. CASE CommitSelection
  <2>1. job.pc = "final" /\ UNCHANGED <<xr, fw>> BY <1>7 DEF CommitSelection, At
  <2>2. xr.run /\ fw /\ xr.target = job.cand BY <1>b, <2>1 DEF FinalOK
  <2>3. PICK readback \in Result(xr.run /\ xr.target # None, ApiFaults), ok \in SaveOK :
          /\ Save(Selection(readback), ok)
          /\ IF ok THEN \E noted \in SaveOK : EndJob(noted \/ job.by # "watch") ELSE FailJob
    BY <1>7 DEF CommitSelection
  <2>4. ok BY QuietCalls
  <2>5. readback = TRUE BY <1>c, <2>2, TagsDistinct DEF Result
  <2>6. PICK noted \in SaveOK : EndJob(noted \/ job.by # "watch") BY <2>3, <2>4
  <2>7. job'.pc = "idle" /\ ~job'.live BY <2>6, EndJobPC, NotLive
  <2>8. Selection(TRUE) \in RuntimeStates BY <1>c, SelectionType
  <2>9. /\ Selection(TRUE).node = job.cand /\ Selection(TRUE).connected = TRUE
        /\ Selection(TRUE).op = "vpn" /\ Selection(TRUE).transport = "proxy"
    BY <1>a DEF Selection, RuntimeStates
  <2>10. st' = Saved(Selection(TRUE)) BY <2>3, <2>5, QuietSave
  <2>11. st'.node = job.cand /\ st'.connected = TRUE /\ st'.op = "vpn"
    BY <2>8, <2>9, <2>10, SavedFields DEF LegacyOperationalMode
  <2>12. Derived' BY <1>b, <2>8, <2>10, DerivedSaved
  <2>13. Route' = job.cand BY <1>c, <2>1, <2>2, TagsDistinct DEF Route
  <2>14. SettledAs(st)' BY <1>c, <2>1, <2>2, <2>11, <2>13, TagsDistinct DEF SettledAs
  <2> QED BY <2>7, <2>12, <2>14, QuietParts
<1>8. ~ResolveFails /\ ~PinCurrent /\ ~PrepareCandidate /\ ~PersistSame /\ ~ProbeCandidate /\ ~ConfirmCandidate
      /\ ~SaveIntent /\ ~SelectCandidate
  BY DEF ResolveFails, PinCurrent, PrepareCandidate, PersistSame, ProbeCandidate, ConfirmCandidate,
         SaveIntent, SelectCandidate, At, StaticPCs
<1>9. ~EnsureEgress /\ ~PersistSwitched /\ ~SaveSwitched /\ ~UndoSelect /\ ~PreserveConnection
      /\ ~DisableFirewall /\ ~DisableDNS /\ ~StopBackend /\ ~SaveStopped
  BY DEF EnsureEgress, PersistSwitched, SaveSwitched, UndoSelect, PreserveConnection,
         DisableFirewall, DisableDNS, StopBackend, SaveStopped, At, StaticPCs
<1>10. ~FailOpenIntent /\ ~FailOpenSelect /\ ~FailOpenPersist /\ ~FailOpenFailed /\ ~FailOpenDone
       /\ ~RestoreRuntime /\ ~RestoreDirect
  BY DEF FailOpenIntent, FailOpenSelect, FailOpenPersist, FailOpenFailed, FailOpenDone,
         RestoreRuntime, RestoreDirect, At, StaticPCs
<1> QED BY <1>1, <1>2, <1>3, <1>4, <1>5, <1>6, <1>7, <1>8, <1>9, <1>10 DEF JobStep

\* Without interception and without Xray, a disconnected state describes the router.
LEMMA SettledDown ==
    ASSUME ~fw', ~xr'.run, ~st'.connected, Derived', job'.pc = "idle", ~job'.live
    PROVE  QuietInv'
<1>1. SettledAs(st)' BY DEF SettledAs
<1> QED BY <1>1, QuietParts

\* Taking the transport down.
LEMMA QuietStop ==
    ASSUME ~ApiFaults, ~SaveFaults, TypeInv, QuietInv,
           DisableFirewall \/ DisableDNS \/ StopBackend \/ SaveStopped
    PROVE  QuietInv'
<1> USE DEF TypeInv
<1>a. job \in Job /\ st \in RuntimeStates BY DEF FileOK, JobOK
<1>b. job.pc \in StopPCs BY DEF DisableFirewall, DisableDNS, StopBackend, SaveStopped, At, StopPCs
<1>c. StopOK /\ ~job.live /\ Derived BY <1>b DEF QuietInv, StopPCs
<1>d. ASSUME NEW pc \in StopPCs, Goto(pc), UNCHANGED file,
             pc # "stopfw" => ~fw', pc = "stopped" => ~xr'.run
      PROVE  QuietInv'
  <2>1. pc \in PCs BY DEF StopPCs, PCs
  <2>2. job'.pc = pc /\ job'.by = job.by /\ job'.cand = job.cand /\ job'.live = job.live
    BY <1>a, <1>d, <2>1, GotoKeeps
  <2>3. st' = st /\ Derived' BY <1>c, <1>d DEF file, Derived
  <2>4. StopOK' BY <1>c, <1>d, <2>2, <2>3 DEF StopOK
  <2> QED BY <1>c, <2>2, <2>3, <2>4, QuietParts
<1>1. CASE DisableFirewall
  <2>1. ~fw' /\ Goto("stopdns") /\ UNCHANGED file BY <1>1, QuietCalls DEF DisableFirewall
  <2> QED BY <1>d, <2>1 DEF StopPCs
<1>2. CASE DisableDNS
  <2>1. fw' = fw /\ Goto("stopxray") /\ UNCHANGED file BY <1>2, QuietCalls DEF DisableDNS
  <2>2. ~fw BY <1>2, <1>c DEF StopOK, DisableDNS, At
  <2> QED BY <1>d, <2>1, <2>2 DEF StopPCs
<1>3. CASE StopBackend
  <2>1. fw' = fw /\ xr' = Stopped /\ Goto("stopped") /\ UNCHANGED file BY <1>3, QuietCalls DEF StopBackend
  <2>2. ~fw BY <1>3, <1>c DEF StopOK, StopBackend, At
  <2>3. ~xr'.run BY <2>1 DEF Stopped
  <2> QED BY <1>d, <2>1, <2>2, <2>3 DEF StopPCs
<1>4. CASE SaveStopped
  <2>1. fw' = fw /\ xr' = xr /\ ~fw /\ ~xr.run BY <1>4, <1>c DEF SaveStopped, At, StopOK
  <2>2. Down \in RuntimeStates /\ Down.connected = FALSE BY <1>a DEF Down, RuntimeStates, Transport
  <2>3. ASSUME NEW s \in RuntimeStates, s.connected = FALSE, NEW ok \in SaveOK, Save(s, ok),
               NEW success \in BOOLEAN, EndJob(success)
        PROVE  QuietInv'
    <3>1. st' = Saved(s) BY <2>3, QuietSave
    <3>2. ~st'.connected BY <2>3, <3>1, SavedFields
    <3>3. Derived' BY <1>c, <2>3, <3>1, DerivedSaved
    <3>4. job'.pc = "idle" /\ ~job'.live BY <2>3, EndJobPC, NotLive
    <3> QED BY <2>1, <3>2, <3>3, <3>4, SettledDown
  <2>4. PICK ok \in SaveOK :
          CASE job.by # "restore" /\ job.cand # None ->
                  Save([Down EXCEPT !.node = job.cand, !.mode = job.mode], ok) /\ EndJob(FALSE)
            [] job.by # "restore" /\ job.cand = None ->
                  Save([Down EXCEPT !.node = None, !.mode = "disconnected"], ok) /\ EndJob(ok)
            [] job.by = "restore" /\ job.cand # None -> Save(Down, ok) /\ EndJob(FALSE)
            [] OTHER -> UNCHANGED file /\ EndJob(TRUE)
    BY <1>4 DEF SaveStopped
  <2>5. ok \in BOOLEAN BY SaveOKType
  <2>6. CASE job.by # "restore" /\ job.cand # None
    <3> DEFINE s == [Down EXCEPT !.node = job.cand, !.mode = job.mode]
    <3>1. s \in RuntimeStates /\ s.connected = FALSE BY <1>a, <2>2 DEF RuntimeStates, Job
    <3>2. Save(s, ok) /\ EndJob(FALSE) BY <2>4, <2>6
    <3> HIDE DEF s
    <3> QED BY <2>3, <3>1, <3>2
  <2>7. CASE job.by # "restore" /\ job.cand = None
    <3> DEFINE s == [Down EXCEPT !.node = None, !.mode = "disconnected"]
    <3>1. s \in RuntimeStates /\ s.connected = FALSE BY <2>2 DEF RuntimeStates, Mode
    <3>2. Save(s, ok) /\ EndJob(ok) BY <2>4, <2>7
    <3> HIDE DEF s
    <3> QED BY <2>3, <2>5, <3>1, <3>2
  <2>8. CASE job.by = "restore" /\ job.cand # None
    <3>1. Save(Down, ok) /\ EndJob(FALSE) BY <2>4, <2>8
    <3> QED BY <2>2, <2>3, <3>1
  <2>9. CASE job.by = "restore" /\ job.cand = None
    <3>1. UNCHANGED file /\ EndJob(TRUE) BY <2>4, <2>9
    <3>2. st' = st /\ Derived' /\ ~st.connected BY <1>c, <2>9, <3>1 DEF file, Derived, StopOK
    <3>3. job'.pc = "idle" /\ ~job'.live BY <3>1, EndJobPC, NotLive
    <3> QED BY <2>1, <3>2, <3>3, SettledDown
  <2> QED BY <2>6, <2>7, <2>8, <2>9
<1> QED BY <1>1, <1>2, <1>3, <1>4

\* Failing open to the direct outbound.
LEMMA QuietFailOpen ==
    ASSUME ~ApiFaults, ~SaveFaults, TypeInv, QuietInv,
           FailOpenIntent \/ FailOpenSelect \/ FailOpenPersist \/ FailOpenFailed \/ FailOpenDone
    PROVE  QuietInv'
<1> USE DEF TypeInv
<1>a. job \in Job /\ job.old \in RuntimeStates /\ st \in RuntimeStates /\ xr \in XrayProcess
  BY DEF FileOK, JobOK, Job, XrayOK
<1>b. job.pc \in {"fointent", "foselect", "fopersist", "fofinal", "fofailed"}
  BY DEF FailOpenIntent, FailOpenSelect, FailOpenPersist, FailOpenFailed, FailOpenDone, At
<1>c. FailOpenOK /\ Derived /\ ~job.live BY <1>b DEF QuietInv
<1>d. \A pc \in PCs : Goto(pc) => job'.pc = pc /\ job'.old = job.old /\ job'.live = job.live
  BY <1>a, GotoKeeps
<1>1. CASE FailOpenIntent
  <2> DEFINE s == [job.old EXCEPT !.op = "recovering", !.managed = TRUE,
                                  !.cur = [kind |-> "fail_open", from |-> job.old.sel, to |-> Direct]]
  <2>1. PICK ok \in SaveOK : Save(s, ok) /\ IF ok THEN Goto("foselect") ELSE EndJob(FALSE)
    BY <1>1 DEF FailOpenIntent
  <2>2. s.op = "recovering" BY <1>a DEF RuntimeStates
  <2> HIDE DEF s
  <2>3. Goto("foselect") BY <2>1, QuietCalls
  <2>4. st' = Saved(s) BY <2>1, QuietSave
  <2>5. Derived' BY <2>2, <2>4 DEF Derived, Saved
  <2>6. job'.pc = "foselect" /\ job'.old = job.old /\ job'.live = job.live BY <1>d, <2>3 DEF PCs
  <2>7. SettledAs(job.old) BY <1>1, <1>c DEF FailOpenIntent, At, FailOpenOK, QuietInv, SettledPCs
  <2>8. UNCHANGED <<xr, fw>> BY <1>1 DEF FailOpenIntent
  <2>9. SettledAs(job.old)' BY <2>6, <2>7, <2>8 DEF SettledAs, Route
  <2>10. FailOpenOK' BY <2>6, <2>9 DEF FailOpenOK
  <2> QED BY <1>c, <2>5, <2>6, <2>10, QuietParts
<1>2. CASE FailOpenSelect
  <2>1. PICK r \in SelectOutbound(Direct) : /\ xr' = [xr EXCEPT !.target = r.target]
                                            /\ Goto(IF r.ok THEN "fopersist" ELSE "fofailed")
    BY <1>2 DEF FailOpenSelect
  <2>2. SettledAs(job.old) /\ UNCHANGED <<fw, file>> BY <1>2, <1>c DEF FailOpenSelect, At, FailOpenOK
  <2>3. Derived' BY <1>c, <2>2 DEF Derived, file
  <2>4. r.ok = xr.run BY SelectWorks DEF Tag
  <2>5. CASE xr.run
    <3>1. xr'.run /\ xr'.target = Direct BY <2>1, <2>5, SelectWorks DEF Tag
    <3>2. Goto("fopersist") BY <2>1, <2>4, <2>5
    <3>3. job'.pc = "fopersist" /\ job'.old = job.old /\ job'.live = job.live BY <1>d, <3>2 DEF PCs
    <3>4. fw' /\ job.old.node # None BY <2>2, <2>5 DEF SettledAs
    <3>5. FailOpenOK' BY <3>1, <3>3, <3>4 DEF FailOpenOK
    <3> QED BY <1>c, <2>3, <3>3, <3>5, QuietParts
  <2>6. CASE ~xr.run
    <3>1. xr'.run = xr.run BY <1>a, <2>1 DEF XrayProcess
    <3>2. Goto("fofailed") BY <2>1, <2>4, <2>6
    <3>3. job'.pc = "fofailed" /\ job'.old = job.old /\ job'.live = job.live BY <1>d, <3>2 DEF PCs
    <3>4. SettledAs(job.old)' BY <2>2, <2>6, <3>1, <3>3 DEF SettledAs
    <3>5. FailOpenOK' BY <2>6, <3>1, <3>3, <3>4 DEF FailOpenOK
    <3> QED BY <1>c, <2>3, <3>3, <3>5, QuietParts
  <2> QED BY <2>5, <2>6
<1>3. CASE FailOpenPersist
  <2>1. PICK r \in PersistConfig(Direct) :
          /\ Goto(IF r.ok THEN "fofinal" ELSE "fofailed")
          /\ IF r.ok \/ job.old.sel = None THEN UNCHANGED xr
             ELSE \E u \in SelectOutbound(job.old.sel) : xr' = [xr EXCEPT !.target = u.target]
    BY <1>3 DEF FailOpenPersist
  <2>2. r.ok BY QuietCalls
  <2>3. Goto("fofinal") /\ UNCHANGED xr BY <2>1, <2>2
  <2>4. job'.pc = "fofinal" /\ job'.old = job.old /\ job'.live = job.live BY <1>d, <2>3 DEF PCs
  <2>5. UNCHANGED <<fw, file>> /\ job.pc = "fopersist" BY <1>3 DEF FailOpenPersist, At
  <2>6. Derived' BY <1>c, <2>5 DEF Derived, file
  <2>7. FailOpenOK' BY <1>c, <2>3, <2>4, <2>5 DEF FailOpenOK
  <2> QED BY <1>c, <2>4, <2>6, <2>7, QuietParts
<1>4. CASE FailOpenFailed
  <2> DEFINE s == [job.old EXCEPT !.cur = NoOperation]
  <2>1. PICK ok \in SaveOK : Save(s, ok) BY <1>4 DEF FailOpenFailed
  <2>2. s \in RuntimeStates /\ s.connected = job.old.connected
    BY <1>a DEF RuntimeStates, NoOperation, Operation
  <2> HIDE DEF s
  <2>3. st' = Saved(s) BY <2>1, QuietSave
  <2>4. Derived' BY <1>c, <2>2, <2>3, DerivedSaved
  <2>5. ~xr.run /\ SettledAs(job.old) BY <1>4, <1>c DEF FailOpenFailed, At, FailOpenOK
  <2>6. ~fw /\ ~job.old.connected BY <2>5 DEF SettledAs
  <2>7. ~st'.connected BY <2>2, <2>3, <2>6, SavedFields
  <2>8. UNCHANGED <<xr, fw>> /\ EndJob(FALSE) BY <1>4 DEF FailOpenFailed
  <2>9. job'.pc = "idle" /\ ~job'.live BY <2>8, EndJobPC, NotLive
  <2> QED BY <2>4, <2>5, <2>6, <2>7, <2>8, <2>9, SettledDown
<1>5. CASE FailOpenDone
  <2> DEFINE s == [job.old EXCEPT !.op = "direct", !.sel = Direct, !.cur = NoOperation,
                                  !.managed = TRUE, !.connected = FALSE, !.transport = "direct"]
  <2>1. PICK ok \in SaveOK : Save(s, ok) /\ EndJob(ok) BY <1>5 DEF FailOpenDone
  <2>2. s \in RuntimeStates
    BY <1>a DEF RuntimeStates, NoOperation, Operation, OperationalMode, Transport, Tag
  <2>3. s.node = job.old.node /\ s.sel = Direct /\ s.connected = FALSE
    BY <1>a DEF RuntimeStates
  <2> HIDE DEF s
  <2>4. st' = Saved(s) BY <2>1, QuietSave
  <2>5. Derived' BY <1>c, <2>2, <2>4, DerivedSaved
  <2>6. st'.node = job.old.node /\ st'.sel = Direct /\ ~st'.connected BY <2>2, <2>3, <2>4, SavedFields
  <2>7. xr.run /\ fw /\ xr.target = Direct /\ job.old.node # None
    BY <1>5, <1>c DEF FailOpenDone, At, FailOpenOK
  <2>8. UNCHANGED <<xr, fw>> BY <1>5 DEF FailOpenDone
  <2>9. Route' = Direct BY <2>7, <2>8, TagsDistinct DEF Route
  <2>10. SettledAs(st)' BY <2>6, <2>7, <2>8, <2>9 DEF SettledAs
  <2>11. ok \in BOOLEAN BY SaveOKType
  <2>12. job'.pc = "idle" /\ ~job'.live BY <2>1, <2>11, EndJobPC, NotLive
  <2> QED BY <2>5, <2>10, <2>12, QuietParts
<1> QED BY <1>1, <1>2, <1>3, <1>4, <1>5

\* The daemon's start.
LEMMA QuietRestore ==
    ASSUME ~ApiFaults, ~SaveFaults, TypeInv, QuietInv, RestoreRuntime \/ RestoreDirect
    PROVE  QuietInv'
<1> USE DEF TypeInv
<1>a. job \in Job /\ st \in RuntimeStates /\ xr \in XrayProcess BY DEF FileOK, JobOK, XrayOK
<1>b. job.pc \in {"restore", "restored"} BY DEF RestoreRuntime, RestoreDirect, At
<1>c. SettledAs(st) /\ Derived /\ ~job.live BY <1>b DEF QuietInv, SettledPCs
<1>d. \A pc \in PCs : Goto(pc) => job'.pc = pc /\ job'.cand = job.cand /\ job'.live = job.live
  BY <1>a, GotoKeeps
<1>1. CASE RestoreRuntime
  <2>1. UNCHANGED <<fw, file, st>> /\ Derived' BY <1>1, <1>c DEF RestoreRuntime, file, Derived
  <2>2. CASE EndJob(FALSE) /\ UNCHANGED xr
    <3>1. SettledAs(st)' BY <1>c, <2>1, <2>2 DEF SettledAs, Route
    <3>2. job'.pc = "idle" /\ ~job'.live BY <2>2, EndJobPC, NotLive
    <3> QED BY <2>1, <3>1, <3>2, QuietParts
  <2>3. ASSUME xr.run, NEW r \in SelectOutbound(Direct), xr' = [xr EXCEPT !.target = r.target],
               IF r.ok THEN Goto("restored") ELSE EndJob(FALSE)
        PROVE  QuietInv'
    <3>1. r.ok /\ xr'.run /\ xr'.target = Direct BY <2>3, SelectWorks DEF Tag
    <3>2. Goto("restored") BY <2>3, <3>1
    <3>3. job'.pc = "restored" /\ job'.live = job.live BY <1>d, <3>2 DEF PCs
    <3>4. Route' = Direct BY <3>1, TagsDistinct DEF Route
    <3>5. SettledAs(st)' BY <1>c, <2>1, <2>3, <3>1, <3>4 DEF SettledAs
    <3> QED BY <1>c, <2>1, <3>1, <3>3, <3>5, QuietParts
  <2>4. CASE (~st.connected \/ st.node = None) /\ Goto("stopfw")
    <3>1. ~st.connected BY <1>c, <2>4 DEF SettledAs
    <3>2. job'.pc = "stopfw" /\ job'.live = job.live BY <1>d, <2>4 DEF PCs
    <3>3. StopOK' BY <2>1, <3>1, <3>2 DEF StopOK
    <3> QED BY <1>c, <2>1, <3>2, <3>3, QuietParts DEF StopPCs
  <2>5. CASE job' = ApplyJob("restore", st.node, st.mode, FALSE) /\ UNCHANGED xr
    <3>1. job'.pc = "pin" /\ Loaded' /\ ~job'.live BY <1>a, <2>1, <2>5, AppliedLoads
    <3>2. SettledAs(st)' BY <1>c, <2>1, <2>5 DEF SettledAs, Route
    <3> QED BY <2>1, <3>1, <3>2, QuietParts
  <2> QED BY <1>1, <2>2, <2>3, <2>4, <2>5 DEF RestoreRuntime, Result
<1>2. CASE RestoreDirect
  <2> DEFINE s == [Down EXCEPT !.sel = Direct, !.cur = NoOperation]
  <2>1. PICK ok \in SaveOK : Save(s, ok) BY <1>2 DEF RestoreDirect
  <2>2. Down \in RuntimeStates /\ Down.connected = FALSE /\ Down.node = st.node /\ Down.transport = "direct"
    BY <1>a DEF Down, RuntimeStates, Transport
  <2>3. s \in RuntimeStates BY <2>2 DEF RuntimeStates, NoOperation, Operation, Tag
  <2>4. s.node = st.node /\ s.sel = Direct /\ s.connected = FALSE BY <2>2 DEF RuntimeStates
  <2> HIDE DEF s
  <2>5. st' = Saved(s) BY <2>1, QuietSave
  <2>6. Derived' BY <1>c, <2>3, <2>5, DerivedSaved
  <2>7. st'.node = st.node /\ st'.sel = Direct /\ ~st'.connected BY <2>3, <2>4, <2>5, SavedFields
  <2>8. xr.run /\ xr.target = Direct /\ UNCHANGED <<xr, fw>> /\ EndJob(TRUE)
    BY <1>2 DEF RestoreDirect, At, QuietInv
  <2>9. Route' = Direct BY <2>8, TagsDistinct DEF Route
  <2>10. SettledAs(st)' BY <1>c, <2>7, <2>8, <2>9 DEF SettledAs
  <2>11. job'.pc = "idle" /\ ~job'.live BY <2>8, EndJobPC, NotLive
  <2> QED BY <2>6, <2>10, <2>11, QuietParts
<1> QED BY <1>1, <1>2

\* Operations that start, and steps of the watcher and of the nodes.
LEMMA QuietStart ==
    ASSUME TypeInv, QuietInv, Deaths = {}, ~ApiFaults,
           [WatchStep \/ StartDaemon \/ Disconnect
            \/ (\E n \in Node, m \in UserModes : Connect(n, m))
            \/ (\E n \in Node, status \in NodeStatus : NodeChanges(n, status))
            \/ (\E n \in Node : BackoffEnds(n))
            \/ XrayDies \/ ClientDies \/ DaemonDies \/ Reboot]_vars
    PROVE  QuietInv'
<1> USE DEF TypeInv
<1>a. st \in RuntimeStates BY DEF FileOK
<1>1. CASE UNCHANGED <<st, xr, fw, job>>
  BY <1>1 DEF QuietInv, Derived, SettledAs, Route, Loaded, LiveOK, StaticOK, FinalOK, StopOK, FailOpenOK, FromTag
<1>2. ASSUME NEW j, StartJob(j)
      PROVE  /\ job' = j /\ st' = st /\ xr' = xr /\ fw' = fw /\ Derived' /\ SettledAs(st)'
  <2>1. job' = j /\ st' = st /\ xr' = xr /\ fw' = fw /\ job.pc = "idle" BY <1>2 DEF StartJob, At, file
  <2>2. SettledAs(st) /\ Derived BY <2>1 DEF QuietInv, SettledPCs
  <2> QED BY <2>1, <2>2 DEF Derived, SettledAs, Route
<1>3. ASSUME NEW by, NEW n, NEW m, NEW skip, StartJob(ApplyJob(by, n, m, skip)) PROVE QuietInv'
  <2>1. job' = ApplyJob(by, n, m, skip) /\ st' = st /\ Derived' /\ SettledAs(st)' BY <1>2, <1>3
  <2>2. job'.pc = "pin" /\ Loaded' /\ ~job'.live BY <1>a, <2>1, AppliedLoads
  <2> QED BY <2>1, <2>2, QuietParts
<1>4. CASE FailOpen
  <2> DEFINE j == [NoJob EXCEPT !.pc = "fointent", !.by = "failopen", !.old = st]
  <2>1. StartJob(j) BY <1>4 DEF FailOpen
  <2>2. j.pc = "fointent" /\ j.old = st /\ ~j.live BY DEF NoJob
  <2> HIDE DEF j
  <2> QED BY <1>2, <2>1, <2>2, QuietParts
<1>5. CASE StartDaemon
  <2> DEFINE j == [NoJob EXCEPT !.pc = "restore", !.by = "restore"]
  <2>1. StartJob(j) BY <1>5 DEF StartDaemon
  <2>2. j.pc = "restore" /\ ~j.live BY DEF NoJob
  <2> HIDE DEF j
  <2> QED BY <1>2, <2>1, <2>2, QuietParts
<1>6. CASE Disconnect
  <2> DEFINE j == [NoJob EXCEPT !.pc = "stopfw", !.by = "user"]
  <2>1. StartJob(j) BY <1>6 DEF Disconnect
  <2>2. j.pc = "stopfw" /\ j.by = "user" /\ ~j.live BY DEF NoJob
  <2> HIDE DEF j
  <2>3. job' = j /\ Derived' BY <1>2, <2>1
  <2>4. StopOK' BY <2>2, <2>3 DEF StopOK
  <2> QED BY <2>2, <2>3, <2>4, QuietParts DEF StopPCs
<1>7. CASE \E n \in Node, m \in UserModes : Connect(n, m) BY <1>3, <1>7 DEF Connect
<1>8. CASE \E n \in Node, verified \in BOOLEAN : WatchCommit(n, verified) BY <1>3, <1>8 DEF WatchCommit
<1>9. CASE WatchStart \/ WatchNoReserve \/ WatchRetry \/ WatchDiscard \/ WatchNoCandidate \/ FallbackSnapshot
  BY <1>1, <1>9
     DEF WatchStart, WatchNoReserve, WatchRetry, WatchDiscard, WatchNoCandidate, FallbackSnapshot, file
<1>10. CASE (\E n \in Node, status \in NodeStatus : NodeChanges(n, status)) \/ (\E n \in Node : BackoffEnds(n))
  BY <1>1, <1>10 DEF NodeChanges, BackoffEnds, file
<1>11. ~XrayDies /\ ~ClientDies /\ ~DaemonDies /\ ~Reboot
  BY DEF XrayDies, ClientDies, DaemonDies, Reboot
<1>12. CASE UNCHANGED vars BY <1>1, <1>12 DEF vars
<1> QED BY <1>4, <1>5, <1>6, <1>7, <1>8, <1>9, <1>10, <1>11, <1>12 DEF WatchStep

\* After every step, the state file and the operation in progress describe the router.
LEMMA QuietStep ==
    ASSUME ~ApiFaults, ~SaveFaults, Deaths = {}, TypeInv, IntentOwned, QuietInv, [Next]_vars
    PROVE  QuietInv'
<1>1. CASE JobStep
  <2>1. CASE ResolveFails BY <2>1 DEF ResolveFails
  <2>2. CASE PinCurrent BY <2>2, QuietPin
  <2>3. CASE PrepareCandidate \/ PersistSame \/ ProbeCandidate \/ ConfirmCandidate \/ SaveIntent \/ SelectCandidate
             \/ EnsureEgress \/ PersistSwitched \/ SaveSwitched \/ UndoSelect \/ PreserveConnection
    <3>1. job.pc \in LivePCs
      BY <2>3 DEF PrepareCandidate, PersistSame, ProbeCandidate, ConfirmCandidate, SaveIntent, SelectCandidate,
                  EnsureEgress, PersistSwitched, SaveSwitched, UndoSelect, PreserveConnection, At, LivePCs
    <3> QED BY <1>1, <3>1, QuietLive
  <2>4. CASE ApplyStatic \/ VerifyStatic \/ PinReloaded \/ RollbackVerification
             \/ ApplyDNS \/ ApplyFirewall \/ CommitSelection
    <3>1. job.pc \in StaticPCs \cup {"final"}
      BY <2>4 DEF ApplyStatic, VerifyStatic, PinReloaded, RollbackVerification,
                  ApplyDNS, ApplyFirewall, CommitSelection, At, StaticPCs
    <3> QED BY <1>1, <3>1, QuietStatic
  <2>5. CASE DisableFirewall \/ DisableDNS \/ StopBackend \/ SaveStopped BY <2>5, QuietStop
  <2>6. CASE FailOpenIntent \/ FailOpenSelect \/ FailOpenPersist \/ FailOpenFailed \/ FailOpenDone
    BY <2>6, QuietFailOpen
  <2>7. CASE RestoreRuntime \/ RestoreDirect BY <2>7, QuietRestore
  <2> QED BY <1>1, <2>1, <2>2, <2>3, <2>4, <2>5, <2>6, <2>7 DEF JobStep
<1>2. CASE ~JobStep BY <1>2, QuietStart DEF Next
<1> QED BY <1>1, <1>2

\* Without faults and deaths every reachable state is described.
LEMMA QuietAlways ==
    ASSUME ~ApiFaults, ~SaveFaults, Deaths = {} PROVE Spec => [](TypeInv /\ IntentOwned /\ QuietInv)
<1>1. TypeInv /\ IntentOwned /\ QuietInv /\ [Next]_vars => (TypeInv /\ IntentOwned /\ QuietInv)'
  BY StepType, IntentStep, QuietStep
<1> QED BY <1>1, InitType, IntentInit, QuietInit, PTL DEF Spec

\* Between operations, intercepted traffic that leaves through a node leaves through the
\* node that state.json names and calls connected, and a state that says direct has it
\* on the direct outbound (saveState, SelectOutbound and activateManagedDirect agree),
\* if no call fails and no process dies.
THEOREM RouteAsRecordedTheorem ==
    ASSUME ~ApiFaults, ~SaveFaults, Deaths = {} PROVE Spec => []RouteAsRecorded
<1>1. QuietInv => RouteAsRecorded
  BY TagsDistinct DEF QuietInv, SettledPCs, SettledAs, RouteAsRecorded, At
<1> QED BY <1>1, QuietAlways, PTL

\* Between operations, a state that says VPN over a running Xray has its interception
\* installed (restoreRuntime and applyNodeSelection put it back before they save), if no
\* call fails and no process dies.
THEOREM RestoredIsInterceptedTheorem ==
    ASSUME ~ApiFaults, ~SaveFaults, Deaths = {} PROVE Spec => []RestoredIsIntercepted
<1>1. QuietInv => RestoredIsIntercepted
  BY DEF QuietInv, SettledPCs, SettledAs, RestoredIsIntercepted, At
<1> QED BY <1>1, QuietAlways, PTL

\* At every call of a live switch, the outbound that carries traffic is one that
\* state.json names: the active node, the selected tag or an end of the persisted
\* intent, if no call fails and no process dies.
THEOREM IntentCoversRouteTheorem ==
    ASSUME ~ApiFaults, ~SaveFaults, Deaths = {} PROVE Spec => []IntentCoversRoute
<1>1. TypeInv /\ QuietInv => IntentCoversRoute
  <2> SUFFICES ASSUME TypeInv, QuietInv PROVE IntentCoversRoute OBVIOUS
  <2>1. CASE job.live
    <3>1. job.pc = "final" /\ FinalOK BY <2>1 DEF QuietInv
    <3>2. job.cand \in Node BY <3>1 DEF TypeInv, JobOK, JobShape, ApplyPCs
    <3>3. Route = job.cand BY <3>1, <3>2, TagsDistinct DEF FinalOK, Route
    <3> QED BY <2>1, <3>1, <3>3 DEF FinalOK, IntentCoversRoute
  <2>2. CASE ~job.live /\ job.pc \in LivePCs
    <3>1. LiveOK BY <2>2 DEF QuietInv
    <3>2. job.cand \in Node /\ job.old.node \in Node
      BY <2>2 DEF TypeInv, JobOK, JobShape, LivePCs, ApplyPCs
    <3>3. CASE job.pc \in MovedPCs
      <4>1. Route = st.cur.to BY <3>1, <3>2, <3>3, TagsDistinct DEF LiveOK, Route
      <4> QED BY <4>1 DEF IntentCoversRoute
    <3>4. CASE job.pc \notin MovedPCs
      <4>1. Route = FromTag BY <3>1, <3>2, <3>4, TagsDistinct DEF LiveOK, Route, FromTag
      <4>2. FromTag \in {st.sel, st.node} BY <3>1 DEF LiveOK, FromTag
      <4> QED BY <4>1, <4>2 DEF IntentCoversRoute
    <3> QED BY <3>3, <3>4
  <2>3. CASE ~job.live /\ job.pc \notin LivePCs BY <2>3 DEF IntentCoversRoute, LivePCs
  <2> QED BY <2>1, <2>2, <2>3
<1> QED BY <1>1, QuietAlways, PTL
===============================================================================
