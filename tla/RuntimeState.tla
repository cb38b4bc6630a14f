----------------------------- MODULE RuntimeState -----------------------------
(***************************************************************************)
(* The persisted runtime state (domain.RuntimeState, the file state.json)  *)
(* as the route-switching code reads and writes it, and the rules every    *)
(* writer of it goes through.                                              *)
(*                                                                         *)
(* Abstraction.  A subscription and a node of it are one element of Node,  *)
(* and a node's managed outbound tag ("fastlane-node-<hash>") is the node  *)
(* itself; Direct is the tag "fastlane-direct".  Timestamps, health,       *)
(* failure texts and the outbound bookkeeping are left out here.  Of       *)
(* RuntimeConfigGeneration only "greater than zero" is kept, which is all  *)
(* that RestoreRuntime asks of it.                                         *)
(***************************************************************************)
CONSTANTS
    Node,      \* the nodes of the stored subscriptions
    Direct,    \* the managed direct outbound, "fastlane-direct"
    None       \* an empty id, tag or config

ASSUME TagsDistinct == /\ Direct \notin Node
                       /\ None \notin Node
                       /\ Direct # None

\* Targets of the balancer "fastlane-main".
Tag == Node \cup {Direct}

Mode == {"disconnected", "manual", "auto"}
OperationalMode == {"vpn", "direct", "recovering"}
Transport == {"direct", "proxy"}

\* RuntimeOperation: the switch that is under way, kept in the state file.
NoOperation == [kind |-> "none", from |-> None, to |-> None]
Operation == [kind : {"none", "switch_outbound", "fail_open"},
              from : Tag \cup {None}, to : Tag \cup {None}]

RuntimeStates ==
    [mode : Mode, node : Node \cup {None}, connected : BOOLEAN,
     transport : Transport, op : OperationalMode, cur : Operation,
     sel : Tag \cup {None}, managed : BOOLEAN]

DefaultRuntimeState ==
    [mode |-> "disconnected", node |-> None, connected |-> FALSE,
     transport |-> "direct", op |-> "direct", cur |-> NoOperation,
     sel |-> None, managed |-> FALSE]

LegacyOperationalMode(connected, transport) ==
    IF connected /\ transport = "proxy" THEN "vpn" ELSE "direct"

\* What Service.saveState writes when it is asked to write s: the operational
\* mode is derived again from the connection fields unless it is Recovering.
Saved(s) ==
    IF s.op = "recovering" THEN s
    ELSE [s EXCEPT !.op = LegacyOperationalMode(s.connected, s.transport)]

\* A connected selection whose transport field still says direct is read as
\* proxied.
EffectiveActiveTransport(s) ==
    IF s.transport = "direct" /\ s.connected /\ s.node # None /\ s.mode # "disconnected"
    THEN "proxy" ELSE s.transport

\* VPN is unavailable by choice of the fail-open path, but a node is kept to
\* return to.
DirectRecovery(s) == s.op = "direct" /\ s.node # None

\* Two application-level conditions on a state read from the file.
InTransition(s) == s.op = "recovering" \/ s.cur # NoOperation

\* A GET through a connected VPN that timed out does not prove the runtime is
\* gone: only other reasons may fail open.
ShouldFailOpenDirect(s, reason) == ~(s.connected /\ s.op = "vpn" /\ reason = "get")
===============================================================================
