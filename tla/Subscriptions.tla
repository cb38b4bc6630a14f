----------------------------- MODULE Subscriptions -----------------------------
(***************************************************************************)
(* Subscriptions, the servers hidden from automatic selection, and the     *)
(* selected server, through refreshes, removals and automatic selection.   *)
(*                                                                         *)
(* They live in three files (subscriptions.json, settings.json,            *)
(* state.json) that an operation writes one after another while it holds   *)
(* the store lock; `job' is that operation, and one action is what it does *)
(* up to and including one write.  Outside the lock run the panel's hide   *)
(* request (it reads the hidden servers, then sends the whole list back),  *)
(* the scheduler's scan (it reads which subscription is selected, then     *)
(* refreshes) and an automatic selection (it probes a snapshot).           *)
(*                                                                         *)
(* A node's id is a hash of all its fields, so the id is the node itself:  *)
(* a server renamed by its provider is another node.  The order of the     *)
(* list, names of subscriptions, traffic and expiry dates are not state    *)
(* here: a write that changes only these outdates a selection in progress. *)
(* File imports, hide keywords, health and AmneziaWG profiles are left out.*)
(***************************************************************************)
EXTENDS Naturals, Sequences, FiniteSets

CONSTANTS
    Url,         \* ids of subscriptions that are fetched
    ServerList,  \* the id "server-list" of the servers that were pasted
    Server,      \* what sameRefreshedNodeIdentity compares
    Name,        \* the provider's label of a server
    Params,      \* runtime parameters outside that identity: RawOutbound, Extras
    Feed,        \* the node lists a provider may answer with
    Pasted,      \* the nodes a user may paste
    NoSub, NoNode,
    SaveFaults,  \* writes of the three files may fail
    Deaths,      \* the process that holds the lock may die
    MaxHidden    \* bound on the hidden servers

SubId == Url \cup {ServerList}
Node == [srv : Server, name : Name, rt : Params]

ASSUME FeedAssumption == /\ Feed \subseteq Seq(Node) \ {<<>>}
                         /\ Pasted \subseteq Node
ASSUME IdAssumption == ServerList \notin Url /\ NoSub \notin SubId /\ NoNode \notin Node
ASSUME FaultAssumption == {SaveFaults, Deaths} \subseteq BOOLEAN /\ MaxHidden \in Nat

VARIABLES
    subs,    \* subscriptions.json: the nodes of each id, <<>> when it is not stored
    hidden,  \* settings.json: AutoExcludedNodes
    act,     \* state.json: the selected subscription and node, Connected, Mode
    run,     \* the server traffic goes over
    job,     \* the operation that holds the store lock
    auto,    \* the automatic selection in progress outside the lock
    panel,   \* the panel's hide request in progress
    scan,    \* the scheduler's scan: it read the selected subscription, recorded the attempt
    \* History, for the properties only:
             \* (a refresh cut off between its files, and a panel that sends back an old
             \* list, end what is known about the servers concerned)
    wish,    \* servers the user hid and their subscription has listed, once, ever since
    kept     \* the selected server: "lost", or "listed" once ever since it was selected,
             \* or besides "current": its parameters changed only where a reconnect follows

files == <<subs, hidden, act>>
history == <<wish, kept>>
vars == <<files, run, job, auto, panel, scan, history>>

Elems(list) == {list[i] : i \in DOMAIN list}
Route == [sub : SubId, node : Node]
NoRoute == [sub |-> NoSub, node |-> NoNode]
Disconnected == [sub |-> NoSub, node |-> NoNode, on |-> FALSE, mode |-> "disconnected"]
Selected(route, mode) == [sub |-> route.sub, node |-> route.node, on |-> TRUE, mode |-> mode]

NoJob == [op |-> "none", pc |-> "idle", sub |-> NoSub, node |-> NoNode, prev |-> <<>>, rest |-> {}]
NoAuto == [on |-> FALSE, pick |-> NoRoute, sub |-> NoSub]
NoPanel == [on |-> FALSE, key |-> NoRoute, hide |-> FALSE, list |-> {}]

\* Types of the three files, the operation under the lock and what runs outside it.
TypeOK ==
    /\ subs \in [SubId -> Seq(Node)]
    /\ hidden \in SUBSET Route
    /\ act \in [sub : SubId \cup {NoSub}, node : Node \cup {NoNode}, on : BOOLEAN,
                mode : {"manual", "auto", "disconnected"}]
    /\ run \in Route \cup {NoRoute}
    /\ job \in [op : {"none", "refresh", "reconnect", "all", "remove", "node", "removeall"},
                pc : {"idle", "next", "hidden", "state", "connect", "list", "selection"},
                sub : SubId \cup {NoSub}, node : Node \cup {NoNode},
                prev : Seq(Node), rest : SUBSET SubId]
    /\ auto \in [on : BOOLEAN, pick : Route \cup {NoRoute}, sub : SubId \cup {NoSub}]
    /\ panel \in [on : BOOLEAN, key : Route \cup {NoRoute}, hide : BOOLEAN, list : SUBSET Route]
    /\ scan \in {"idle", "read", "due"}
    /\ wish \in SUBSET (SubId \X Server)
    /\ kept \in {"lost", "listed", "current"}

Init ==
    /\ subs = [s \in SubId |-> <<>>]
    /\ hidden = {}
    /\ act = Disconnected
    /\ run = NoRoute
    /\ job = NoJob /\ auto = NoAuto /\ panel = NoPanel /\ scan = "idle"
    /\ wish = {} /\ kept = "lost"

Idle == job.pc = "idle"

--------------------------------------------------------------------------------
(* Helpers on node lists *)

sameRefreshedNodeIdentity(left, right) == left.srv = right.srv

\* Mutant: the extras are not compared.
sameRuntimeNodeLoose(before, after) ==
    /\ before # NoNode /\ after # NoNode
    /\ sameRefreshedNodeIdentity(before, after)

sameRuntimeNode(before, after) ==
    /\ before # NoNode /\ after # NoNode
    /\ sameRefreshedNodeIdentity(before, after)
    /\ before.rt = after.rt

nodeByID(nodes, id) == IF id \in Elems(nodes) THEN id ELSE NoNode

\* The id a node has after a refresh: its own while the list has it, else that of
\* the only entry for the same server, if there is one.
remapRefreshedNodeID(id, previous, refreshed) ==
    LET matches == {i \in DOMAIN refreshed : sameRefreshedNodeIdentity(refreshed[i], id)}
    IN  IF id \notin Elems(refreshed) /\ id \in Elems(previous) /\ Cardinality(matches) = 1
        THEN refreshed[CHOOSE i \in matches : TRUE]
        ELSE id

\* Mutant: previousNodes is taken after the new nodes were assigned.
remapRefreshedAutoExcludedNodesLate(values, s, previous, refreshed) ==
    {IF v.sub = s THEN [v EXCEPT !.node = remapRefreshedNodeID(@, refreshed, refreshed)] ELSE v
       : v \in values}

remapRefreshedAutoExcludedNodes(values, s, previous, refreshed) ==
    {IF v.sub = s THEN [v EXCEPT !.node = remapRefreshedNodeID(@, previous, refreshed)] ELSE v
       : v \in values}

\* The list after RemoveSubscriptionNode: without the first node that has the id.
Without(list, id) ==
    LET at == CHOOSE i \in DOMAIN list : list[i] = id /\ \A j \in 1..(i - 1) : list[j] # id
    IN  SubSeq(list, 1, at - 1) \o SubSeq(list, at + 1, Len(list))

autoSelectableNodes(s, excluded) == {n \in Elems(subs[s]) : [sub |-> s, node |-> n] \notin excluded}

\* History of lists that change, and of a node that is selected from a list.
ListedOnce(list, server) == Cardinality({i \in DOMAIN list : list[i].srv = server}) = 1
StillListed(lists) == {w \in wish : ListedOnce(lists[w[1]], w[2])}
StillKept(lists) == IF kept # "lost" /\ ListedOnce(lists[act.sub], act.node.srv) THEN kept ELSE "lost"
Kept(list, node) == IF ListedOnce(list, node.srv) THEN "current" ELSE "lost"
Track(lists) == wish' = StillListed(lists) /\ kept' = StillKept(lists)

\* autoSelectionSnapshotCurrentLocked compares all files with the snapshot: after a
\* write the selection in progress can only fail, and it is dropped at once.
Outdate == auto' = NoAuto

--------------------------------------------------------------------------------
(* Adding *)

\* upsertSubscription.
upsertSubscription(s, list) == [subs EXCEPT ![s] = list]

\* Nodes that were pasted join the server list; one it has already is replaced by itself.
AddServer(n) ==
    /\ Idle
    /\ subs' = IF n \in Elems(subs[ServerList]) THEN subs
               ELSE upsertSubscription(ServerList, Append(subs[ServerList], n))
    /\ Track(subs') /\ Outdate
    /\ UNCHANGED <<hidden, act, run, job, panel, scan>>

\* An id that is free, or that of a stored subscription with the same source, names
\* and nodes.
resolveAddSubscriptionID(s, list) == s \in Url /\ subs[s] \in {<<>>, list}

AddSubscription(s, list) ==
    /\ Idle /\ resolveAddSubscriptionID(s, list)
    /\ subs' = upsertSubscription(s, list)
    /\ Track(subs') /\ Outdate
    /\ UNCHANGED <<hidden, act, run, job, panel, scan>>

\* The list is written in another order or with another name: no node changes, and a
\* selection in progress is outdated.
MoveSubscription(s) ==
    /\ Idle /\ subs[s] # <<>>
    /\ \E t \in SubId \ {s} : subs[t] # <<>>
    /\ Outdate
    /\ UNCHANGED <<files, run, job, panel, scan, history>>
RenameSubscription(s) ==
    /\ Idle /\ subs[s] # <<>>
    /\ Outdate
    /\ UNCHANGED <<files, run, job, panel, scan, history>>

--------------------------------------------------------------------------------
(* Automatic selection *)

\* A snapshot of all files, and the node the probes of it will choose: one that is
\* not hidden, or none when no node is healthy (sub is then what the state will name).
Capture(s, scope, excluded) ==
    \E pick \in {NoRoute} \cup UNION {{[sub |-> c, node |-> n] : n \in autoSelectableNodes(c, excluded)} : c \in scope} :
        auto' = [on |-> TRUE, pick |-> pick, sub |-> IF pick = NoRoute THEN s ELSE NoSub]

\* AutoScope is left out: the scope is the subscription, or all of them.
Reselect(s, excluded) == \E scope \in {{s}, SubId} : Capture(s, scope, excluded)

\* One selection is followed at a time.
ConnectAuto(s) ==
    /\ Idle /\ ~auto.on /\ subs[s] # <<>>
    /\ Reselect(s, hidden)
    /\ UNCHANGED <<files, run, job, panel, scan, history>>

\* The commit takes the lock; the files are still those of the snapshot.
AutoCommit ==
    /\ Idle /\ auto.on /\ auto.pick # NoRoute
    /\ run' = auto.pick
    /\ act' = Selected(auto.pick, "auto")
    /\ kept' = Kept(subs[auto.pick.sub], auto.pick.node)
    /\ auto' = NoAuto
    /\ UNCHANGED <<subs, hidden, job, panel, scan, wish>>

AutoNoCandidate ==
    /\ Idle /\ auto.on /\ auto.pick = NoRoute
    /\ act' = [act EXCEPT !.sub = auto.sub, !.mode = "auto"]
    /\ kept' = IF act.sub = auto.sub THEN kept ELSE "lost"
    /\ auto' = NoAuto
    /\ UNCHANGED <<subs, hidden, run, job, panel, scan, wish>>

\* The node could not be applied.
AutoStops ==
    /\ auto.on
    /\ auto' = NoAuto
    /\ UNCHANGED <<files, run, job, panel, scan, history>>

--------------------------------------------------------------------------------
(* Manual selection *)

ConnectManual(s, n) ==
    /\ Idle /\ n \in Elems(subs[s])
    /\ run' = [sub |-> s, node |-> n]
    /\ act' = Selected(run', "manual")
    /\ kept' = Kept(subs[s], n)
    /\ Outdate
    /\ UNCHANGED <<subs, hidden, job, panel, scan, wish>>

Disconnect ==
    /\ Idle
    /\ run' = NoRoute
    /\ act' = Disconnected
    /\ kept' = "lost"
    /\ Outdate
    /\ UNCHANGED <<subs, hidden, job, panel, scan, wish>>

--------------------------------------------------------------------------------
(* Refreshing *)

\* The pasted servers have no source to fetch.
Answers(s) == IF s = ServerList THEN {subs[s]} ELSE Feed

\* The stored parameters of the selected node change from list `prev' to `list'.
ParamsChange(s, prev, list) ==
    LET before == nodeByID(prev, act.node)
        after == nodeByID(list, remapRefreshedNodeID(act.node, prev, list))
    IN  act.sub = s /\ before # NoNode /\ after # NoNode /\ before.rt # after.rt

SaveRefreshed(op, s, rest) ==
    \E list \in Answers(s) :
        /\ subs' = [subs EXCEPT ![s] = list]
        /\ job' = [op |-> op, pc |-> "hidden", sub |-> s, node |-> act.node,
                   prev |-> subs[s], rest |-> rest]
        /\ wish' = StillListed(subs')
        /\ kept' = IF op # "reconnect" /\ StillKept(subs') # "lost" /\ ParamsChange(s, subs[s], list)
                   THEN "listed" ELSE StillKept(subs')
        /\ Outdate
        /\ UNCHANGED <<hidden, act, run, panel>>

\* Nothing to refresh, or an expired subscription: nothing is written.  A fetch or a
\* parser that fails is recorded with the subscription.
RefreshFails ==
    /\ auto' \in {auto, NoAuto}
    /\ UNCHANGED <<files, run, panel, history>>

RefreshSubscription(s) ==
    /\ Idle /\ subs[s] # <<>>
    /\ SaveRefreshed("refresh", s, {}) \/ (RefreshFails /\ UNCHANGED job)
    /\ UNCHANGED scan

RefreshAll ==
    /\ Idle
    /\ job' = [NoJob EXCEPT !.op = "all", !.pc = "next", !.rest = {s \in SubId : subs[s] # <<>>}]
    /\ UNCHANGED <<files, run, auto, panel, scan, history>>

\* A subscription whose fetch, parse or save fails does not stop the others.
RefreshAllNext ==
    /\ job.pc = "next"
    /\ \/ \E s \in job.rest : SaveRefreshed("all", s, job.rest \ {s})
       \/ \E s \in job.rest : RefreshFails /\ job' = [job EXCEPT !.rest = @ \ {s}]
       \/ job.rest = {} /\ job' = NoJob /\ UNCHANGED <<files, run, auto, panel, history>>
    /\ UNCHANGED scan

AfterRefresh == IF job.op = "all" THEN [NoJob EXCEPT !.op = "all", !.pc = "next", !.rest = job.rest]
                ELSE NoJob

\* What is known of the servers of a subscription whose refresh was cut off: nothing of
\* the hidden ones before they were written, nothing of the selected one.
CutOff ==
    /\ wish' = IF job.pc = "hidden" THEN {w \in wish : w[1] # job.sub} ELSE wish
    /\ kept' = IF act.sub = job.sub THEN "lost" ELSE kept

\* The hidden servers follow; a failed write ends the refresh before the state file.
RefreshHidden ==
    LET remapped == remapRefreshedAutoExcludedNodes(hidden, job.sub, job.prev, subs[job.sub])
    IN  /\ job.pc = "hidden"
        /\ \/ /\ hidden' = remapped
              /\ job' = [job EXCEPT !.pc = "state"]
              /\ UNCHANGED history
           \/ /\ SaveFaults /\ remapped # hidden
              /\ job' = AfterRefresh
              /\ CutOff
              /\ hidden' = hidden
        /\ Outdate
        /\ UNCHANGED <<subs, act, run, panel, scan>>

\* Mutant: the selected id is not remapped.
RefreshStateKept ==
    /\ job.pc = "state"
    /\ job' = IF job.op = "reconnect" THEN [job EXCEPT !.pc = "connect"] ELSE AfterRefresh
    /\ Outdate
    /\ UNCHANGED <<files, run, panel, scan, history>>

\* The selected node follows; a failed write is ignored.
RefreshState ==
    LET node == IF act.sub = job.sub THEN remapRefreshedNodeID(act.node, job.prev, subs[job.sub])
                ELSE act.node
    IN  /\ job.pc = "state"
        /\ \/ act' = [act EXCEPT !.node = node] /\ kept' = kept
           \/ /\ SaveFaults /\ act' = act
              /\ kept' = IF node # act.node THEN "lost" ELSE kept
        /\ job' = IF job.op = "reconnect" THEN [job EXCEPT !.pc = "connect"] ELSE AfterRefresh
        /\ Outdate
        /\ UNCHANGED <<subs, hidden, run, panel, scan, wish>>

\* RefreshAndReconnect: nothing to do while the stored parameters are the same, else
\* the mode is applied again.
Reconnect ==
    LET before == nodeByID(job.prev, job.node)
        after == nodeByID(subs[job.sub], act.node)
        same == act.on /\ sameRuntimeNode(before, after)
    IN  /\ job.pc = "connect"
        /\ job' = NoJob
        /\ \/ /\ same \/ act.mode = "disconnected"
              /\ UNCHANGED <<act, run, auto, kept>>
           \/ /\ ~same /\ act.mode = "manual" /\ after # NoNode
              /\ run' = [sub |-> job.sub, node |-> after]
              /\ act' = Selected(run', "manual")
              /\ kept' = Kept(subs[job.sub], after)
              /\ Outdate
           \/ /\ ~same /\ act.mode = "manual"        \* not listed, or not applied
              /\ kept' = "lost"
              /\ UNCHANGED <<act, run, auto>>
           \/ /\ ~same /\ act.mode = "auto"
              /\ Reselect(job.sub, hidden)
              /\ UNCHANGED <<act, run, kept>>
        /\ UNCHANGED <<subs, hidden, panel, scan, wish>>

--------------------------------------------------------------------------------
(* The scheduler *)

\* runOnce reads which subscription is selected; it will refresh that one through
\* RefreshAndReconnect and any other one through RefreshSubscription.
ScanRead ==
    /\ scan = "idle" /\ act.on /\ act.sub # NoSub /\ subs[act.sub] # <<>>
    /\ scan' = "read"
    /\ UNCHANGED <<files, run, job, auto, panel, history>>

\* The time of the attempt is written to the state file, under the lock.
touchRefreshAttempt ==
    /\ Idle /\ scan = "read"
    /\ scan' = "due"
    /\ Outdate
    /\ UNCHANGED <<files, run, job, panel, history>>

\* RefreshAndReconnect takes whichever subscription is selected by now.
RefreshAndReconnect ==
    /\ Idle /\ scan = "due"
    /\ scan' = "idle"
    /\ \/ /\ act.sub # NoSub /\ subs[act.sub] # <<>>
          /\ SaveRefreshed("reconnect", act.sub, {})
       \/ RefreshFails /\ UNCHANGED job

--------------------------------------------------------------------------------
(* Removing *)

RemovesActive(op, s, n) ==
    \/ op = "remove" /\ act.sub = s
    \/ op = "node" /\ act.sub = s /\ act.node = n
    \/ op = "removeall" /\ act.sub # NoSub

\* Mutant: the list is written before the runtime is stopped.
RemoveBeginRunning(op, s, n) ==
    /\ Idle
    /\ \/ op = "remove" /\ subs[s] # <<>> /\ n = NoNode
       \/ op = "node" /\ n \in Elems(subs[s])
       \/ op = "removeall" /\ s = NoSub /\ n = NoNode /\ \E x \in SubId : subs[x] # <<>>
    /\ job' = [NoJob EXCEPT !.op = op, !.pc = "list", !.sub = s, !.node = n]
    /\ UNCHANGED <<files, run, auto, panel, scan, history>>

\* The runtime is stopped first when the selection is about to be removed.
RemoveBegin(op, s, n) ==
    /\ Idle
    /\ \/ op = "remove" /\ subs[s] # <<>> /\ n = NoNode
       \/ op = "node" /\ n \in Elems(subs[s])
       \/ op = "removeall" /\ s = NoSub /\ n = NoNode /\ \E x \in SubId : subs[x] # <<>>
    /\ run' = IF RemovesActive(op, s, n) THEN NoRoute ELSE run
    /\ job' = [NoJob EXCEPT !.op = op, !.pc = "list", !.sub = s, !.node = n]
    /\ UNCHANGED <<files, auto, panel, scan, history>>

\* A subscription without nodes is removed with its last node.
Remaining ==
    CASE job.op = "remove" -> [subs EXCEPT ![job.sub] = <<>>]
      [] job.op = "node" -> [subs EXCEPT ![job.sub] = Without(@, job.node)]
      [] job.op = "removeall" -> [s \in SubId |-> <<>>]

RemoveList ==
    /\ job.pc = "list"
    /\ \/ /\ subs' = Remaining
          /\ job' = IF RemovesActive(job.op, job.sub, job.node)
                    THEN [job EXCEPT !.pc = "selection"] ELSE NoJob
          /\ Track(subs') /\ Outdate
       \/ /\ SaveFaults
          /\ job' = NoJob
          /\ UNCHANGED <<subs, auto, wish, kept>>
    /\ UNCHANGED <<hidden, act, run, panel, scan>>

persistDisconnectedState ==
    /\ job.pc = "selection"
    /\ job' = NoJob
    /\ \/ act' = Disconnected /\ kept' = "lost"
       \/ SaveFaults /\ UNCHANGED <<act, kept>>
    /\ Outdate
    /\ UNCHANGED <<subs, hidden, run, panel, scan, wish>>

--------------------------------------------------------------------------------
(* The panel: hide or restore a server *)

\* A server that is shown may be hidden, one that is hidden may be restored.
PanelRead(key) ==
    /\ ~panel.on /\ key.node \in Elems(subs[key.sub])
    /\ panel' = [on |-> TRUE, key |-> key, hide |-> key \notin hidden, list |-> hidden]
    /\ UNCHANGED <<files, run, job, auto, scan, history>>

\* setAutoExclusions stores the list as it was sent; when it hides the node that is
\* selected automatically, another one is selected.
PanelWrite ==
    LET sent == (panel.list \ {panel.key}) \cup (IF panel.hide THEN {panel.key} ELSE {})
        server == <<panel.key.sub, panel.key.node.srv>>
        listed == panel.key.node \in Elems(subs[panel.key.sub])
                  /\ ListedOnce(subs[panel.key.sub], panel.key.node.srv)
    IN  /\ Idle /\ panel.on /\ Cardinality(sent) <= MaxHidden
        /\ panel' = NoPanel
        /\ hidden' = sent
        /\ wish' = (IF panel.list = hidden THEN wish \ {server} ELSE {})
                   \cup (IF panel.hide /\ listed THEN {server} ELSE {})
        /\ IF act.on /\ act.mode = "auto" /\ [sub |-> act.sub, node |-> act.node] \in sent
           THEN Reselect(act.sub, sent) ELSE Outdate
        /\ UNCHANGED <<subs, act, run, job, scan, kept>>

PanelFails ==
    /\ panel.on
    /\ panel' = NoPanel
    /\ UNCHANGED <<files, run, job, auto, scan, history>>

--------------------------------------------------------------------------------

\* The process that holds the lock is killed.
JobDies ==
    /\ Deaths /\ ~Idle
    /\ job' = NoJob
    /\ IF job.pc \in {"hidden", "state", "connect"} THEN CutOff ELSE UNCHANGED history
    /\ UNCHANGED <<files, run, auto, panel, scan>>

Next ==
    \/ \E n \in Pasted : AddServer(n)
    \/ \E s \in Url, list \in Feed : AddSubscription(s, list)
    \/ \E s \in SubId : MoveSubscription(s) \/ RenameSubscription(s)
    \/ \E s \in SubId : ConnectAuto(s) \/ RefreshSubscription(s) \/ RemoveBegin("remove", s, NoNode)
    \/ \E s \in SubId : \E n \in Elems(subs[s]) :
           \/ ConnectManual(s, n)
           \/ RemoveBegin("node", s, n)
           \/ PanelRead([sub |-> s, node |-> n])
    \/ RemoveBegin("removeall", NoSub, NoNode)
    \/ AutoCommit \/ AutoNoCandidate \/ AutoStops \/ Disconnect
    \/ RefreshAll \/ RefreshAllNext \/ RefreshHidden \/ RefreshState \/ Reconnect
    \/ ScanRead \/ touchRefreshAttempt \/ RefreshAndReconnect \/ RemoveList \/ persistDisconnectedState
    \/ PanelWrite \/ PanelFails \/ JobDies

Spec == Init /\ [][Next]_vars

--------------------------------------------------------------------------------
(* Properties *)

\* A server the user hid stays hidden under whatever name its provider gives it, as
\* long as it is listed exactly once and no refresh was cut off between its files
\* (refreshSubscription remaps AutoExcludedNodes from the old list to the new).
HiddenStaysHidden ==
    Idle =>
        \A w \in wish : \A n \in Elems(subs[w[1]]) :
            n.srv = w[2] => [sub |-> w[1], node |-> n] \in hidden

\* The selection follows its server through renames: while the server is listed
\* exactly once, the selected id is one its subscription has, so that recovery does
\* not take a renamed server for a missing one.
SelectionFollowsRename ==
    Idle /\ kept # "lost" => act.node \in Elems(subs[act.sub])

\* RemoveSubscription and RemoveAllSubscriptions write a list without the selected
\* subscription only after the transport has been stopped, whatever save fails and
\* whoever is killed.
StoppedBeforeRemoved ==
    [][ (job.op \in {"remove", "removeall"} /\ act.sub # NoSub
          /\ subs[act.sub] # <<>> /\ subs'[act.sub] = <<>>) => run = NoRoute ]_vars

\* The scheduler's refresh of the selected subscription leaves traffic on the
\* parameters the list now has for the selected server, unless they were changed by a
\* refresh that does not reconnect or the new ones could not be applied.
ReconnectApplies ==
    Idle /\ kept = "current" /\ act.mode = "manual" /\ run # NoRoute =>
        run.sub = act.sub /\ run.node.srv = act.node.srv /\ run.node.rt = act.node.rt

================================================================================
