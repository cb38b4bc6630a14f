--------------------------- MODULE Subscriptions_proofs ---------------------------
(***************************************************************************)
(* What refreshes, removals and selections guarantee for every set of      *)
(* subscriptions, servers, names and parameters and every list a provider  *)
(* may answer with.  Under the lock the list of before a refresh (`prev')  *)
(* is the one the stored ids were taken from, until each of the two other  *)
(* files has followed; a server listed exactly once has one id to follow.  *)
(***************************************************************************)
EXTENDS Subscriptions, FiniteSetTheorems, SequenceTheorems, WellFoundedInduction, TLAPS

Refreshing == {"hidden", "state", "connect"}
Removals == {"remove", "node", "removeall"}

\* Which operation is at which step, and what it is about.
JobShape ==
    /\ job.pc = "idle" => job.op = "none"
    /\ job.pc = "next" => job.op = "all"
    /\ job.pc \in {"hidden", "state"} => job.op \in {"refresh", "reconnect", "all"}
    /\ job.pc = "connect" => job.op = "reconnect"
    /\ job.pc \in Refreshing => job.sub \in SubId
    /\ job.pc \in {"list", "selection"} => job.op \in Removals
    /\ job.pc = "list" /\ job.op \in {"remove", "node"} => job.sub \in SubId
    /\ job.pc = "list" /\ job.op = "node" => job.node \in Elems(subs[job.sub])

\* What runs outside the lock is about nodes there are.
OutsideOK ==
    /\ panel.on => panel.key \in Route
    /\ auto.pick # NoRoute => auto.pick.node \in Elems(subs[auto.pick.sub])

TypeInv == TypeOK /\ JobShape /\ OutsideOK

\* A removal of the selection goes on without a transport.
StoppedFirst == job.pc = "list" /\ RemovesActive(job.op, job.sub, job.node) => run = NoRoute

\* Every server that must stay hidden is listed once; it is hidden under the id it has
\* in the list, or in the list of before as long as its key has not followed.
KeysOf(s) == IF job.pc = "hidden" /\ s = job.sub THEN job.prev ELSE subs[s]
WishOK ==
    \A w \in wish :
        /\ ListedOnce(subs[w[1]], w[2])
        /\ \E n \in Elems(KeysOf(w[1])) : n.srv = w[2]
        /\ \A n \in Elems(KeysOf(w[1])) : n.srv = w[2] => [sub |-> w[1], node |-> n] \in hidden

\* The same for the selected server.
IdOf == IF job.pc \in {"hidden", "state"} /\ act.sub = job.sub THEN job.prev ELSE subs[act.sub]
KeptOK ==
    kept # "lost" =>
        /\ act.sub \in SubId /\ act.node \in Node
        /\ ListedOnce(subs[act.sub], act.node.srv)
        /\ act.node \in Elems(IdOf)

\* A scheduled refresh remembers the node it started from, until it compares.
StartedFrom ==
    job.pc \in Refreshing /\ job.op = "reconnect" =>
        /\ act.sub = job.sub
        /\ job.pc # "connect" => job.node = act.node
        /\ job.pc = "connect" /\ kept # "lost" => job.node \in Elems(job.prev)

\* Any other refresh that changes the parameters of the selected server is known to.
ParamsKept ==
    job.pc \in {"hidden", "state"} /\ job.op # "reconnect" /\ act.sub = job.sub /\ kept = "current" =>
        remapRefreshedNodeID(act.node, job.prev, subs[job.sub]).rt = act.node.rt

\* Traffic is on the parameters of the selected node, or of the one a scheduled
\* refresh started from.
RunOK ==
    kept = "current" /\ act.mode = "manual" /\ run # NoRoute =>
        /\ run.sub = act.sub /\ run.node.srv = act.node.srv
        /\ run.node.rt = (IF job.pc = "connect" THEN job.node ELSE act.node).rt

SelectionInv == KeptOK /\ StartedFrom /\ ParamsKept /\ RunOK

--------------------------------------------------------------------------------
(* Node lists *)

\* The elements of a list of nodes.
LEMMA ListElems ==
    ASSUME NEW list \in Seq(Node)
    PROVE  /\ Len(list) \in Nat /\ DOMAIN list = 1 .. Len(list)
           /\ \A i \in DOMAIN list : list[i] \in Node /\ list[i] \in Elems(list)
           /\ Elems(list) \subseteq Node
BY LenProperties, ElementOfSeq DEF Elems

\* A set of indexes of a list has one member when its cardinality is 1.
LEMMA OneIndex ==
    ASSUME NEW list \in Seq(Node), NEW S \in SUBSET DOMAIN list
    PROVE  Cardinality(S) = 1 <=> \E i : S = {i}
<1>1. IsFiniteSet(DOMAIN list)
  BY ListElems, FS_Interval
<1>2. IsFiniteSet(S)
  BY <1>1, FS_Subset
<1> QED
  BY <1>2, FS_Singleton

\* A server that is listed once has one index.
LEMMA OnceAt ==
    ASSUME NEW list \in Seq(Node), NEW server
    PROVE  ListedOnce(list, server) <=>
             \E i \in DOMAIN list : /\ list[i].srv = server
                                    /\ \A j \in DOMAIN list : list[j].srv = server => j = i
<1> DEFINE S == {i \in DOMAIN list : list[i].srv = server}
<1>1. Cardinality(S) = 1 <=> \E i : S = {i}
  BY OneIndex
<1>2. ASSUME NEW i, S = {i}
      PROVE  i \in DOMAIN list /\ list[i].srv = server /\ \A j \in DOMAIN list : list[j].srv = server => j = i
  BY <1>2
<1>3. ASSUME NEW i \in DOMAIN list, list[i].srv = server, \A j \in DOMAIN list : list[j].srv = server => j = i
      PROVE  S = {i}
  BY <1>3
<1> QED
  BY <1>1, <1>2, <1>3 DEF ListedOnce

\* ... and one id.
LEMMA OnceId ==
    ASSUME NEW list \in Seq(Node), NEW server, ListedOnce(list, server)
    PROVE  /\ \E n \in Elems(list) : n.srv = server
           /\ \A m, n \in Elems(list) : m.srv = server /\ n.srv = server => m = n
BY OnceAt, ListElems DEF Elems

\* An empty list lists nothing.
LEMMA EmptyList ==
    /\ <<>> \in Seq(Node) /\ Elems(<<>>) = {}
    /\ \A server : ~ListedOnce(<<>>, server)
<1>1. <<>> \in Seq(Node) /\ DOMAIN <<>> = {}
  BY EmptySeq, LenProperties
<1> QED
  BY <1>1, OnceAt DEF Elems

\* A pasted node joins the nodes there are.
LEMMA Appended ==
    ASSUME NEW list \in Seq(Node), NEW n \in Node
    PROVE  /\ Append(list, n) \in Seq(Node) /\ Append(list, n) # <<>>
           /\ Elems(Append(list, n)) = Elems(list) \cup {n}
<1>1. /\ Append(list, n) \in Seq(Node) /\ Append(list, n) # <<>>
      /\ Len(Append(list, n)) = Len(list) + 1
      /\ \A i \in 1 .. Len(list) : Append(list, n)[i] = list[i]
      /\ Append(list, n)[Len(list) + 1] = n
  BY AppendProperties
<1>2. DOMAIN Append(list, n) = 1 .. Len(list) + 1 /\ DOMAIN list = 1 .. Len(list) /\ Len(list) \in Nat
  BY <1>1, ListElems
<1> QED
  BY <1>1, <1>2 DEF Elems

\* A node that is listed has a first place.
LEMMA FirstPlace ==
    ASSUME NEW list \in Seq(Node), NEW id \in Elems(list)
    PROVE  \E i \in DOMAIN list : list[i] = id /\ \A j \in 1 .. (i - 1) : list[j] # id
<1> DEFINE T == {i \in DOMAIN list : list[i] = id}
           R == OpToRel(<, Nat)
<1>1. T \subseteq Nat /\ T # {}
  BY ListElems DEF Elems
<1>2. \E i \in T : \A j \in T : ~(<<j, i>> \in R)
  <2> HIDE DEF T, R
  <2>1. IsWellFoundedOn(R, Nat)
    BY NatLessThanWellFounded DEF R
  <2> QED
    BY <1>1, <2>1, WFMin
<1>3. PICK i \in T : \A j \in T : ~(<<j, i>> \in R)
  BY <1>2
<1>4. \A j \in T : ~(j < i)
  BY <1>1, <1>3 DEF OpToRel
<1>5. i \in DOMAIN list /\ list[i] = id
  OBVIOUS
<1>6. \A j \in 1 .. (i - 1) : list[j] # id
  BY <1>4, <1>5, ListElems
<1> QED
  BY <1>5, <1>6

\* RemoveSubscriptionNode leaves nodes of the list.
LEMMA WithoutLeaves ==
    ASSUME NEW list \in Seq(Node), NEW id \in Elems(list)
    PROVE  Without(list, id) \in Seq(Node) /\ Elems(Without(list, id)) \subseteq Elems(list)
<1> DEFINE at == CHOOSE i \in DOMAIN list : list[i] = id /\ \A j \in 1 .. (i - 1) : list[j] # id
           E == Elems(list)
<1>1. at \in DOMAIN list
  BY FirstPlace
<1>2. DOMAIN list = 1 .. Len(list) /\ Len(list) \in Nat /\ \A i \in 1 .. Len(list) : list[i] \in E
  BY ListElems
<1> HIDE DEF at
<1>3. SubSeq(list, 1, at - 1) \in Seq(E)
  BY <1>1, <1>2, SubSeqProperties
<1>4. SubSeq(list, at + 1, Len(list)) \in Seq(E)
  BY <1>1, <1>2, SubSeqProperties
<1>5. Without(list, id) \in Seq(E)
  BY <1>3, <1>4, ConcatProperties DEF Without, at
<1>6. Elems(Without(list, id)) \subseteq E
  BY <1>5, LenProperties, ElementOfSeq DEF Elems
<1>7. Without(list, id) \in Seq(Node)
  <2> DEFINE w == Without(list, id)
  <2>1. Len(w) \in Nat /\ w \in [1 .. Len(w) -> E]
    BY <1>5, LenProperties
  <2>2. E \subseteq Node
    BY ListElems
  <2> QED
    BY <1>5, <2>2
<1> QED
  BY <1>6, <1>7

\* What a refresh makes of a node: a node, and the entry of its server when the new
\* list has one such entry and one of the lists has the node.
LEMMA Remapped ==
    ASSUME NEW id \in Node \cup {NoNode}, NEW prev \in Seq(Node), NEW list \in Seq(Node)
    PROVE  /\ remapRefreshedNodeID(id, prev, list) \in Node \cup {NoNode}
           /\ id \in Node => remapRefreshedNodeID(id, prev, list) \in Node
           /\ (id \in Elems(prev) \cup Elems(list) /\ ListedOnce(list, id.srv)) =>
                /\ remapRefreshedNodeID(id, prev, list) \in Elems(list)
                /\ remapRefreshedNodeID(id, prev, list).srv = id.srv
           /\ id \in Elems(list) => remapRefreshedNodeID(id, prev, list) = id
<1> DEFINE matches == {i \in DOMAIN list : list[i].srv = id.srv}
           new == list[CHOOSE i \in matches : TRUE]
<1>1. Cardinality(matches) = 1 => new \in Elems(list) /\ new.srv = id.srv
  <2>1. Cardinality(matches) = 1 => \E i : matches = {i}
    BY OneIndex
  <2> QED
    BY <2>1, ListElems
<1>2. remapRefreshedNodeID(id, prev, list) =
        IF id \notin Elems(list) /\ id \in Elems(prev) /\ Cardinality(matches) = 1 THEN new ELSE id
  BY DEF remapRefreshedNodeID, sameRefreshedNodeIdentity
<1>3. ListedOnce(list, id.srv) => Cardinality(matches) = 1
  BY DEF ListedOnce
<1>4. Elems(list) \subseteq Node
  BY ListElems
<1> HIDE DEF matches, new
<1> QED
  BY <1>1, <1>2, <1>3, <1>4

--------------------------------------------------------------------------------
(* Types *)

Acts == [sub : SubId \cup {NoSub}, node : Node \cup {NoNode}, on : BOOLEAN,
         mode : {"manual", "auto", "disconnected"}]
Jobs == [op : {"none", "refresh", "reconnect", "all", "remove", "node", "removeall"},
         pc : {"idle", "next", "hidden", "state", "connect", "list", "selection"},
         sub : SubId \cup {NoSub}, node : Node \cup {NoNode},
         prev : Seq(Node), rest : SUBSET SubId]
Autos == [on : BOOLEAN, pick : Route \cup {NoRoute}, sub : SubId \cup {NoSub}]
Panels == [on : BOOLEAN, key : Route \cup {NoRoute}, hide : BOOLEAN, list : SUBSET Route]

\* The records an operation, a selection and a request fall back to.
LEMMA Resting ==
    /\ NoJob \in Jobs /\ NoJob.pc = "idle" /\ NoJob.op = "none"
    /\ NoAuto \in Autos /\ NoAuto.pick = NoRoute /\ ~NoAuto.on
    /\ NoPanel \in Panels /\ ~NoPanel.on
    /\ Disconnected \in Acts
    /\ \A r \in Route : /\ Selected(r, "manual") \in Acts /\ Selected(r, "auto") \in Acts
                        /\ r # NoRoute /\ r.sub \in SubId /\ r.node \in Node
    /\ \A s \in SubId, n \in Node : [sub |-> s, node |-> n] \in Route
<1>1. <<>> \in Seq(Node) /\ {} \in SUBSET SubId
  BY EmptyList
<1> QED
  BY <1>1, IdAssumption DEF NoJob, Jobs, NoAuto, Autos, NoPanel, Panels, Disconnected, Acts,
       Selected, Route, NoRoute

\* A refresh that is over: the next subscription of "all", or nothing.
LEMMA AfterRefreshIs ==
    ASSUME job \in Jobs
    PROVE  /\ AfterRefresh \in Jobs
           /\ \/ AfterRefresh.pc = "next" /\ AfterRefresh.op = "all"
              \/ AfterRefresh.pc = "idle" /\ AfterRefresh.op = "none"
<1> DEFINE next == [NoJob EXCEPT !.op = "all", !.pc = "next", !.rest = job.rest]
<1>1. next \in Jobs /\ next.pc = "next" /\ next.op = "all"
  BY Resting DEF Jobs
<1> QED
  BY <1>1, Resting DEF AfterRefresh

\* The history of a step that changes lists.
LEMMA TrackTypes ==
    ASSUME TypeOK, NEW lists
    PROVE  /\ StillListed(lists) \in SUBSET wish /\ StillListed(lists) \in SUBSET (SubId \X Server)
           /\ StillKept(lists) \in {kept, "lost"} /\ StillKept(lists) \in {"lost", "listed", "current"}
BY DEF TypeOK, StillListed, StillKept

\* A selection that starts from the stored lists picks a node they have.
LEMMA Captured ==
    ASSUME TypeOK, NEW s \in SubId, NEW excluded, Reselect(s, excluded), subs' = subs
    PROVE  /\ auto' \in Autos
           /\ auto'.pick # NoRoute => auto'.pick.node \in Elems(subs'[auto'.pick.sub])
<1>1. PICK scope \in SUBSET SubId : Capture(s, scope, excluded)
  <2>1. \E scope \in {{s}, SubId} : Capture(s, scope, excluded)
    BY DEF Reselect
  <2> QED
    BY <2>1
<1>2. PICK pick \in {NoRoute} \cup UNION {{[sub |-> c, node |-> n] : n \in autoSelectableNodes(c, excluded)} : c \in scope} :
        auto' = [on |-> TRUE, pick |-> pick, sub |-> IF pick = NoRoute THEN s ELSE NoSub]
  BY <1>1 DEF Capture
<1>3. pick # NoRoute => \E c \in SubId : \E n \in Elems(subs[c]) : pick = [sub |-> c, node |-> n]
  BY <1>2 DEF autoSelectableNodes
<1>4. \A c \in SubId : Elems(subs[c]) \subseteq Node
  BY ListElems DEF TypeOK
<1>5. pick # NoRoute => pick \in Route /\ pick.node \in Elems(subs[pick.sub])
  BY <1>3, <1>4, Resting
<1> QED
  BY <1>2, <1>5 DEF Autos

\* Nothing is stored, selected or in progress at first.
LEMMA TypeInit == Init => TypeInv
<1> SUFFICES ASSUME Init PROVE TypeInv
  OBVIOUS
<1>1. TypeOK
  BY EmptyList, Resting DEF Init, TypeOK, Acts, Jobs, Autos, Panels
<1>2. JobShape /\ OutsideOK
  BY Resting DEF Init, JobShape, OutsideOK, Refreshing
<1> QED
  BY <1>1, <1>2 DEF TypeInv

\* A step after which no operation holds the lock and no selection is in progress
\* needs only the types.
LEMMA Settled ==
    ASSUME TypeOK', job'.pc = "idle", job'.op = "none", auto'.pick = NoRoute,
           panel' \in {panel, NoPanel}, TypeInv
    PROVE  TypeInv'
BY Resting DEF TypeInv, JobShape, OutsideOK, Refreshing

\* The write of a refreshed list.
LEMMA SavedTypes ==
    ASSUME TypeInv, NEW op \in {"refresh", "reconnect", "all"}, NEW s \in SubId, NEW rest \in SUBSET SubId,
           SaveRefreshed(op, s, rest), scan' \in {"idle", "read", "due"}
    PROVE  TypeInv'
<1>1. PICK list \in Answers(s) :
        /\ subs' = [subs EXCEPT ![s] = list]
        /\ job' = [op |-> op, pc |-> "hidden", sub |-> s, node |-> act.node,
                   prev |-> subs[s], rest |-> rest]
        /\ wish' = StillListed(subs')
        /\ kept' = IF op # "reconnect" /\ StillKept(subs') # "lost" /\ ParamsChange(s, subs[s], list)
                   THEN "listed" ELSE StillKept(subs')
        /\ Outdate
        /\ UNCHANGED <<hidden, act, run, panel>>
  BY DEF SaveRefreshed
<1>2. TypeOK
  BY DEF TypeInv
<1>3. list \in Seq(Node)
  BY <1>2, FeedAssumption DEF Answers, TypeOK
<1>4. subs' \in [SubId -> Seq(Node)]
  BY <1>1, <1>2, <1>3 DEF TypeOK
<1>5. job' \in Jobs /\ job'.pc = "hidden" /\ job'.sub = s /\ job'.op = op
  BY <1>1, <1>2 DEF TypeOK, Jobs
<1>6. wish' \in SUBSET (SubId \X Server) /\ kept' \in {"lost", "listed", "current"}
  BY <1>1, <1>2, TrackTypes
<1>7. TypeOK'
  BY <1>1, <1>2, <1>4, <1>5, <1>6, Resting, ZenonT(60) DEF TypeOK, Outdate, Jobs, Autos
<1>8. JobShape'
  BY <1>5 DEF JobShape, Refreshing
<1>9. OutsideOK'
  BY <1>1, Resting DEF TypeInv, OutsideOK, Outdate
<1> QED
  BY <1>7, <1>8, <1>9 DEF TypeInv

\* A refresh that only records its failure.
LEMMA FailedTypes ==
    ASSUME TypeInv, RefreshFails, scan' \in {"idle", "read", "due"},
           job' \in Jobs, JobShape'
    PROVE  TypeInv'
BY Resting DEF TypeInv, TypeOK, OutsideOK, RefreshFails, files, history, Jobs, Autos

\* What the types say, in the form the steps below use it.
LEMMA Typed ==
    TypeOK <=> /\ subs \in [SubId -> Seq(Node)] /\ hidden \in SUBSET Route
               /\ act \in Acts /\ run \in Route \cup {NoRoute}
               /\ job \in Jobs /\ auto \in Autos /\ panel \in Panels
               /\ scan \in {"idle", "read", "due"}
               /\ wish \in SUBSET (SubId \X Server) /\ kept \in {"lost", "listed", "current"}
BY DEF TypeOK, Acts, Jobs, Autos, Panels

\* The same for the state after a step.
LEMMA TypedNext ==
    TypeOK' <=> /\ subs' \in [SubId -> Seq(Node)] /\ hidden' \in SUBSET Route
                /\ act' \in Acts /\ run' \in Route \cup {NoRoute}
                /\ job' \in Jobs /\ auto' \in Autos /\ panel' \in Panels
                /\ scan' \in {"idle", "read", "due"}
                /\ wish' \in SUBSET (SubId \X Server) /\ kept' \in {"lost", "listed", "current"}
BY DEF TypeOK, Acts, Jobs, Autos, Panels

\* A removal that begins.
LEMMA BegunTypes ==
    ASSUME TypeInv, NEW op \in Removals, NEW s \in SubId \cup {NoSub}, NEW n \in Node \cup {NoNode},
           op \in {"remove", "node"} => s \in SubId, RemoveBegin(op, s, n)
    PROVE  /\ TypeInv'
           /\ job'.pc = "list" /\ job'.op = op /\ job'.sub = s /\ job'.node = n
<1> DEFINE j == [NoJob EXCEPT !.op = op, !.pc = "list", !.sub = s, !.node = n]
<1>1. j \in Jobs /\ j.pc = "list" /\ j.op = op /\ j.sub = s /\ j.node = n
  BY Resting DEF Jobs, Removals
<1>2. job' = j
  BY DEF RemoveBegin
<1> HIDE DEF j
<1>3. TypeOK'
  BY <1>1, <1>2, Typed, TypedNext DEF TypeInv, RemoveBegin, files, history
<1>4. JobShape'
  BY <1>1, <1>2 DEF JobShape, RemoveBegin, Refreshing, Removals, files
<1> QED
  BY <1>1, <1>2, <1>3, <1>4 DEF TypeInv, OutsideOK, RemoveBegin, files

\* Every step keeps the types.
LEMMA TypeStep == TypeInv /\ [Next]_vars => TypeInv'
<1> SUFFICES ASSUME TypeInv, [Next]_vars PROVE TypeInv'
  OBVIOUS
<1>a. /\ subs \in [SubId -> Seq(Node)] /\ hidden \in SUBSET Route
      /\ act \in Acts /\ run \in Route \cup {NoRoute}
      /\ job \in Jobs /\ auto \in Autos /\ panel \in Panels
      /\ scan \in {"idle", "read", "due"}
      /\ wish \in SUBSET (SubId \X Server) /\ kept \in {"lost", "listed", "current"}
      /\ TypeOK
  BY Typed DEF TypeInv
<1>b. \A s \in SubId : subs[s] \in Seq(Node) /\ Elems(subs[s]) \subseteq Node
  BY <1>a, ListElems
<1>c. Idle => job.pc = "idle" /\ job.op = "none"
  BY DEF TypeInv, JobShape, Idle
<1> USE DEF files, history
<1>1. ASSUME NEW n \in Pasted, AddServer(n) PROVE TypeInv'
  <2>1. Append(subs[ServerList], n) \in Seq(Node)
    BY <1>b, FeedAssumption, Appended DEF SubId
  <2>2. subs' \in [SubId -> Seq(Node)]
    BY <1>1, <1>a, <2>1 DEF AddServer, upsertSubscription
  <2>3. wish' \in SUBSET (SubId \X Server) /\ kept' \in {"lost", "listed", "current"}
    BY <1>1, <1>a, TrackTypes DEF AddServer, Track
  <2>4. TypeOK'
    BY <1>1, <1>a, <2>2, <2>3, Resting, TypedNext DEF AddServer, Outdate
  <2> QED
    BY <1>1, <1>c, <2>4, Resting, Settled DEF AddServer, Outdate
<1>2. ASSUME NEW s \in Url, NEW list \in Feed, AddSubscription(s, list) PROVE TypeInv'
  <2>1. subs' \in [SubId -> Seq(Node)]
    BY <1>2, <1>a, FeedAssumption DEF AddSubscription, upsertSubscription, SubId
  <2>2. wish' \in SUBSET (SubId \X Server) /\ kept' \in {"lost", "listed", "current"}
    BY <1>2, <1>a, TrackTypes DEF AddSubscription, Track
  <2>3. TypeOK'
    BY <1>2, <1>a, <2>1, <2>2, Resting, TypedNext DEF AddSubscription, Outdate
  <2> QED
    BY <1>2, <1>c, <2>3, Resting, Settled DEF AddSubscription, Outdate
<1>3. ASSUME NEW s \in SubId, MoveSubscription(s) \/ RenameSubscription(s) PROVE TypeInv'
  <2>1. TypeOK'
    BY <1>3, <1>a, Resting, TypedNext DEF MoveSubscription, RenameSubscription, Outdate
  <2> QED
    BY <1>3, <1>c, <2>1, Resting, Settled DEF MoveSubscription, RenameSubscription, Outdate
<1>4. ASSUME NEW s \in SubId, ConnectAuto(s) PROVE TypeInv'
  <2>1. /\ auto' \in Autos
        /\ auto'.pick # NoRoute => auto'.pick.node \in Elems(subs'[auto'.pick.sub])
    BY <1>4, <1>a, Captured DEF ConnectAuto
  <2>2. TypeOK'
    BY <1>4, <1>a, <2>1, TypedNext DEF ConnectAuto
  <2> QED
    BY <1>4, <2>1, <2>2 DEF ConnectAuto, TypeInv, JobShape, OutsideOK, Refreshing
<1>5. ASSUME NEW s \in SubId, RefreshSubscription(s) PROVE TypeInv'
  <2>1. CASE SaveRefreshed("refresh", s, {})
    BY <1>5, <1>a, <2>1, SavedTypes DEF RefreshSubscription
  <2>2. CASE RefreshFails /\ UNCHANGED job
    <3>1. JobShape'
      BY <2>2 DEF TypeInv, JobShape, RefreshFails, Refreshing
    <3> QED
      BY <1>5, <1>a, <2>2, <3>1, FailedTypes DEF RefreshSubscription
  <2> QED
    BY <1>5, <2>1, <2>2 DEF RefreshSubscription
<1>6. ASSUME NEW s \in SubId, RemoveBegin("remove", s, NoNode) PROVE TypeInv'
  BY <1>6, BegunTypes DEF Removals
<1>7. ASSUME NEW s \in SubId, NEW n \in Elems(subs[s]), ConnectManual(s, n) PROVE TypeInv'
  <2>1. run' \in Route
    BY <1>7, <1>b, Resting DEF ConnectManual
  <2>2. kept' \in {"lost", "listed", "current"}
    BY <1>7 DEF ConnectManual, Kept
  <2>3. TypeOK'
    BY <1>7, <1>a, <2>1, <2>2, Resting, TypedNext DEF ConnectManual, Outdate
  <2> QED
    BY <1>7, <1>c, <2>3, Resting, Settled DEF ConnectManual, Outdate
<1>8. ASSUME NEW s \in SubId, NEW n \in Elems(subs[s]), RemoveBegin("node", s, n) PROVE TypeInv'
  BY <1>8, <1>b, BegunTypes DEF Removals
<1>9. ASSUME NEW s \in SubId, NEW n \in Elems(subs[s]), PanelRead([sub |-> s, node |-> n]) PROVE TypeInv'
  <2>1. [sub |-> s, node |-> n] \in Route
    BY <1>b, Resting
  <2>2. panel' \in Panels /\ panel'.key \in Route
    BY <1>9, <1>a, <2>1 DEF PanelRead, Panels
  <2>3. TypeOK'
    BY <1>9, <1>a, <2>2, TypedNext DEF PanelRead
  <2> QED
    BY <1>9, <2>2, <2>3 DEF PanelRead, TypeInv, JobShape, OutsideOK, Refreshing
<1>10. ASSUME RemoveBegin("removeall", NoSub, NoNode) PROVE TypeInv'
  BY <1>10, BegunTypes DEF Removals
<1>11. CASE AutoCommit
  <2>1. auto.pick \in Route
    BY <1>11, <1>a DEF AutoCommit, Autos
  <2>2. kept' \in {"lost", "listed", "current"}
    BY <1>11 DEF AutoCommit, Kept
  <2>3. TypeOK'
    BY <1>11, <1>a, <2>1, <2>2, Resting, TypedNext DEF AutoCommit
  <2> QED
    BY <1>11, <1>c, <2>3, Resting, Settled DEF AutoCommit
<1>12. CASE AutoNoCandidate
  <2>1. auto.sub \in SubId \cup {NoSub}
    BY <1>a DEF Autos
  <2>2. act' \in Acts
    BY <1>12, <1>a, <2>1 DEF AutoNoCandidate, Acts
  <2>3. TypeOK'
    BY <1>12, <1>a, <2>2, Resting, TypedNext DEF AutoNoCandidate
  <2> QED
    BY <1>12, <1>c, <2>3, Resting, Settled DEF AutoNoCandidate
<1>13. CASE AutoStops
  <2>1. TypeOK'
    BY <1>13, <1>a, Resting, TypedNext DEF AutoStops
  <2> QED
    BY <1>13, <2>1, Resting DEF AutoStops, TypeInv, JobShape, OutsideOK, Refreshing
<1>14. CASE Disconnect
  <2>1. TypeOK'
    BY <1>14, <1>a, Resting, TypedNext DEF Disconnect, Outdate
  <2> QED
    BY <1>14, <1>c, <2>1, Resting, Settled DEF Disconnect, Outdate
<1>15. CASE RefreshAll
  <2>1. job' \in Jobs /\ job'.pc = "next" /\ job'.op = "all"
    BY <1>15, Resting DEF RefreshAll, Jobs
  <2>2. TypeOK'
    BY <1>15, <1>a, <2>1, TypedNext DEF RefreshAll
  <2> QED
    BY <1>15, <2>1, <2>2 DEF RefreshAll, TypeInv, JobShape, OutsideOK, Refreshing
<1>16. CASE RefreshAllNext
  <2>0. job.rest \in SUBSET SubId
    BY <1>a DEF Jobs
  <2>1. ASSUME NEW s \in job.rest, SaveRefreshed("all", s, job.rest \ {s}) PROVE TypeInv'
    BY <1>16, <1>a, <2>0, <2>1, SavedTypes DEF RefreshAllNext
  <2>2. ASSUME NEW s \in job.rest, RefreshFails, job' = [job EXCEPT !.rest = @ \ {s}] PROVE TypeInv'
    <3>1. job' \in Jobs /\ job'.pc = "next" /\ job'.op = "all"
      BY <1>16, <1>a, <2>2 DEF RefreshAllNext, Jobs, TypeInv, JobShape
    <3>2. JobShape'
      BY <3>1 DEF JobShape, Refreshing
    <3> QED
      BY <1>16, <1>a, <2>2, <3>1, <3>2, FailedTypes DEF RefreshAllNext
  <2>3. ASSUME job' = NoJob, UNCHANGED <<files, run, auto, panel, history>> PROVE TypeInv'
    <3>1. TypeOK'
      BY <1>16, <1>a, <2>3, Resting, TypedNext DEF RefreshAllNext
    <3> QED
      BY <2>3, <3>1, Resting DEF TypeInv, JobShape, OutsideOK, Refreshing
  <2> QED
    BY <1>16, <2>1, <2>2, <2>3 DEF RefreshAllNext
<1>17. CASE RefreshHidden
  <2>0. job.pc = "hidden" /\ job.sub \in SubId /\ job.prev \in Seq(Node) /\ subs[job.sub] \in Seq(Node)
    BY <1>17, <1>a DEF RefreshHidden, TypeInv, JobShape, Refreshing, Jobs
  <2>1. remapRefreshedAutoExcludedNodes(hidden, job.sub, job.prev, subs[job.sub]) \in SUBSET Route
    <3>1. \A v \in hidden : remapRefreshedNodeID(v.node, job.prev, subs[job.sub]) \in Node
      BY <1>a, <2>0, Remapped DEF Route
    <3> QED
      BY <1>a, <3>1 DEF remapRefreshedAutoExcludedNodes, Route
  <2>2. hidden' \in SUBSET Route
    BY <1>17, <1>a, <2>1 DEF RefreshHidden
  <2>3. job' \in Jobs /\ JobShape'
    <3>1. job' = [job EXCEPT !.pc = "state"] \/ job' = AfterRefresh
      BY <1>17 DEF RefreshHidden
    <3>2. CASE job' = [job EXCEPT !.pc = "state"]
      BY <1>a, <2>0, <3>2 DEF Jobs, JobShape, TypeInv, Refreshing
    <3>3. CASE job' = AfterRefresh
      BY <1>a, <3>3, AfterRefreshIs DEF JobShape, Refreshing
    <3> QED
      BY <3>1, <3>2, <3>3
  <2>4. wish' \in SUBSET (SubId \X Server) /\ kept' \in {"lost", "listed", "current"}
    BY <1>17, <1>a DEF RefreshHidden, CutOff
  <2>5. TypeOK'
    BY <1>17, <1>a, <2>2, <2>3, <2>4, Resting, TypedNext DEF RefreshHidden, Outdate
  <2> QED
    BY <1>17, <2>3, <2>5, Resting DEF RefreshHidden, Outdate, TypeInv, OutsideOK
<1>18. CASE RefreshState
  <2>0. job.pc = "state" /\ job.sub \in SubId /\ job.prev \in Seq(Node) /\ subs[job.sub] \in Seq(Node)
    BY <1>18, <1>a DEF RefreshState, TypeInv, JobShape, Refreshing, Jobs
  <2>1. act.node \in Node \cup {NoNode}
    BY <1>a DEF Acts
  <2>2. remapRefreshedNodeID(act.node, job.prev, subs[job.sub]) \in Node \cup {NoNode}
    BY <2>0, <2>1, Remapped
  <2>3. act' \in Acts
    BY <1>18, <1>a, <2>1, <2>2 DEF RefreshState, Acts
  <2>4. job' \in Jobs /\ JobShape'
    <3>1. (job.op = "reconnect" /\ job' = [job EXCEPT !.pc = "connect"]) \/ job' = AfterRefresh
      BY <1>18 DEF RefreshState
    <3>2. CASE job.op = "reconnect" /\ job' = [job EXCEPT !.pc = "connect"]
      BY <1>a, <2>0, <3>2 DEF Jobs, JobShape, TypeInv, Refreshing
    <3>3. CASE job' = AfterRefresh
      BY <1>a, <3>3, AfterRefreshIs DEF JobShape, Refreshing
    <3> QED
      BY <3>1, <3>2, <3>3
  <2>5. kept' \in {"lost", "listed", "current"}
    BY <1>18, <1>a DEF RefreshState
  <2>6. TypeOK'
    BY <1>18, <1>a, <2>3, <2>4, <2>5, Resting, TypedNext DEF RefreshState, Outdate
  <2> QED
    BY <1>18, <2>4, <2>6, Resting DEF RefreshState, Outdate, TypeInv, OutsideOK
<1>19. CASE Reconnect
  <2> DEFINE after == nodeByID(subs[job.sub], act.node)
  <2>0. job.pc = "connect" /\ job.sub \in SubId
    BY <1>19 DEF Reconnect, TypeInv, JobShape, Refreshing
  <2>1. after # NoNode => [sub |-> job.sub, node |-> after] \in Route
    BY <1>b, <2>0, Resting DEF nodeByID
  <2>2. act' \in Acts /\ run' \in Route \cup {NoRoute}
    BY <1>19, <1>a, <2>1, Resting DEF Reconnect
  <2>3. kept' \in {"lost", "listed", "current"}
    BY <1>19, <1>a DEF Reconnect, Kept
  <2>4. auto' \in Autos /\ (auto'.pick # NoRoute => auto'.pick.node \in Elems(subs'[auto'.pick.sub]))
    <3>1. subs' = subs
      BY <1>19 DEF Reconnect
    <3>2. CASE Reselect(job.sub, hidden)
      BY <1>a, <2>0, <3>1, <3>2, Captured
    <3>3. CASE auto' \in {auto, NoAuto}
      BY <1>a, <3>1, <3>3, Resting DEF TypeInv, OutsideOK
    <3> QED
      BY <1>19, <3>2, <3>3 DEF Reconnect, Outdate
  <2>5. TypeOK'
    BY <1>19, <1>a, <2>2, <2>3, <2>4, Resting, TypedNext DEF Reconnect
  <2> QED
    BY <1>19, <2>4, <2>5, Resting DEF Reconnect, TypeInv, JobShape, OutsideOK, Refreshing
<1>20. CASE ScanRead
  <2>1. TypeOK'
    BY <1>20, <1>a, TypedNext DEF ScanRead
  <2> QED
    BY <1>20, <2>1 DEF ScanRead, TypeInv, JobShape, OutsideOK, Refreshing
<1>21. CASE touchRefreshAttempt
  <2>1. TypeOK'
    BY <1>21, <1>a, Resting, TypedNext DEF touchRefreshAttempt, Outdate
  <2> QED
    BY <1>21, <1>c, <2>1, Resting, Settled DEF touchRefreshAttempt, Outdate
<1>22. CASE RefreshAndReconnect
  <2>1. CASE act.sub # NoSub /\ SaveRefreshed("reconnect", act.sub, {})
    <3>1. act.sub \in SubId
      BY <1>a, <2>1 DEF Acts
    <3> QED
      BY <1>22, <2>1, <3>1, SavedTypes DEF RefreshAndReconnect
  <2>2. CASE RefreshFails /\ UNCHANGED job
    <3>1. JobShape'
      BY <2>2 DEF TypeInv, JobShape, RefreshFails, Refreshing
    <3> QED
      BY <1>22, <1>a, <2>2, <3>1, FailedTypes DEF RefreshAndReconnect
  <2> QED
    BY <1>22, <2>1, <2>2 DEF RefreshAndReconnect
<1>23. CASE RemoveList
  <2>1. CASE subs' = Remaining /\ Track(subs') /\ Outdate
    <3>1. subs' \in [SubId -> Seq(Node)]
      <4>1. job.op \in Removals /\ job.pc = "list"
        BY <1>23 DEF RemoveList, TypeInv, JobShape
      <4>2. CASE job.op = "remove"
        BY <1>a, <2>1, <4>1, <4>2, EmptyList DEF Remaining, TypeInv, JobShape
      <4>3. CASE job.op = "node"
        <5>1. job.sub \in SubId /\ job.node \in Elems(subs[job.sub])
          BY <4>1, <4>3 DEF TypeInv, JobShape
        <5>2. Without(subs[job.sub], job.node) \in Seq(Node)
          BY <1>b, <5>1, WithoutLeaves
        <5> QED
          BY <1>a, <2>1, <4>3, <5>1, <5>2 DEF Remaining
      <4>4. CASE job.op = "removeall"
        BY <2>1, <4>4, EmptyList DEF Remaining
      <4> QED
        BY <4>1, <4>2, <4>3, <4>4 DEF Removals
    <3>2. wish' \in SUBSET (SubId \X Server) /\ kept' \in {"lost", "listed", "current"}
      BY <1>a, <2>1, TrackTypes DEF Track
    <3>3. job' \in Jobs /\ ((job'.pc = "selection" /\ job'.op \in Removals) \/ job' = NoJob)
      BY <1>23, <1>a, Resting, ZenonT(60) DEF RemoveList, Jobs, TypeInv, JobShape
    <3>4. TypeOK'
      BY <1>23, <1>a, <2>1, <3>1, <3>2, <3>3, Resting, TypedNext DEF RemoveList, Outdate
    <3> QED
      BY <1>23, <2>1, <3>3, <3>4, Resting DEF RemoveList, Outdate, TypeInv, JobShape, OutsideOK, Refreshing
  <2>2. CASE job' = NoJob /\ UNCHANGED <<subs, auto, wish, kept>>
    <3>1. TypeOK'
      BY <1>23, <1>a, <2>2, Resting, TypedNext DEF RemoveList
    <3> QED
      BY <1>23, <2>2, <3>1, Resting DEF RemoveList, TypeInv, JobShape, OutsideOK, Refreshing
  <2> QED
    BY <1>23, <2>1, <2>2 DEF RemoveList
<1>24. CASE persistDisconnectedState
  <2>1. TypeOK'
    BY <1>24, <1>a, Resting, TypedNext DEF persistDisconnectedState, Outdate
  <2> QED
    BY <1>24, <2>1, Resting, Settled DEF persistDisconnectedState, Outdate
<1>25. CASE PanelWrite
  <2> DEFINE sent == (panel.list \ {panel.key}) \cup (IF panel.hide THEN {panel.key} ELSE {})
  <2>1. panel.key \in Route /\ panel.list \in SUBSET Route
    BY <1>25, <1>a DEF PanelWrite, TypeInv, OutsideOK, Panels
  <2>2. sent \in SUBSET Route /\ hidden' = sent
    BY <1>25, <2>1 DEF PanelWrite
  <2>3. <<panel.key.sub, panel.key.node.srv>> \in SubId \X Server
    BY <2>1 DEF Route, Node
  <2>4. wish' \in SUBSET (SubId \X Server)
    BY <1>25, <1>a, <2>3 DEF PanelWrite
  <2>5. auto' \in Autos /\ (auto'.pick # NoRoute => auto'.pick.node \in Elems(subs'[auto'.pick.sub]))
    <3>1. subs' = subs
      BY <1>25 DEF PanelWrite
    <3>2. CASE [sub |-> act.sub, node |-> act.node] \in sent /\ Reselect(act.sub, sent)
      <4>1. act.sub \in SubId
        BY <2>2, <3>2 DEF Route
      <4> QED
        BY <1>a, <3>1, <3>2, <4>1, Captured
    <3>3. CASE Outdate
      BY <3>3, Resting DEF Outdate
    <3> QED
      BY <1>25, <3>2, <3>3 DEF PanelWrite
  <2>6. TypeOK'
    BY <1>25, <1>a, <2>2, <2>4, <2>5, Resting, TypedNext DEF PanelWrite
  <2> QED
    BY <1>25, <2>5, <2>6, Resting DEF PanelWrite, TypeInv, JobShape, OutsideOK, Refreshing
<1>26. CASE PanelFails
  <2>1. TypeOK'
    BY <1>26, <1>a, Resting, TypedNext DEF PanelFails
  <2> QED
    BY <1>26, <2>1, Resting DEF PanelFails, TypeInv, JobShape, OutsideOK, Refreshing
<1>27. CASE JobDies
  <2>1. wish' \in SUBSET (SubId \X Server) /\ kept' \in {"lost", "listed", "current"}
    BY <1>27, <1>a DEF JobDies, CutOff
  <2>2. TypeOK'
    BY <1>27, <1>a, <2>1, Resting, TypedNext DEF JobDies
  <2> QED
    BY <1>27, <2>2, Resting DEF JobDies, TypeInv, JobShape, OutsideOK, Refreshing
<1>28. CASE UNCHANGED vars
  BY <1>28, <1>a, TypedNext DEF vars, TypeInv, JobShape, OutsideOK, Refreshing
<1> QED
  BY <1>1, <1>2, <1>3, <1>4, <1>5, <1>6, <1>7, <1>8, <1>9, <1>10, <1>11, <1>12, <1>13, <1>14,
     <1>15, <1>16, <1>17, <1>18, <1>19, <1>20, <1>21, <1>22, <1>23, <1>24, <1>25, <1>26, <1>27,
     <1>28 DEF Next

\* The three files, the operation under the lock and what runs outside it stay within
\* their types, and an operation is only ever at a step it has.
THEOREM TypeCorrect == Spec => []TypeInv
BY TypeInit, TypeStep, PTL DEF Spec

--------------------------------------------------------------------------------
(* A removal stops the transport first *)

\* Only an operation that holds the lock alone, or one that removes, changes lists.
LEMMA ListsChange ==
    ASSUME TypeInv, [Next]_vars, job.op \in Removals
    PROVE  UNCHANGED <<subs, act>> \/ RemoveList \/ persistDisconnectedState
<1>1. ~Idle /\ job.pc \in {"list", "selection"}
  <2>1. job \in Jobs
    BY Typed DEF TypeInv
  <2> QED
    BY <2>1 DEF TypeInv, JobShape, Idle, Removals, Jobs
<1>2. \A n : ~AddServer(n)
  BY <1>1 DEF AddServer
<1>3. \A s, list : ~AddSubscription(s, list)
  BY <1>1 DEF AddSubscription
<1>4. \A s : ~RefreshSubscription(s)
  BY <1>1 DEF RefreshSubscription
<1>5. \A s, n : ~ConnectManual(s, n)
  BY <1>1 DEF ConnectManual
<1>6. ~RefreshAllNext /\ ~RefreshHidden /\ ~RefreshState /\ ~Reconnect
  BY <1>1 DEF RefreshAllNext, RefreshHidden, RefreshState, Reconnect
<1>7. ~RefreshAndReconnect /\ ~AutoCommit /\ ~AutoNoCandidate /\ ~Disconnect
  BY <1>1 DEF RefreshAndReconnect, AutoCommit, AutoNoCandidate, Disconnect
<1>8. CASE UNCHANGED vars
  BY <1>8 DEF vars, files
<1>9. CASE \E s \in SubId : MoveSubscription(s) \/ RenameSubscription(s) \/ ConnectAuto(s)
  BY <1>9 DEF MoveSubscription, RenameSubscription, ConnectAuto, files
<1>10. CASE \E op, s, n : RemoveBegin(op, s, n)
  BY <1>10 DEF RemoveBegin, files
<1>11. CASE \E key : PanelRead(key)
  BY <1>11 DEF PanelRead, files
<1>12. CASE AutoStops \/ RefreshAll \/ ScanRead \/ touchRefreshAttempt \/ PanelWrite \/ PanelFails \/ JobDies
  BY <1>12 DEF AutoStops, RefreshAll, ScanRead, touchRefreshAttempt, PanelWrite, PanelFails, JobDies, files
<1> QED
  BY <1>2, <1>3, <1>4, <1>5, <1>6, <1>7, <1>8, <1>9, <1>10, <1>11, <1>12 DEF Next

\* While a removal of the selection is under way nothing starts the transport again.
LEMMA StoppedStep == TypeInv /\ StoppedFirst /\ [Next]_vars => StoppedFirst'
<1> SUFFICES ASSUME TypeInv, StoppedFirst, [Next]_vars, job'.pc = "list" PROVE StoppedFirst'
  BY DEF StoppedFirst
<1> USE DEF files, history
<1>a. job \in Jobs /\ (Idle => job.pc = "idle")
  BY Typed DEF TypeInv, Idle
<1>b. NoJob.pc = "idle" /\ AfterRefresh.pc \in {"next", "idle"}
  BY <1>a, Resting, AfterRefreshIs
<1>c. \A op, s, rest : ~SaveRefreshed(op, s, rest)
  BY DEF SaveRefreshed
<1>1. ASSUME NEW op, NEW s, NEW n, RemoveBegin(op, s, n) PROVE StoppedFirst'
  <2>1. job' = [NoJob EXCEPT !.op = op, !.pc = "list", !.sub = s, !.node = n]
    BY <1>1 DEF RemoveBegin
  <2>2. job'.op = op /\ job'.sub = s /\ job'.node = n
    BY <2>1 DEF NoJob
  <2> QED
    BY <1>1, <2>2 DEF RemoveBegin, StoppedFirst, RemovesActive
<1>2. CASE UNCHANGED <<job, act, run>>
  BY <1>2 DEF StoppedFirst, RemovesActive
<1>3. \A n : ~AddServer(n)
  BY <1>a DEF AddServer
<1>4. \A s, list : ~AddSubscription(s, list)
  BY <1>a DEF AddSubscription
<1>5. \A s : ~MoveSubscription(s) /\ ~RenameSubscription(s) /\ ~ConnectAuto(s)
  BY <1>a DEF MoveSubscription, RenameSubscription, ConnectAuto
<1>6. \A s : ~RefreshSubscription(s)
  BY <1>a, <1>c DEF RefreshSubscription, RefreshFails
<1>7. \A s, n : ~ConnectManual(s, n)
  BY <1>a DEF ConnectManual
<1>8. ~AutoCommit /\ ~AutoNoCandidate /\ ~Disconnect /\ ~RefreshAll
  BY <1>a DEF AutoCommit, AutoNoCandidate, Disconnect, RefreshAll, NoJob
<1>9. ~RefreshAllNext
  BY <1>a, <1>b, <1>c DEF RefreshAllNext, Jobs
<1>10. ~RefreshHidden /\ ~RefreshState
  BY <1>a, <1>b DEF RefreshHidden, RefreshState, Jobs
<1>11. ~Reconnect /\ ~touchRefreshAttempt /\ ~persistDisconnectedState /\ ~PanelWrite /\ ~JobDies
  BY <1>a, <1>b DEF Reconnect, touchRefreshAttempt, persistDisconnectedState, PanelWrite, JobDies
<1>12. ~RefreshAndReconnect
  BY <1>a, <1>c DEF RefreshAndReconnect, RefreshFails
<1>13. ~RemoveList
  BY <1>a, <1>b DEF RemoveList, Jobs
<1>14. CASE \E key : PanelRead(key)
  BY <1>2, <1>14 DEF PanelRead
<1>15. CASE AutoStops \/ ScanRead \/ PanelFails \/ UNCHANGED vars
  BY <1>2, <1>15 DEF AutoStops, ScanRead, PanelFails, vars
<1> QED
  BY <1>1, <1>3, <1>4, <1>5, <1>6, <1>7, <1>8, <1>9, <1>10, <1>11, <1>12, <1>13, <1>14, <1>15 DEF Next

\* RemoveSubscription and RemoveAllSubscriptions stop the transport of the selected
\* subscription before the list without it is written, for every set of
\* subscriptions, whatever save fails and whoever is killed.
THEOREM StoppedBeforeRemovedTheorem == Spec => StoppedBeforeRemoved
<1>1. Init => TypeInv /\ StoppedFirst
  <2>1. Init => StoppedFirst
    BY Resting DEF Init, StoppedFirst
  <2> QED
    BY <2>1, TypeInit
<1>2. TypeInv /\ StoppedFirst /\ [Next]_vars => (TypeInv /\ StoppedFirst)'
  BY TypeStep, StoppedStep
<1>3. ASSUME TypeInv, StoppedFirst, [Next]_vars, job.op \in {"remove", "removeall"}, act.sub # NoSub,
             subs[act.sub] # <<>>, subs'[act.sub] = <<>>
      PROVE  run = NoRoute
  <2>1. subs' # subs
    BY <1>3
  <2>2. RemoveList
    BY <1>3, <2>1, ListsChange DEF Removals, persistDisconnectedState
  <2>3. job.pc = "list" /\ subs' = Remaining
    BY <2>1, <2>2 DEF RemoveList
  <2>4. subs \in [SubId -> Seq(Node)] /\ act.sub \in SubId
    BY <1>3, Typed DEF TypeInv, Acts
  <2>5. job.op = "remove" => job.sub = act.sub
    BY <1>3, <2>3, <2>4 DEF Remaining
  <2> QED
    BY <1>3, <2>3, <2>5 DEF StoppedFirst, RemovesActive
<1>4. TypeInv /\ StoppedFirst /\ [Next]_vars =>
        [ (job.op \in {"remove", "removeall"} /\ act.sub # NoSub
            /\ subs[act.sub] # <<>> /\ subs'[act.sub] = <<>>) => run = NoRoute ]_vars
  BY <1>3
<1> QED
  BY <1>1, <1>2, <1>4, PTL DEF Spec, StoppedBeforeRemoved

--------------------------------------------------------------------------------
(* What is hidden stays hidden *)

\* Two lists that have a server once each agree on its id when one contains the other.
LEMMA SameId ==
    ASSUME NEW old \in Seq(Node), NEW new \in Seq(Node), NEW server,
           ListedOnce(old, server), ListedOnce(new, server),
           Elems(old) \subseteq Elems(new) \/ Elems(new) \subseteq Elems(old)
    PROVE  \A n \in Elems(new) : n.srv = server => n \in Elems(old)
<1>1. PICK m \in Elems(old) : m.srv = server
  BY OnceId
<1>2. CASE Elems(old) \subseteq Elems(new)
  BY <1>1, <1>2, OnceId
<1> QED
  BY <1>2

\* What happens to a list that is not refreshed: it grows, shrinks or is new.
Grown(old, new) == old = <<>> \/ Elems(old) \subseteq Elems(new) \/ Elems(new) \subseteq Elems(old)

\* A step that leaves the hidden servers alone and changes no list, or a list that is
\* not being refreshed, by adding or removing nodes.
LEMMA WishTracked ==
    ASSUME TypeInv, TypeInv', WishOK, job.pc # "hidden", job'.pc # "hidden", hidden' = hidden,
           wish' \in SUBSET wish, \A w \in wish' : ListedOnce(subs'[w[1]], w[2]),
           \A s \in SubId : Grown(subs[s], subs'[s])
    PROVE  WishOK'
<1> SUFFICES ASSUME NEW w \in wish'
             PROVE  /\ ListedOnce(subs'[w[1]], w[2])
                    /\ \E n \in Elems(subs'[w[1]]) : n.srv = w[2]
                    /\ \A n \in Elems(subs'[w[1]]) : n.srv = w[2] => [sub |-> w[1], node |-> n] \in hidden
  BY DEF WishOK, KeysOf
<1>1. w[1] \in SubId /\ subs[w[1]] \in Seq(Node) /\ subs'[w[1]] \in Seq(Node)
  BY Typed, TypedNext DEF TypeInv
<1>2. /\ ListedOnce(subs[w[1]], w[2])
      /\ \A n \in Elems(subs[w[1]]) : n.srv = w[2] => [sub |-> w[1], node |-> n] \in hidden
  BY DEF WishOK, KeysOf
<1>3. ListedOnce(subs'[w[1]], w[2])
  OBVIOUS
<1>4. Elems(subs[w[1]]) \subseteq Elems(subs'[w[1]]) \/ Elems(subs'[w[1]]) \subseteq Elems(subs[w[1]])
  BY <1>1, <1>2, EmptyList DEF Grown
<1>5. \A n \in Elems(subs'[w[1]]) : n.srv = w[2] => n \in Elems(subs[w[1]])
  BY <1>1, <1>2, <1>3, <1>4, SameId
<1> QED
  BY <1>1, <1>2, <1>3, <1>5, OnceId

\* A step that leaves the hidden servers and the lists their keys are from alone.
LEMMA WishSame ==
    ASSUME TypeInv, WishOK, hidden' = hidden, wish' \in SUBSET wish,
           \A w \in wish' : ListedOnce(subs'[w[1]], w[2]) /\ KeysOf(w[1])' = KeysOf(w[1])
    PROVE  WishOK'
<1> SUFFICES ASSUME NEW w \in wish'
             PROVE  /\ ListedOnce(subs'[w[1]], w[2])
                    /\ \E n \in Elems(KeysOf(w[1])') : n.srv = w[2]
                    /\ \A n \in Elems(KeysOf(w[1])') : n.srv = w[2] => [sub |-> w[1], node |-> n] \in hidden
  BY DEF WishOK
<1> QED
  BY DEF WishOK

\* The write of a refreshed list: the keys are those of the list of before.
LEMMA WishSaved ==
    ASSUME TypeInv, TypeInv', WishOK, job.pc \in {"idle", "next"}, NEW op, NEW s \in SubId, NEW rest,
           SaveRefreshed(op, s, rest)
    PROVE  WishOK'
<1>1. PICK list \in Answers(s) :
        /\ subs' = [subs EXCEPT ![s] = list]
        /\ job' = [op |-> op, pc |-> "hidden", sub |-> s, node |-> act.node,
                   prev |-> subs[s], rest |-> rest]
        /\ wish' = StillListed(subs')
        /\ hidden' = hidden
  BY DEF SaveRefreshed
<1>2. wish' \in SUBSET wish /\ \A w \in wish' : ListedOnce(subs'[w[1]], w[2]) /\ w[1] \in SubId
  BY <1>1, Typed DEF StillListed, TypeInv
<1>3. subs \in [SubId -> Seq(Node)]
  BY Typed DEF TypeInv
<1>4. \A w \in wish' : KeysOf(w[1])' = KeysOf(w[1])
  BY <1>1, <1>2, <1>3 DEF KeysOf
<1> QED
  BY <1>1, <1>2, <1>4, WishSame

\* The keys follow: refreshSubscription replaces each by the entry of its server.
LEMMA WishRemapped ==
    ASSUME TypeInv, WishOK, RefreshHidden PROVE WishOK'
<1> DEFINE s == job.sub
           remapped == remapRefreshedAutoExcludedNodes(hidden, job.sub, job.prev, subs[job.sub])
<1>a. /\ subs \in [SubId -> Seq(Node)] /\ hidden \in SUBSET Route
      /\ wish \in SUBSET (SubId \X Server) /\ job \in Jobs
  BY Typed DEF TypeInv
<1>b. job.pc = "hidden" /\ s \in SubId /\ job.prev \in Seq(Node) /\ subs[s] \in Seq(Node) /\ subs' = subs
  BY <1>a DEF RefreshHidden, TypeInv, JobShape, Refreshing, Jobs
<1>1. CASE hidden' = remapped /\ job' = [job EXCEPT !.pc = "state"] /\ UNCHANGED history
  <2>1. job'.pc = "state"
    BY <1>1, <1>a DEF Jobs
  <2> SUFFICES ASSUME NEW w \in wish
               PROVE  /\ ListedOnce(subs[w[1]], w[2])
                      /\ \E n \in Elems(subs[w[1]]) : n.srv = w[2]
                      /\ \A n \in Elems(subs[w[1]]) : n.srv = w[2] => [sub |-> w[1], node |-> n] \in hidden'
    BY <1>1, <1>b, <2>1 DEF WishOK, KeysOf, history
  <2>2. /\ ListedOnce(subs[w[1]], w[2]) /\ w[1] \in SubId /\ subs[w[1]] \in Seq(Node)
        /\ \E n \in Elems(KeysOf(w[1])) : n.srv = w[2]
        /\ \A n \in Elems(KeysOf(w[1])) : n.srv = w[2] => [sub |-> w[1], node |-> n] \in hidden
    BY <1>a DEF WishOK
  <2>3. \E n \in Elems(subs[w[1]]) : n.srv = w[2]
    BY <2>2, OnceId
  <2>4. \A v \in hidden : (IF v.sub = s THEN [v EXCEPT !.node = remapRefreshedNodeID(@, job.prev, subs[s])] ELSE v)
                            \in hidden'
    BY <1>1 DEF remapRefreshedAutoExcludedNodes
  <2>5. CASE w[1] # s
    BY <2>2, <2>3, <2>4, <2>5, <1>b DEF KeysOf
  <2>6. CASE w[1] = s
    <3>1. PICK m \in Elems(job.prev) : m.srv = w[2] /\ [sub |-> s, node |-> m] \in hidden
      BY <2>2, <2>6, <1>b DEF KeysOf
    <3>2. m \in Node
      BY <1>b, ListElems
    <3> DEFINE r == remapRefreshedNodeID(m, job.prev, subs[s])
    <3>3. r \in Elems(subs[s]) /\ r.srv = w[2]
      BY <1>b, <2>2, <2>6, <3>1, <3>2, Remapped
    <3> HIDE DEF r
    <3>4. [sub |-> s, node |-> r] \in hidden'
      <4> DEFINE v == [sub |-> s, node |-> m]
      <4>1. v \in hidden /\ v.sub = s /\ v.node = m
        BY <3>1
      <4>2. [v EXCEPT !.node = remapRefreshedNodeID(@, job.prev, subs[s])] \in hidden'
        BY <2>4, <4>1
      <4>3. [v EXCEPT !.node = remapRefreshedNodeID(@, job.prev, subs[s])] = [sub |-> s, node |-> r]
        BY DEF r
      <4> QED
        BY <4>2, <4>3
    <3>5. \A n \in Elems(subs[s]) : n.srv = w[2] => n = r
      BY <1>b, <2>2, <2>6, <3>3, OnceId
    <3> QED
      BY <2>2, <2>3, <2>6, <3>4, <3>5
  <2> QED
    BY <2>5, <2>6
<1>2. CASE job' = AfterRefresh /\ CutOff /\ hidden' = hidden
  <2>1. job'.pc # "hidden"
    BY <1>2, <1>a, AfterRefreshIs
  <2>2. wish' = {w \in wish : w[1] # s}
    BY <1>2, <1>b DEF CutOff
  <2>3. \A w \in wish' : ListedOnce(subs'[w[1]], w[2]) /\ KeysOf(w[1])' = KeysOf(w[1])
    BY <1>b, <2>1, <2>2 DEF WishOK, KeysOf
  <2> QED
    BY <1>2, <2>2, <2>3, WishSame
<1> QED
  BY <1>1, <1>2 DEF RefreshHidden

\* The panel's list replaces the hidden servers: what is known of the others is kept
\* only when the list it read is still the one stored.
LEMMA WishWritten ==
    ASSUME TypeInv, WishOK, PanelWrite PROVE WishOK'
<1> DEFINE key == panel.key
           sent == (panel.list \ {key}) \cup (IF panel.hide THEN {key} ELSE {})
           server == <<key.sub, key.node.srv>>
<1>a. /\ subs \in [SubId -> Seq(Node)] /\ wish \in SUBSET (SubId \X Server)
      /\ key \in Route /\ job.pc = "idle"
  BY Typed DEF TypeInv, PanelWrite, OutsideOK, Idle
<1>b. hidden' = sent /\ subs' = subs /\ job' = job
  BY DEF PanelWrite
<1> SUFFICES ASSUME NEW w \in wish'
             PROVE  /\ ListedOnce(subs[w[1]], w[2])
                    /\ \E n \in Elems(subs[w[1]]) : n.srv = w[2]
                    /\ \A n \in Elems(subs[w[1]]) : n.srv = w[2] => [sub |-> w[1], node |-> n] \in hidden'
  BY <1>a, <1>b DEF WishOK, KeysOf
<1>1. CASE w \in wish \ {server} /\ panel.list = hidden
  <2>1. /\ ListedOnce(subs[w[1]], w[2])
        /\ \E n \in Elems(subs[w[1]]) : n.srv = w[2]
        /\ \A n \in Elems(subs[w[1]]) : n.srv = w[2] => [sub |-> w[1], node |-> n] \in hidden
    BY <1>1, <1>a DEF WishOK, KeysOf
  <2>2. w = <<w[1], w[2]>>
    BY <1>1, <1>a
  <2>3. \A n : n.srv = w[2] => [sub |-> w[1], node |-> n] # key
    <3> SUFFICES ASSUME NEW n, n.srv = w[2], [sub |-> w[1], node |-> n] = key PROVE FALSE
      OBVIOUS
    <3>1. key.sub = w[1] /\ key.node = n
      BY ONLY [sub |-> w[1], node |-> n] = key
    <3>2. server = w
      BY <2>2, <3>1
    <3> QED
      BY <1>1, <3>2
  <2> QED
    BY <1>1, <1>b, <2>1, <2>3
<1>2. CASE w = server /\ panel.hide /\ key.node \in Elems(subs[key.sub]) /\ ListedOnce(subs[key.sub], key.node.srv)
  <2>1. w[1] = key.sub /\ w[2] = key.node.srv /\ key.sub \in SubId /\ subs[key.sub] \in Seq(Node)
    BY <1>2, <1>a DEF Route
  <2>2. \A n \in Elems(subs[w[1]]) : n.srv = w[2] => n = key.node
    BY <1>2, <2>1, OnceId
  <2>3. [sub |-> key.sub, node |-> key.node] = key /\ key \in sent
    BY <1>2, <1>a DEF Route
  <2> QED
    BY <1>2, <1>b, <2>1, <2>2, <2>3
<1> QED
  BY <1>1, <1>2 DEF PanelWrite

\* Adding and removing only add nodes to a list or take nodes from it.
LEMMA AddsOrRemoves ==
    ASSUME TypeInv
    PROVE  /\ \A n \in Pasted : AddServer(n) => \A s \in SubId : Grown(subs[s], subs'[s])
           /\ \A t \in Url, list \in Feed : AddSubscription(t, list) => \A s \in SubId : Grown(subs[s], subs'[s])
           /\ RemoveList => \A s \in SubId : Grown(subs[s], subs'[s])
<1>a. subs \in [SubId -> Seq(Node)] /\ \A s \in SubId : subs[s] \in Seq(Node)
  BY Typed DEF TypeInv
<1>b. \A list : Grown(list, list)
  BY DEF Grown
<1>1. ASSUME NEW n \in Pasted, AddServer(n), NEW s \in SubId PROVE Grown(subs[s], subs'[s])
  <2>1. Elems(subs[ServerList]) \subseteq Elems(Append(subs[ServerList], n))
    BY <1>a, Appended, FeedAssumption DEF SubId
  <2>2. subs'[s] = subs[s] \/ (s = ServerList /\ subs'[s] = Append(subs[ServerList], n))
    BY <1>1, <1>a DEF AddServer, upsertSubscription
  <2> QED
    BY <1>b, <2>1, <2>2 DEF Grown
<1>2. ASSUME NEW t \in Url, NEW list \in Feed, AddSubscription(t, list), NEW s \in SubId
      PROVE  Grown(subs[s], subs'[s])
  <2>1. subs'[s] = subs[s] \/ (s = t /\ subs'[s] = list)
    BY <1>2, <1>a DEF AddSubscription, upsertSubscription
  <2> QED
    BY <1>2, <1>b, <2>1 DEF Grown, AddSubscription, resolveAddSubscriptionID
<1>3. ASSUME RemoveList, NEW s \in SubId PROVE Grown(subs[s], subs'[s])
  <2>1. CASE subs' = subs
    BY <1>b, <2>1
  <2>2. CASE subs' = Remaining
    <3>1. job.pc = "list" /\ job.op \in Removals
      BY <1>3 DEF RemoveList, TypeInv, JobShape
    <3>2. CASE job.op = "remove" \/ job.op = "removeall"
      <4>1. subs'[s] = subs[s] \/ subs'[s] = <<>>
        BY <1>a, <2>2, <3>2 DEF Remaining
      <4> QED
        BY <1>b, <4>1, EmptyList DEF Grown
    <3>3. CASE job.op = "node"
      <4>1. job.sub \in SubId /\ job.node \in Elems(subs[job.sub])
        BY <3>1, <3>3 DEF TypeInv, JobShape
      <4>2. subs'[s] = subs[s] \/ (s = job.sub /\ subs'[s] = Without(subs[s], job.node))
        BY <1>a, <2>2, <3>3, <4>1 DEF Remaining
      <4> QED
        BY <1>a, <1>b, <4>1, <4>2, WithoutLeaves DEF Grown
    <3> QED
      BY <3>1, <3>2, <3>3 DEF Removals
  <2> QED
    BY <1>3, <2>1, <2>2 DEF RemoveList
<1> QED
  BY <1>1, <1>2, <1>3

\* Every step keeps what the hidden servers are known by.
LEMMA WishStep == TypeInv /\ TypeInv' /\ WishOK /\ [Next]_vars => WishOK'
<1> SUFFICES ASSUME TypeInv, TypeInv', WishOK, [Next]_vars PROVE WishOK'
  OBVIOUS
<1> USE DEF files, history
<1>a. job \in Jobs /\ (Idle => job.pc = "idle") /\ \A w \in wish : ListedOnce(subs[w[1]], w[2])
  BY Typed DEF TypeInv, Idle, WishOK
<1>b. NoJob.pc = "idle" /\ AfterRefresh.pc \in {"next", "idle"}
  BY <1>a, Resting, AfterRefreshIs
<1>c. ASSUME UNCHANGED <<subs, hidden, wish>>,
             job' = job \/ (job.pc # "hidden" /\ job'.pc # "hidden")
      PROVE  WishOK'
  <2>1. \A w \in wish' : ListedOnce(subs'[w[1]], w[2]) /\ KeysOf(w[1])' = KeysOf(w[1])
    BY <1>a, <1>c DEF KeysOf
  <2> QED
    BY <1>c, <2>1, WishSame
<1>1. ASSUME NEW n \in Pasted, AddServer(n) PROVE WishOK'
  <2>1. wish' \in SUBSET wish /\ (\A w \in wish' : ListedOnce(subs'[w[1]], w[2]))
        /\ job' = job /\ job.pc = "idle" /\ hidden' = hidden
    BY <1>1, <1>a DEF AddServer, Track, StillListed
  <2>2. \A s \in SubId : Grown(subs[s], subs'[s])
    BY <1>1, AddsOrRemoves
  <2> QED
    BY <2>1, <2>2, WishTracked
<1>2. ASSUME NEW s \in Url, NEW list \in Feed, AddSubscription(s, list) PROVE WishOK'
  <2>1. wish' \in SUBSET wish /\ (\A w \in wish' : ListedOnce(subs'[w[1]], w[2]))
        /\ job' = job /\ job.pc = "idle" /\ hidden' = hidden
    BY <1>2, <1>a DEF AddSubscription, Track, StillListed
  <2>2. \A t \in SubId : Grown(subs[t], subs'[t])
    BY <1>2, AddsOrRemoves
  <2> QED
    BY <2>1, <2>2, WishTracked
<1>3. ASSUME NEW s \in SubId, MoveSubscription(s) \/ RenameSubscription(s) \/ ConnectAuto(s) PROVE WishOK'
  BY <1>3, <1>c DEF MoveSubscription, RenameSubscription, ConnectAuto
<1>4. ASSUME NEW s \in SubId, RefreshSubscription(s) PROVE WishOK'
  <2>1. CASE SaveRefreshed("refresh", s, {})
    BY <1>4, <1>a, <2>1, WishSaved DEF RefreshSubscription
  <2>2. CASE RefreshFails /\ UNCHANGED job
    BY <1>c, <2>2 DEF RefreshFails
  <2> QED
    BY <1>4, <2>1, <2>2 DEF RefreshSubscription
<1>5. ASSUME NEW op, NEW s, NEW n, RemoveBegin(op, s, n) PROVE WishOK'
  <2>1. job.pc = "idle" /\ job'.pc = "list"
    BY <1>5, <1>a DEF RemoveBegin, NoJob
  <2> QED
    BY <1>5, <1>c, <2>1 DEF RemoveBegin
<1>6. ASSUME NEW s, NEW n, ConnectManual(s, n) PROVE WishOK'
  BY <1>6, <1>c DEF ConnectManual
<1>7. ASSUME NEW key, PanelRead(key) PROVE WishOK'
  BY <1>7, <1>c DEF PanelRead
<1>8. CASE AutoCommit \/ AutoNoCandidate \/ AutoStops \/ Disconnect
  BY <1>8, <1>c DEF AutoCommit, AutoNoCandidate, AutoStops, Disconnect
<1>9. CASE RefreshAll
  <2>1. job.pc = "idle" /\ job'.pc = "next"
    BY <1>9, <1>a DEF RefreshAll, NoJob
  <2> QED
    BY <1>9, <1>c, <2>1 DEF RefreshAll
<1>10. CASE RefreshAllNext
  <2>1. job.pc = "next" /\ job.rest \in SUBSET SubId
    BY <1>10, <1>a DEF RefreshAllNext, Jobs
  <2>2. ASSUME NEW s \in job.rest, SaveRefreshed("all", s, job.rest \ {s}) PROVE WishOK'
    BY <2>1, <2>2, WishSaved
  <2>3. ASSUME NEW s \in job.rest, RefreshFails, job' = [job EXCEPT !.rest = @ \ {s}] PROVE WishOK'
    <3>1. job'.pc = "next"
      BY <1>a, <2>1, <2>3 DEF Jobs
    <3> QED
      BY <1>c, <2>1, <2>3, <3>1 DEF RefreshFails
  <2>4. ASSUME job' = NoJob, UNCHANGED <<files, run, auto, panel, history>> PROVE WishOK'
    BY <1>b, <1>c, <2>1, <2>4
  <2> QED
    BY <1>10, <2>2, <2>3, <2>4 DEF RefreshAllNext
<1>11. CASE RefreshHidden
  BY <1>11, WishRemapped
<1>12. CASE RefreshState
  <2>1. job.pc = "state" /\ job'.pc # "hidden"
    BY <1>12, <1>a, <1>b DEF RefreshState, Jobs
  <2> QED
    BY <1>12, <1>c, <2>1 DEF RefreshState
<1>13. CASE Reconnect
  BY <1>13, <1>b, <1>c DEF Reconnect
<1>14. CASE ScanRead \/ touchRefreshAttempt
  BY <1>14, <1>c DEF ScanRead, touchRefreshAttempt
<1>15. CASE RefreshAndReconnect
  <2>1. CASE act.sub # NoSub /\ SaveRefreshed("reconnect", act.sub, {})
    <3>1. act.sub \in SubId
      BY <2>1, Typed DEF TypeInv, Acts
    <3> QED
      BY <1>15, <1>a, <2>1, <3>1, WishSaved DEF RefreshAndReconnect
  <2>2. CASE RefreshFails /\ UNCHANGED job
    BY <1>c, <2>2 DEF RefreshFails
  <2> QED
    BY <1>15, <2>1, <2>2 DEF RefreshAndReconnect
<1>16. CASE RemoveList
  <2>1. job.pc = "list" /\ job'.pc # "hidden" /\ hidden' = hidden
    BY <1>16, <1>a, <1>b DEF RemoveList, Jobs
  <2>2. \A s \in SubId : Grown(subs[s], subs'[s])
    BY <1>16, AddsOrRemoves
  <2>3. wish' \in SUBSET wish /\ \A w \in wish' : ListedOnce(subs'[w[1]], w[2])
    BY <1>16, <1>a DEF RemoveList, Track, StillListed
  <2> QED
    BY <2>1, <2>2, <2>3, WishTracked
<1>17. CASE persistDisconnectedState
  BY <1>17, <1>b, <1>c DEF persistDisconnectedState
<1>18. CASE PanelWrite
  BY <1>18, WishWritten
<1>19. CASE PanelFails
  BY <1>19, <1>c DEF PanelFails
<1>20. CASE JobDies
  <2>1. CASE job.pc = "hidden"
    <3>1. wish' = {w \in wish : w[1] # job.sub} /\ UNCHANGED <<subs, hidden>> /\ job'.pc = "idle"
      BY <1>20, <1>b, <2>1 DEF JobDies, CutOff
    <3>2. \A w \in wish' : ListedOnce(subs'[w[1]], w[2]) /\ KeysOf(w[1])' = KeysOf(w[1])
      BY <1>a, <3>1 DEF KeysOf
    <3> QED
      BY <3>1, <3>2, WishSame
  <2>2. CASE job.pc # "hidden"
    BY <1>20, <1>b, <1>c, <2>2 DEF JobDies, CutOff
  <2> QED
    BY <2>1, <2>2
<1>21. CASE UNCHANGED vars
  BY <1>21, <1>c DEF vars
<1> QED
  BY <1>1, <1>2, <1>3, <1>4, <1>5, <1>6, <1>7, <1>8, <1>9, <1>10, <1>11, <1>12, <1>13, <1>14,
     <1>15, <1>16, <1>17, <1>18, <1>19, <1>20, <1>21 DEF Next

\* A server the user hid stays hidden under whatever name its provider gives it, for
\* every list a provider may answer with, as long as it is listed exactly once and no
\* refresh was cut off between its files.
THEOREM HiddenStaysHiddenTheorem == Spec => []HiddenStaysHidden
<1>1. Init => TypeInv /\ WishOK
  <2>1. Init => WishOK
    BY DEF Init, WishOK
  <2> QED
    BY <2>1, TypeInit
<1>2. TypeInv /\ WishOK /\ [Next]_vars => (TypeInv /\ WishOK)'
  BY TypeStep, WishStep
<1>3. TypeInv /\ WishOK => HiddenStaysHidden
  BY DEF WishOK, KeysOf, HiddenStaysHidden, Idle
<1> QED
  BY <1>1, <1>2, <1>3, PTL DEF Spec

--------------------------------------------------------------------------------
(* The selection follows its server, and traffic its parameters *)

\* The id of the selected server after a step that changes no list, or a list that is
\* not being refreshed, by adding or removing nodes.
LEMMA KeptTracked ==
    ASSUME TypeInv, TypeInv', KeptOK, UNCHANGED act,
           job.pc \in {"hidden", "state"} => act.sub # job.sub \/ kept' = "lost",
           job'.pc \notin {"hidden", "state"},
           kept' # "lost" => kept # "lost" /\ ListedOnce(subs'[act.sub], act.node.srv),
           \A s \in SubId : Grown(subs[s], subs'[s])
    PROVE  KeptOK'
<1> SUFFICES ASSUME kept' # "lost"
             PROVE  /\ act.sub \in SubId /\ act.node \in Node
                    /\ ListedOnce(subs'[act.sub], act.node.srv)
                    /\ act.node \in Elems(subs'[act.sub])
  BY DEF KeptOK, IdOf
<1>1. /\ act.sub \in SubId /\ act.node \in Node
      /\ ListedOnce(subs[act.sub], act.node.srv) /\ ListedOnce(subs'[act.sub], act.node.srv)
      /\ act.node \in Elems(subs[act.sub])
  BY DEF KeptOK, IdOf
<1>2. subs[act.sub] \in Seq(Node) /\ subs'[act.sub] \in Seq(Node)
  BY <1>1, Typed, TypedNext DEF TypeInv
<1>3. PICK m \in Elems(subs'[act.sub]) : m.srv = act.node.srv
  BY <1>1, <1>2, OnceId
<1>4. Elems(subs[act.sub]) \subseteq Elems(subs'[act.sub]) \/ Elems(subs'[act.sub]) \subseteq Elems(subs[act.sub])
  BY <1>1, EmptyList DEF Grown
<1>5. m \in Elems(subs[act.sub])
  BY <1>1, <1>2, <1>3, <1>4, SameId
<1>6. m = act.node
  BY <1>1, <1>2, <1>3, <1>5, OnceId
<1> QED
  BY <1>1, <1>3, <1>6

\* A step that leaves the selected node alone and no refresh in progress.
LEMMA SelectionTracked ==
    ASSUME TypeInv, SelectionInv, KeptOK', UNCHANGED act, run' \in {run, NoRoute},
           job'.pc \notin Refreshing, kept' \in {kept, "lost"}, job.pc = "connect" => kept' = "lost"
    PROVE  SelectionInv'
<1>1. StartedFrom' /\ ParamsKept'
  BY DEF StartedFrom, ParamsKept, Refreshing
<1>2. RunOK'
  BY DEF SelectionInv, RunOK, Refreshing
<1> QED
  BY <1>1, <1>2 DEF SelectionInv

\* A node that is selected from a list as it is stored, while no refresh is in progress.
LEMMA SelectionMade ==
    ASSUME TypeInv, UNCHANGED subs, NEW r \in Route, r.node \in Elems(subs[r.sub]),
           NEW mode, act' = Selected(r, mode), run' = r, kept' = Kept(subs[r.sub], r.node),
           job'.pc \notin Refreshing
    PROVE  SelectionInv'
<1>1. act'.sub = r.sub /\ act'.node = r.node /\ r.sub \in SubId /\ r.node \in Node
  BY Resting DEF Selected
<1>2. KeptOK'
  BY <1>1 DEF KeptOK, IdOf, Kept, Refreshing
<1>3. StartedFrom' /\ ParamsKept'
  BY DEF StartedFrom, ParamsKept, Refreshing
<1>4. RunOK'
  BY <1>1 DEF RunOK, Refreshing
<1> QED
  BY <1>2, <1>3, <1>4 DEF SelectionInv

\* Nothing that the invariant speaks of changes.
LEMMA SelectionSame ==
    ASSUME TypeInv, SelectionInv, UNCHANGED <<subs, act, run, kept>>,
           job' = job \/ (job.pc \notin Refreshing /\ job'.pc \notin Refreshing)
    PROVE  SelectionInv'
<1>1. CASE job' = job
  BY <1>1 DEF SelectionInv, KeptOK, IdOf, StartedFrom, ParamsKept, RunOK
<1>2. CASE job.pc \notin Refreshing /\ job'.pc \notin Refreshing
  <2>1. KeptOK'
    BY <1>2 DEF SelectionInv, KeptOK, IdOf, Refreshing
  <2> QED
    BY <1>2, <2>1, SelectionTracked DEF Refreshing
<1> QED
  BY <1>1, <1>2

\* The write of a refreshed list.
LEMMA SelectionSaved ==
    ASSUME TypeInv, TypeInv', SelectionInv, job.pc \in {"idle", "next"}, NEW op, NEW s \in SubId, NEW rest,
           SaveRefreshed(op, s, rest), op = "reconnect" => act.sub = s
    PROVE  SelectionInv'
<1>1. PICK list \in Answers(s) :
        /\ subs' = [subs EXCEPT ![s] = list]
        /\ job' = [op |-> op, pc |-> "hidden", sub |-> s, node |-> act.node,
                   prev |-> subs[s], rest |-> rest]
        /\ kept' = IF op # "reconnect" /\ StillKept(subs') # "lost" /\ ParamsChange(s, subs[s], list)
                   THEN "listed" ELSE StillKept(subs')
        /\ UNCHANGED <<act, run>>
  BY DEF SaveRefreshed
<1>2. job'.op = op /\ job'.pc = "hidden" /\ job'.sub = s /\ job'.node = act.node /\ job'.prev = subs[s]
  BY <1>1
<1>3. subs \in [SubId -> Seq(Node)] /\ subs[s] \in Seq(Node) /\ subs'[s] = list /\ list \in Seq(Node)
  BY <1>1, Typed, TypedNext DEF TypeInv
<1>4. kept' # "lost" => /\ kept # "lost" /\ ListedOnce(subs'[act.sub], act.node.srv)
                        /\ act.sub \in SubId /\ act.node \in Node /\ act.node \in Elems(subs[act.sub])
  BY <1>1 DEF StillKept, SelectionInv, KeptOK, IdOf
<1>5. kept' = "current" => kept = "current" /\ (op = "reconnect" \/ ~ParamsChange(s, subs[s], list))
  BY <1>1 DEF StillKept
<1>6. KeptOK'
  BY <1>1, <1>2, <1>3, <1>4 DEF KeptOK, IdOf
<1>7. StartedFrom'
  BY <1>1, <1>2 DEF StartedFrom
<1>8. ParamsKept'
  <2> SUFFICES ASSUME op # "reconnect", act.sub = s, kept' = "current"
               PROVE  remapRefreshedNodeID(act.node, subs[s], list).rt = act.node.rt
    BY <1>1, <1>2, <1>3 DEF ParamsKept
  <2> DEFINE r == remapRefreshedNodeID(act.node, subs[s], list)
  <2>1. act.node \in Node /\ act.node \in Elems(subs[s]) /\ ListedOnce(list, act.node.srv)
    BY <1>3, <1>4
  <2>2. r \in Elems(list)
    BY <1>3, <2>1, Remapped
  <2>3. NoNode \notin Node /\ Elems(list) \subseteq Node
    BY <1>3, ListElems, IdAssumption
  <2> HIDE DEF r
  <2>4. ~(act.sub = s /\ act.node # NoNode /\ r # NoNode /\ act.node.rt # r.rt)
    BY <1>5, <2>1, <2>2 DEF ParamsChange, nodeByID, r
  <2> QED
    BY <2>1, <2>2, <2>3, <2>4 DEF r
<1>9. RunOK'
  BY <1>1, <1>2, <1>5 DEF RunOK, SelectionInv
<1> QED
  BY <1>6, <1>7, <1>8, <1>9 DEF SelectionInv

\* The hidden servers have followed, or the refresh was cut off.
LEMMA SelectionHidden ==
    ASSUME TypeInv, TypeInv', SelectionInv, RefreshHidden
    PROVE  SelectionInv'
<1>a. job \in Jobs /\ job.pc = "hidden" /\ UNCHANGED <<subs, act, run>>
  BY Typed DEF TypeInv, RefreshHidden
<1>1. CASE job' = [job EXCEPT !.pc = "state"] /\ UNCHANGED history
  <2>1. /\ job'.pc = "state" /\ job'.op = job.op /\ job'.sub = job.sub
        /\ job'.node = job.node /\ job'.prev = job.prev /\ kept' = kept
    BY <1>1, <1>a DEF Jobs, history
  <2>2. KeptOK'
    BY <1>a, <2>1 DEF SelectionInv, KeptOK, IdOf
  <2>3. StartedFrom' /\ ParamsKept'
    BY <1>a, <2>1 DEF SelectionInv, StartedFrom, ParamsKept, Refreshing
  <2>4. RunOK'
    BY <1>a, <2>1 DEF SelectionInv, RunOK
  <2> QED
    BY <2>2, <2>3, <2>4 DEF SelectionInv
<1>2. CASE job' = AfterRefresh /\ CutOff
  <2>1. job'.pc \in {"idle", "next"}
    BY <1>2, <1>a, AfterRefreshIs
  <2>2. kept' = IF act.sub = job.sub THEN "lost" ELSE kept
    BY <1>2 DEF CutOff
  <2>3. KeptOK'
    BY <1>a, <2>1, <2>2 DEF SelectionInv, KeptOK, IdOf
  <2> QED
    BY <1>a, <2>1, <2>2, <2>3, SelectionTracked DEF Refreshing
<1> QED
  BY <1>1, <1>2 DEF RefreshHidden

\* The selected node follows to the entry of its server.
LEMMA SelectionRemapped ==
    ASSUME TypeInv, TypeInv', SelectionInv, RefreshState
    PROVE  SelectionInv'
<1> DEFINE s == job.sub
           r == remapRefreshedNodeID(act.node, job.prev, subs[s])
           node == IF act.sub = s THEN r ELSE act.node
<1>a. /\ job \in Jobs /\ act \in Acts /\ job.pc = "state" /\ UNCHANGED <<subs, run>>
      /\ s \in SubId /\ job.prev \in Seq(Node) /\ subs[s] \in Seq(Node)
  BY Typed DEF TypeInv, RefreshState, JobShape, Refreshing, Jobs
<1>b. act'.sub = act.sub /\ act'.mode = act.mode /\ kept' \in {kept, "lost"}
  BY <1>a DEF RefreshState, Acts
<1>c. kept' # "lost" => kept' = kept /\ act'.node = node
  BY <1>a DEF RefreshState, Acts
<1>d. kept # "lost" => /\ act.sub \in SubId /\ act.node \in Node
                       /\ ListedOnce(subs[act.sub], act.node.srv)
                       /\ act.sub = s => act.node \in Elems(job.prev)
                       /\ act.sub # s => act.node \in Elems(subs[act.sub])
  BY <1>a DEF SelectionInv, KeptOK, IdOf
<1>e. kept # "lost" => /\ node \in Node /\ node.srv = act.node.srv
                       /\ node \in Elems(subs[act.sub])
  <2>1. CASE kept # "lost" /\ act.sub = s
    <3>1. act.node \in Node /\ act.node \in Elems(job.prev) /\ ListedOnce(subs[s], act.node.srv)
      BY <1>d, <2>1
    <3>2. r \in Node /\ r \in Elems(subs[s]) /\ r.srv = act.node.srv
      BY <1>a, <3>1, Remapped
    <3> QED
      BY <2>1, <3>2
  <2> QED
    BY <1>d, <2>1
<1>f. \/ job.op = "reconnect" /\ job' = [job EXCEPT !.pc = "connect"]
      \/ job.op # "reconnect" /\ job' = AfterRefresh
  BY DEF RefreshState
<1> HIDE DEF node
<1>1. job'.pc \notin {"hidden", "state"}
  BY <1>a, <1>f, AfterRefreshIs DEF Jobs
<1>2. KeptOK'
  BY <1>a, <1>b, <1>c, <1>d, <1>e, <1>1 DEF KeptOK, IdOf
<1>3. CASE job.op = "reconnect"
  <2>1. job'.pc = "connect" /\ job'.op = "reconnect" /\ job'.sub = s /\ job'.node = job.node /\ job'.prev = job.prev
    BY <1>a, <1>f, <1>3 DEF Jobs
  <2>2. act.sub = s /\ job.node = act.node
    BY <1>a, <1>3 DEF SelectionInv, StartedFrom, Refreshing
  <2>3. StartedFrom'
    BY <1>b, <1>c, <1>d, <2>1, <2>2 DEF StartedFrom
  <2>4. ParamsKept'
    BY <2>1 DEF ParamsKept
  <2>5. RunOK'
    BY <1>a, <1>b, <1>c, <1>e, <2>1, <2>2 DEF SelectionInv, RunOK
  <2> QED
    BY <1>2, <2>3, <2>4, <2>5 DEF SelectionInv
<1>4. CASE job.op # "reconnect"
  <2>1. job'.pc \in {"next", "idle"}
    BY <1>a, <1>f, <1>4, AfterRefreshIs
  <2>2. StartedFrom' /\ ParamsKept'
    BY <2>1 DEF StartedFrom, ParamsKept, Refreshing
  <2>3. kept = "current" => node.rt = act.node.rt
    BY <1>a, <1>4 DEF SelectionInv, ParamsKept, node
  <2>4. RunOK'
    BY <1>a, <1>b, <1>c, <1>e, <2>1, <2>3 DEF SelectionInv, RunOK
  <2> QED
    BY <1>2, <2>2, <2>4 DEF SelectionInv
<1> QED
  BY <1>3, <1>4

\* RefreshAndReconnect compares the node it started from with the one now selected.
LEMMA SelectionReconnected ==
    ASSUME TypeInv, TypeInv', SelectionInv, Reconnect
    PROVE  SelectionInv'
<1> DEFINE before == nodeByID(job.prev, job.node)
           after == nodeByID(subs[job.sub], act.node)
           same == act.on /\ sameRuntimeNode(before, after)
<1>a. /\ job \in Jobs /\ job.pc = "connect" /\ job.sub \in SubId /\ job.op = "reconnect"
      /\ subs[job.sub] \in Seq(Node) /\ UNCHANGED subs
  BY Typed DEF TypeInv, Reconnect, JobShape, Refreshing
<1>b. act.sub = job.sub /\ job'.pc = "idle"
  BY <1>a, Resting DEF Reconnect, SelectionInv, StartedFrom, Refreshing
<1>c. StartedFrom' /\ ParamsKept'
  BY <1>b DEF StartedFrom, ParamsKept, Refreshing
<1>d. UNCHANGED <<act, kept>> => KeptOK'
  BY <1>a, <1>b DEF SelectionInv, KeptOK, IdOf
<1>1. CASE (same \/ act.mode = "disconnected") /\ UNCHANGED <<act, run, kept>>
  <2>1. same => job.node.rt = act.node.rt
    BY DEF sameRuntimeNode, nodeByID
  <2>2. RunOK'
    BY <1>a, <1>b, <1>1, <2>1 DEF SelectionInv, RunOK
  <2> QED
    BY <1>c, <1>d, <1>1, <2>2 DEF SelectionInv
<1>2. CASE /\ after # NoNode /\ run' = [sub |-> job.sub, node |-> after]
           /\ act' = Selected(run', "manual") /\ kept' = Kept(subs[job.sub], after)
  <2> DEFINE rt == [sub |-> job.sub, node |-> after]
  <2>1. after \in Elems(subs[job.sub]) /\ after \in Node
    BY <1>a, <1>2, ListElems DEF nodeByID
  <2>2. rt \in Route /\ rt.sub = job.sub /\ rt.node = after
    BY <1>a, <2>1, Resting
  <2> HIDE DEF rt, after
  <2>3. /\ rt.node \in Elems(subs[rt.sub]) /\ run' = rt /\ act' = Selected(rt, "manual")
        /\ kept' = Kept(subs[rt.sub], rt.node) /\ job'.pc \notin Refreshing
    BY <1>2, <1>b, <2>1, <2>2 DEF rt, Refreshing
  <2> QED
    BY <1>a, <2>2, <2>3, SelectionMade
<1>3. CASE kept' = "lost" /\ UNCHANGED <<act, run>>
  <2>1. KeptOK'
    BY <1>3 DEF KeptOK
  <2> QED
    BY <1>b, <1>3, <2>1, SelectionTracked DEF Refreshing
<1>4. CASE act.mode = "auto" /\ UNCHANGED <<act, run, kept>>
  <2>1. RunOK'
    BY <1>4 DEF RunOK
  <2> QED
    BY <1>c, <1>d, <1>4, <2>1 DEF SelectionInv
<1> QED
  BY <1>1, <1>2, <1>3, <1>4 DEF Reconnect

\* Every step keeps what is known of the selected server.
LEMMA SelectionStep == TypeInv /\ TypeInv' /\ SelectionInv /\ [Next]_vars => SelectionInv'
<1> SUFFICES ASSUME TypeInv, TypeInv', SelectionInv, [Next]_vars PROVE SelectionInv'
  OBVIOUS
<1> USE DEF files, history
<1>a. job \in Jobs /\ (Idle => job.pc = "idle" /\ job.pc \notin Refreshing)
  BY Typed DEF TypeInv, Idle, Refreshing
<1>b. NoJob.pc = "idle" /\ AfterRefresh.pc \in {"next", "idle"}
  BY <1>a, Resting, AfterRefreshIs
<1>c. \A list : Grown(list, list)
  BY DEF Grown
<1>d. ASSUME UNCHANGED <<act, run>>, job.pc \notin Refreshing, job'.pc \notin Refreshing,
             kept' \in {kept, StillKept(subs')}, kept' = kept => subs' = subs \/ kept' = StillKept(subs'),
             \A s \in SubId : Grown(subs[s], subs'[s])
      PROVE  SelectionInv'
  <2>1. kept' \in {kept, "lost"}
    BY <1>d DEF StillKept
  <2>2. kept' # "lost" => kept # "lost" /\ ListedOnce(subs'[act.sub], act.node.srv)
    BY <1>d DEF StillKept, SelectionInv, KeptOK
  <2>3. KeptOK'
    BY <1>d, <2>2, KeptTracked DEF SelectionInv, Refreshing
  <2> QED
    BY <1>d, <2>1, <2>3, SelectionTracked DEF Refreshing
<1>1. ASSUME NEW n \in Pasted, AddServer(n) PROVE SelectionInv'
  <2>1. UNCHANGED <<act, run, job>> /\ kept' = StillKept(subs') /\ Idle
    BY <1>1 DEF AddServer, Track
  <2>2. \A s \in SubId : Grown(subs[s], subs'[s])
    BY <1>1, AddsOrRemoves
  <2> QED
    BY <1>a, <1>d, <2>1, <2>2
<1>2. ASSUME NEW s \in Url, NEW list \in Feed, AddSubscription(s, list) PROVE SelectionInv'
  <2>1. UNCHANGED <<act, run, job>> /\ kept' = StillKept(subs') /\ Idle
    BY <1>2 DEF AddSubscription, Track
  <2>2. \A t \in SubId : Grown(subs[t], subs'[t])
    BY <1>2, AddsOrRemoves
  <2> QED
    BY <1>a, <1>d, <2>1, <2>2
<1>3. ASSUME NEW s \in SubId, MoveSubscription(s) \/ RenameSubscription(s) \/ ConnectAuto(s) PROVE SelectionInv'
  BY <1>3, SelectionSame DEF MoveSubscription, RenameSubscription, ConnectAuto
<1>4. ASSUME NEW s \in SubId, RefreshSubscription(s) PROVE SelectionInv'
  <2>1. CASE SaveRefreshed("refresh", s, {})
    BY <1>4, <1>a, <2>1, SelectionSaved DEF RefreshSubscription
  <2>2. CASE RefreshFails /\ UNCHANGED job
    BY <2>2, SelectionSame DEF RefreshFails
  <2> QED
    BY <1>4, <2>1, <2>2 DEF RefreshSubscription
<1>5. ASSUME NEW op, NEW s, NEW n, RemoveBegin(op, s, n) PROVE SelectionInv'
  <2>1. job.pc \notin Refreshing /\ job'.pc = "list"
    BY <1>5, <1>a DEF RemoveBegin, NoJob
  <2>2. UNCHANGED <<subs, act, kept>> /\ run' \in {run, NoRoute}
    BY <1>5 DEF RemoveBegin
  <2>3. KeptOK'
    BY <2>1, <2>2 DEF SelectionInv, KeptOK, IdOf, Refreshing
  <2> QED
    BY <2>1, <2>2, <2>3, SelectionTracked DEF Refreshing
<1>6. ASSUME NEW s \in SubId, NEW n \in Elems(subs[s]), ConnectManual(s, n) PROVE SelectionInv'
  <2> DEFINE r == [sub |-> s, node |-> n]
  <2>1. n \in Node
    BY ListElems, Typed DEF TypeInv
  <2>2. r \in Route /\ r.sub = s /\ r.node = n
    BY <2>1, Resting
  <2> HIDE DEF r
  <2>3. /\ run' = r /\ act' = Selected(r, "manual") /\ kept' = Kept(subs[r.sub], r.node)
        /\ UNCHANGED subs /\ job'.pc \notin Refreshing /\ r.node \in Elems(subs[r.sub])
    BY <1>6, <1>a, <2>2 DEF ConnectManual, r
  <2> QED
    BY <2>2, <2>3, SelectionMade
<1>7. ASSUME NEW key, PanelRead(key) PROVE SelectionInv'
  BY <1>7, SelectionSame DEF PanelRead
<1>8. CASE AutoCommit
  <2>1. auto.pick \in Route /\ auto.pick.node \in Elems(subs[auto.pick.sub])
    BY <1>8, Typed DEF AutoCommit, TypeInv, OutsideOK, Autos
  <2>2. /\ run' = auto.pick /\ act' = Selected(auto.pick, "auto")
        /\ kept' = Kept(subs[auto.pick.sub], auto.pick.node)
        /\ UNCHANGED subs /\ job'.pc \notin Refreshing
    BY <1>8, <1>a DEF AutoCommit
  <2> QED
    BY <2>1, <2>2, SelectionMade
<1>9. CASE AutoNoCandidate
  <2>0. act \in Acts
    BY Typed DEF TypeInv
  <2>1. /\ act'.sub = auto.sub /\ act'.node = act.node /\ act'.mode = "auto"
        /\ kept' = (IF act.sub = auto.sub THEN kept ELSE "lost") /\ UNCHANGED <<subs, run, job>> /\ job.pc = "idle"
    BY <1>9, <1>a, <2>0 DEF AutoNoCandidate, Acts
  <2>2. KeptOK'
    BY <2>1 DEF SelectionInv, KeptOK, IdOf
  <2> QED
    BY <2>1, <2>2 DEF SelectionInv, StartedFrom, ParamsKept, RunOK, Refreshing
<1>10. CASE AutoStops
  BY <1>10, SelectionSame DEF AutoStops
<1>11. CASE Disconnect
  <2>1. kept' = "lost" /\ job'.pc = "idle"
    BY <1>11, <1>a DEF Disconnect
  <2> QED
    BY <2>1 DEF SelectionInv, KeptOK, StartedFrom, ParamsKept, RunOK, Refreshing
<1>12. CASE RefreshAll
  <2>1. job'.pc = "next"
    BY <1>12 DEF RefreshAll, NoJob
  <2> QED
    BY <1>12, <1>a, <2>1, SelectionSame DEF RefreshAll, Refreshing
<1>13. CASE RefreshAllNext
  <2>1. job.pc = "next" /\ job.rest \in SUBSET SubId
    BY <1>13, <1>a DEF RefreshAllNext, Jobs
  <2>2. ASSUME NEW s \in job.rest, SaveRefreshed("all", s, job.rest \ {s}) PROVE SelectionInv'
    BY <2>1, <2>2, SelectionSaved
  <2>3. ASSUME NEW s \in job.rest, RefreshFails, job' = [job EXCEPT !.rest = @ \ {s}] PROVE SelectionInv'
    <3>1. job'.pc = "next"
      BY <1>a, <2>1, <2>3 DEF Jobs
    <3> QED
      BY <2>1, <2>3, <3>1, SelectionSame DEF RefreshFails, Refreshing
  <2>4. ASSUME job' = NoJob, UNCHANGED <<files, run, auto, panel, history>> PROVE SelectionInv'
    BY <1>b, <2>1, <2>4, SelectionSame DEF Refreshing
  <2> QED
    BY <1>13, <2>2, <2>3, <2>4 DEF RefreshAllNext
<1>14. CASE RefreshHidden
  BY <1>14, SelectionHidden
<1>15. CASE RefreshState
  BY <1>15, SelectionRemapped
<1>16. CASE Reconnect
  BY <1>16, SelectionReconnected
<1>17. CASE ScanRead \/ touchRefreshAttempt
  BY <1>17, SelectionSame DEF ScanRead, touchRefreshAttempt
<1>18. CASE RefreshAndReconnect
  <2>1. CASE act.sub # NoSub /\ SaveRefreshed("reconnect", act.sub, {})
    <3>1. act.sub \in SubId
      BY <2>1, Typed DEF TypeInv, Acts
    <3> QED
      BY <1>18, <1>a, <2>1, <3>1, SelectionSaved DEF RefreshAndReconnect
  <2>2. CASE RefreshFails /\ UNCHANGED job
    BY <2>2, SelectionSame DEF RefreshFails
  <2> QED
    BY <1>18, <2>1, <2>2 DEF RefreshAndReconnect
<1>19. CASE RemoveList
  <2>1. job.pc \notin Refreshing /\ job'.pc \notin Refreshing /\ UNCHANGED <<act, run>>
    BY <1>19, <1>a, <1>b DEF RemoveList, Jobs, Refreshing
  <2>2. \A s \in SubId : Grown(subs[s], subs'[s])
    BY <1>19, AddsOrRemoves
  <2>3. kept' = StillKept(subs') \/ (kept' = kept /\ subs' = subs)
    BY <1>19 DEF RemoveList, Track
  <2> QED
    BY <1>d, <2>1, <2>2, <2>3
<1>20. CASE persistDisconnectedState
  <2>1. job.pc = "selection" /\ job'.pc = "idle"
    BY <1>20, <1>b DEF persistDisconnectedState
  <2>2. CASE kept' = "lost"
    BY <2>1, <2>2 DEF SelectionInv, KeptOK, StartedFrom, ParamsKept, RunOK, Refreshing
  <2>3. CASE UNCHANGED <<act, kept>>
    BY <1>20, <2>1, <2>3, SelectionSame DEF persistDisconnectedState, Refreshing
  <2> QED
    BY <1>20, <2>2, <2>3 DEF persistDisconnectedState
<1>21. CASE PanelWrite \/ PanelFails
  BY <1>21, SelectionSame DEF PanelWrite, PanelFails
<1>22. CASE JobDies
  <2>1. CASE job.pc \in Refreshing
    <3>1. /\ kept' = (IF act.sub = job.sub THEN "lost" ELSE kept)
          /\ job'.pc = "idle" /\ UNCHANGED <<subs, act, run>>
      BY <1>22, <1>b, <2>1 DEF JobDies, CutOff, Refreshing
    <3>2. job.pc = "connect" => kept' = "lost"
      BY <2>1, <3>1 DEF SelectionInv, StartedFrom, TypeInv, JobShape
    <3>3. KeptOK'
      BY <2>1, <3>1 DEF SelectionInv, KeptOK, IdOf
    <3> QED
      BY <3>1, <3>2, <3>3, SelectionTracked DEF Refreshing
  <2>2. CASE job.pc \notin Refreshing
    BY <1>22, <1>b, <2>2, SelectionSame DEF JobDies, Refreshing
  <2> QED
    BY <2>1, <2>2
<1>23. CASE UNCHANGED vars
  BY <1>23, SelectionSame DEF vars
<1> QED
  BY <1>1, <1>2, <1>3, <1>4, <1>5, <1>6, <1>7, <1>8, <1>9, <1>10, <1>11, <1>12, <1>13, <1>14,
     <1>15, <1>16, <1>17, <1>18, <1>19, <1>20, <1>21, <1>22, <1>23 DEF Next

\* The two invariants are kept together.
LEMMA SelectionKept == Spec => [](TypeInv /\ SelectionInv)
<1>1. Init => TypeInv /\ SelectionInv
  <2>1. Init => SelectionInv
    BY Resting DEF Init, SelectionInv, KeptOK, StartedFrom, ParamsKept, RunOK, Refreshing
  <2> QED
    BY <2>1, TypeInit
<1>2. TypeInv /\ SelectionInv /\ [Next]_vars => (TypeInv /\ SelectionInv)'
  BY TypeStep, SelectionStep
<1> QED
  BY <1>1, <1>2, PTL DEF Spec

\* The selected id is one its subscription has while its server is listed exactly
\* once, through every rename a refresh brings: recovery never takes a renamed server
\* for a missing one.
THEOREM SelectionFollowsRenameTheorem == Spec => []SelectionFollowsRename
<1>1. SelectionInv => SelectionFollowsRename
  BY DEF SelectionInv, KeptOK, IdOf, SelectionFollowsRename, Idle
<1> QED
  BY <1>1, SelectionKept, PTL

\* The scheduler's refresh leaves traffic on the parameters the list now has for the
\* selected server, unless a refresh that does not reconnect changed them or the new
\* ones could not be applied.
THEOREM ReconnectAppliesTheorem == Spec => []ReconnectApplies
<1>1. SelectionInv => ReconnectApplies
  BY DEF SelectionInv, RunOK, ReconnectApplies, Idle
<1> QED
  BY <1>1, SelectionKept, PTL
===============================================================================
