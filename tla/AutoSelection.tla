----------------------------- MODULE AutoSelection -----------------------------
(***************************************************************************)
(* Automatic selection and managed reserves: health passes of the daemon,  *)
(* automatic connects of a client over several candidates, measurements    *)
(* asked for by the user, the maintenance of verified reserves in the      *)
(* running Xray and the failover to them.  Probes run outside the store    *)
(* lock; what they found is only used if the files are as they were.       *)
(* One tick of the clock is five minutes.  A switch is one step here; its  *)
(* calls, and what their failures leave, are those of RouteSwitch.         *)
(***************************************************************************)
EXTENDS NodeHealth, SequencesExt

CONSTANTS
    None,
    Listed,        \* the servers in the order of the subscriptions
    SubOf,         \* the subscription of each server
    Policy,        \* settings.EffectiveAutoPolicy
    Outcome,       \* what a round of probes may find: a latency in ms, or Fail, per server
    Scopes,        \* the scopes an automatic connect is asked for
    Picked,        \* the servers the user picks, hides or measures by hand
    MaxEvents,     \* bound on requests of the user, failovers and restarts
    MaxTime,       \* bound on the clock: every round of probes takes a tick
    MaxAttempts,   \* maxAutoCandidateApplyAttempts
    ReserveLimit,  \* managedReserveLimit
    ProbeLimit     \* managedReserveProbeLimit

Node == ToSet(Listed)
Fail == 0

ASSUME Constants == /\ Outcome \subseteq [Node -> Nat] /\ None \notin Node
                    /\ {MaxTime, MaxEvents, MaxAttempts, ReserveLimit, ProbeLimit} \subseteq Nat \ {0}
ASSUME Servers == Listed \in Seq(Node) /\ Listed # <<>> /\ Picked \subseteq Node
ASSUME PolicyAssumption ==
    Policy \in [optimise : BOOLEAN, ceiling : Nat, improvement : Nat, relative : Nat, wins : Nat,
                cooldown : Nat, threshold : Nat]

VARIABLES
    st,      \* state.json
    cache,   \* autoHealthState: what the daemon remembers besides the file
    hidden,  \* settings.AutoExcludedNodes
    now,     \* the clock
    xr,      \* the running Xray: its outbounds and the one its balancer is pinned to
    check,   \* a health pass of the daemon whose probes are done, or None
    ask,     \* an automatic connect or a measurement of a client, probed, or None
    keep,    \* a maintenance of the reserves with its outbounds prepared, or None
    loop,    \* the candidates that the holder of the store lock still tries, or None
    retry,   \* whether a failover has tried its reserves in vain
    events,  \* those so far, for the bound
    moved    \* history: when a server was last changed automatically
vars == <<st, cache, hidden, now, xr, check, ask, keep, loop, retry, events, moved>>

-------------------------------------------------------------------------------
(* The state file, the Xray process and the memory of the daemon.  The list *)
(* of outbounds may hold the same server twice, as draining and as reserve. *)

NoBackoff == [count |-> 0, until |-> 0]

Disconnected ==
    [mode |-> "off", sub |-> None, node |-> None, connected |-> FALSE, scope |-> None,
     failed |-> FALSE, health |-> [n \in Node |-> NoHealth],
     backoff |-> [n \in Node |-> NoBackoff], outs |-> <<>>, switched |-> 0]

Stopped == [outs |-> {}, sel |-> None]

Key(s) == <<s.scope, s.sub, s.node, s.mode, s.connected, s.switched>>
Matches(c, s) == c # None /\ c.key = Key(s)

mergeAutoHealthState(c, s) ==
    IF Matches(c, s)
    THEN [s EXCEPT !.health = MergeProbeHealth(s.health, c.health, None), !.failed = c.failed]
    ELSE s
Merged == mergeAutoHealthState(cache, st)

rememberAutoHealthState(s, persisted) ==
    IF s.mode # "auto" \/ s.sub = None THEN None
    ELSE [key |-> Key(s), health |-> s.health, failed |-> s.failed,
          saved |-> IF persisted THEN now ELSE IF cache = None THEN 0 ELSE cache.saved]

shouldPersistAutoHealthState(next) ==
    Matches(cache, st) /\ st.failed = next.failed
        => cache.saved = 0 \/ now - cache.saved >= 1

\* saveState in the daemon, which remembers what it wrote, and in a client.
Save(who, s) == st' = s /\ cache' = IF who = "daemon" THEN rememberAutoHealthState(s, TRUE) ELSE cache

\* Mutant: what was probed is used whatever the files say now.
NeverStale(op, s) == TRUE

\* autoSelectionSnapshotCurrentLocked: the files are as they were at the snapshot.
Fresh(op, s) == op.snap = s /\ op.hid = hidden

\* The elements of a sequence at some of its places, in their order.
Entries(seq, places) ==
    [k \in 1..Cardinality(places) |-> seq[CHOOSE i \in places : Cardinality({j \in places : j < i}) = k - 1]]

Event == events < MaxEvents /\ events' = events + 1

\* The store lock is held over the attempts of an automatic connect or a failover.
Unlocked == loop = None

-------------------------------------------------------------------------------
(* Applying a selection: applyNodeSelection, tryManagedNodeSelection.       *)

IndexOf(outs, n) == SelectInSeq(outs, LAMBDA e : e.node = n)

\* updateRuntimeOutbound: the first entry of the tag is replaced.
SetOutbound(outs, n, role, verified, retire) ==
    LET i == IndexOf(outs, n)
        new == [node |-> n, role |-> role, wins |-> 0, retire |-> retire,
                verified |-> IF verified = 0 /\ i > 0 THEN outs[i].verified ELSE verified]
    IN  IF i = 0 THEN Append(outs, new) ELSE ReplaceAt(outs, i, new)

managedCandidateBackoff(k) == CASE k = 1 -> 1 [] k = 2 -> 2 [] k = 3 -> 4 [] OTHER -> 6
recordFailure(b, at) == [count |-> b.count + 1, until |-> at + managedCandidateBackoff(b.count + 1)]

Live(s) == s.connected /\ s.node # None
Paused(s, n, at) == at < s.backoff[n].until

\* How applying n may end: on the running Xray if there is a connection, else by a reload.
Results(s, n, skip, at) ==
    CASE Live(s) /\ Paused(s, n, at) -> {"paused"}
      [] Live(s) /\ ~Paused(s, n, at) /\ n = s.node -> {"same"}
      [] Live(s) /\ ~Paused(s, n, at) /\ n # s.node ->
            {"switched", "unverified"} \cup (IF skip THEN {} ELSE {"probe failed"})
      [] OTHER -> {"reloaded", "no egress", "broken"}
Good == {"same", "switched", "reloaded"}
Retryable == {"unverified", "no egress"}

Selected(s, n, mode, at) ==
    [s EXCEPT !.sub = SubOf[n], !.node = n, !.mode = mode, !.connected = TRUE, !.failed = FALSE,
              !.scope = IF mode = "auto" THEN @ ELSE None,
              !.outs = SetOutbound(@, n, "active", at, 0)]

\* The outbounds after the intent of a live switch and after the switch itself.
IntentOuts(s, n, at) == SetOutbound(SetOutbound(s.outs, s.node, "active", 0, 0), n, "reserve", at, 0)
SwitchedOuts(s, n, at) == SetOutbound(IntentOuts(s, n, at), s.node, "draining", 0, at + 1)

\* persistPreservedConnection: the old route is kept, with the reason.
Preserved(s) == [s EXCEPT !.connected = TRUE, !.failed = TRUE]

markConnectionFailed(s, sub, n, mode) ==
    [s EXCEPT !.sub = sub, !.node = n, !.mode = mode, !.connected = FALSE, !.failed = TRUE]

StateAfter(s, n, mode, res, at) ==
    CASE res = "switched" -> Selected([s EXCEPT !.outs = SwitchedOuts(s, n, at)], n, mode, at)
      [] res = "unverified" ->
            Preserved([s EXCEPT !.outs = IntentOuts(s, n, at), !.backoff[n] = NoBackoff])
      [] res = "probe failed" -> Preserved([s EXCEPT !.backoff[n] = recordFailure(@, at)])
      [] res = "paused" -> Preserved(s)
      [] res \in {"same", "reloaded"} -> Selected(s, n, mode, at)
      [] res = "no egress" ->
            markConnectionFailed([s EXCEPT !.health[n] = ForceFailure(@, at, Policy.threshold)],
                                 SubOf[n], n, mode)
      [] OTHER -> markConnectionFailed(s, SubOf[n], n, mode)

XrayAfter(s, n, res) ==
    CASE res \in {"same", "switched"} -> [outs |-> xr.outs \cup {s.node, n}, sel |-> n]
      [] res \in {"unverified", "paused"} -> [outs |-> xr.outs \cup {s.node, n}, sel |-> s.node]
      [] res = "probe failed" -> [outs |-> (xr.outs \cup {s.node}) \ {n}, sel |-> s.node]
      [] res = "reloaded" -> [outs |-> {n}, sel |-> n]
      [] OTHER -> Stopped

-------------------------------------------------------------------------------
(* Evaluation: evaluateAutoSelection for one subscription or for all.       *)

autoSelectableNodes(scope, h) ==
    Entries(Listed, {i \in DOMAIN Listed : Listed[i] \notin h /\ scope \in {"all", SubOf[Listed[i]]}})

Current(s, scope) == IF Live(s) /\ scope \in {"all", s.sub} THEN s.node ELSE None
CurrentListed(s, cur) == cur # None /\ SubOf[cur] = s.sub

ForcedHealth(s, health, scope, h, at) ==
    LET cur == Current(s, scope)
    IN  IF CurrentListed(s, cur) /\ cur \in h /\ (scope = "all" \/ autoSelectableNodes(scope, h) # <<>>)
        THEN [health EXCEPT ![cur] = ForceFailure(@, at, Policy.threshold)]
        ELSE health

Measure(h, latency, at, threshold) ==
    IF latency = Fail THEN Failure(h, 0, at, threshold) ELSE Success(h, latency, at)

\* probeSubscription: one measurement per candidate.
probeSubscription(health, nodes, out, at) ==
    [n \in Node |-> IF n \in nodes THEN Measure(health[n], out[n], at, Policy.threshold) ELSE health[n]]

\* The candidates are probed, then the egress of the current server if it looked healthy.
Probed(s, scope, h, out, egress, at) ==
    LET m == probeSubscription(ForcedHealth(s, s.health, scope, h, at),
                               ToSet(autoSelectableNodes(scope, h)), out, at)
        cur == Current(s, scope)
    IN  IF cur # None /\ ~egress /\ m[cur].ok
        THEN [m EXCEPT ![cur] = ForceFailure(@, at, Policy.threshold)] ELSE m

\* The count of confirmed wins starts again at every pass: decodeState does not
\* read the counter back from the file.
optimizationCandidateWins(cur, cand, probed) ==
    IF probed /\ IsOptimizationCandidate(cur, cand, Policy) THEN 1 ELSE 0

Decision(s, cur, sel, health) ==
    [healthy |-> TRUE, sel |-> sel, switch |-> sel # cur \/ SubOf[sel] # s.sub, health |-> health]
NoDecision(health) == [healthy |-> FALSE, sel |-> None, switch |-> FALSE, health |-> health]

MayStay(s, cur, ch, cand, at, probed) ==
    /\ s.connected /\ CurrentListed(s, cur)
    /\ ~ShouldSwitch(ch, cand, at, s.switched, Policy, optimizationCandidateWins(ch, cand, probed))

Judge(s, cur, cand, health, at, probed) ==
    IF ~health[cand].ok THEN NoDecision(health)
    ELSE Decision(s, cur,
                  IF MayStay(s, cur, IF cur = None THEN NoHealth ELSE health[cur], health[cand], at, probed)
                  THEN cur ELSE cand, health)

\* Without a candidate that answers there is nothing to select.
evaluateAutoSelection(s, scope, h, health, at, probed) ==
    IF autoSelectableNodes(scope, h) = <<>> THEN NoDecision(health)
    ELSE Judge(s, Current(s, scope), SelectBestNode(autoSelectableNodes(scope, h), health),
               health, at, probed)

\* Mutant: the time of the switch is not recorded.
CommittedUntimed(s, d, at) == [s EXCEPT !.health = d.health]

\* commitAutoSelection after a successful apply.
Committed(s, d, at) == [s EXCEPT !.health = d.health, !.switched = IF d.switch THEN at ELSE @]
-------------------------------------------------------------------------------
(* Health passes of the daemon (RunAutoHealthCheck).                        *)

ScopeOf(s) == IF s.scope = "all" THEN "all" ELSE s.sub

BeginHealthCheck ==
    /\ Unlocked /\ check = None /\ now < MaxTime
    /\ st.mode = "auto" /\ st.sub # None
    /\ now' = now + 1
    /\ \E out \in Outcome, egress \in BOOLEAN :
          LET s == Merged
          IN  check' = [snap |-> s, hid |-> hidden,
                        d |-> evaluateAutoSelection(s, ScopeOf(s), hidden,
                                Probed(s, ScopeOf(s), hidden, out, egress, now'), now', TRUE)]
    /\ UNCHANGED <<st, cache, hidden, xr, ask, keep, loop, retry, moved, events>>

\* commitAutoSelection: the one attempt of a pass.
CommitSelection(s, d) ==
    \E res \in Results(s, d.sel, FALSE, now) :
        LET after == StateAfter(s, d.sel, "auto", res, now)
        IN  /\ Save("daemon", IF res \in Good THEN Committed(after, d, now) ELSE after)
            /\ xr' = XrayAfter(s, d.sel, res)
            /\ moved' = IF res \in Good /\ d.switch THEN now ELSE moved

\* persistAutoFailure: a connection with no healthy candidate is taken down.
persistAutoFailure(snap, d) ==
    /\ Save("daemon", [(IF snap.connected THEN markConnectionFailed(st, st.sub, snap.node, "auto") ELSE snap)
                        EXCEPT !.health = d.health, !.failed = TRUE])
    /\ xr' = IF snap.connected THEN Stopped ELSE xr
    /\ UNCHANGED moved

\* The route stays; its health goes to the file at most every five minutes.
StayHealthy(snap, d) ==
    LET next == [snap EXCEPT !.health = d.health, !.failed = FALSE]
    IN  /\ \/ shouldPersistAutoHealthState(next) /\ Save("daemon", next)
           \/ /\ ~shouldPersistAutoHealthState(next)
              /\ cache' = rememberAutoHealthState(next, FALSE) /\ UNCHANGED st
        /\ UNCHANGED <<xr, moved>>

CommitHealthCheck ==
    /\ Unlocked /\ check # None
    /\ check' = None
    /\ LET d == check.d
       IN  \/ ~Fresh(check, Merged) /\ UNCHANGED <<st, cache, xr, moved>>
           \/ Fresh(check, Merged) /\ ~d.healthy /\ persistAutoFailure(check.snap, d)
           \/ Fresh(check, Merged) /\ d.healthy /\ check.snap.connected /\ ~d.switch
                /\ StayHealthy(check.snap, d)
           \/ Fresh(check, Merged) /\ d.healthy /\ (~check.snap.connected \/ d.switch)
                /\ CommitSelection(st, d)
    /\ UNCHANGED <<hidden, now, ask, keep, loop, retry, events>>

-------------------------------------------------------------------------------
(* Automatic connects: up to MaxAttempts candidates under the store lock.   *)

BeginConnectAuto(scope) ==
    /\ Event
    /\ Unlocked /\ ask = None /\ now < MaxTime
    /\ now' = now + 1
    /\ \E out \in Outcome, egress \in BOOLEAN :
          ask' = [kind |-> "connect", scope |-> scope, snap |-> st, hid |-> hidden,
                  d |-> evaluateAutoSelection(st, scope, hidden,
                          Probed(st, scope, hidden, out, egress, now'), now', TRUE)]
    /\ UNCHANGED <<st, cache, hidden, xr, check, keep, loop, retry, moved>>

Attempts(who, scope, snap, d) ==
    [kind |-> "connect", who |-> who, scope |-> scope, snap |-> snap, d |-> d, tried |-> {},
     left |-> Least(MaxAttempts, Len(autoSelectableNodes(scope, hidden)))]

CommitConnectAuto ==
    /\ Unlocked /\ ask # None /\ ask.kind = "connect"
    /\ ask' = None
    /\ loop' = IF Fresh(ask, st) THEN Attempts("client", ask.scope, ask.snap, ask.d) ELSE None
    /\ UNCHANGED <<st, cache, hidden, now, xr, check, keep, retry, moved, events>>

\* A rejected candidate is left out, the others are ranked again by what is known.
NextDecision(after, n) ==
    LET tried == loop.tried \cup {n}
        health == MergeProbeHealth(after.health, loop.d.health, n)
    IN  [loop EXCEPT !.tried = tried, !.left = @ - 1,
             !.d = evaluateAutoSelection(after, loop.scope, hidden \cup tried,
                     ForcedHealth(after, health, loop.scope, hidden \cup tried, now), now, FALSE)]

TryCandidate ==
    /\ loop # None /\ loop.kind = "connect" /\ loop.d.healthy /\ loop.left > 0
    /\ \E res \in Results(st, loop.d.sel, FALSE, now) :
          LET n == loop.d.sel
              after == StateAfter(st, n, "auto", res, now)
          IN  /\ xr' = XrayAfter(st, n, res)
              /\ \/ /\ res \in Good
                    /\ Save(loop.who, [Committed(after, loop.d, now) EXCEPT !.scope = loop.scope])
                    /\ moved' = IF loop.d.switch THEN now ELSE moved
                    /\ loop' = None
                 \/ /\ res \in Retryable
                    /\ Save(loop.who, after)
                    /\ loop' = NextDecision(after, n) /\ UNCHANGED moved
                 \/ /\ res \notin Good \cup Retryable
                    /\ Save(loop.who, after)
                    /\ loop' = None /\ UNCHANGED moved
    /\ UNCHANGED <<hidden, now, check, ask, keep, retry, events>>

\* No attempt is left.  Without a healthy candidate the state of the snapshot is
\* written, under the subscription that was asked for.
GiveUp ==
    /\ loop # None /\ loop.kind = "connect" /\ (~loop.d.healthy \/ loop.left = 0)
    /\ IF loop.d.healthy THEN UNCHANGED <<st, cache>>
       ELSE Save(loop.who,
                 [loop.snap EXCEPT !.health = loop.d.health, !.mode = "auto", !.failed = TRUE,
                    !.scope = IF loop.scope = "all" THEN "all" ELSE @,
                    !.sub = IF loop.scope # "all" THEN loop.scope
                            ELSE IF @ = None THEN SubOf[Listed[1]] ELSE @])
    /\ loop' = None
    /\ UNCHANGED <<hidden, now, xr, check, ask, keep, retry, moved, events>>
-------------------------------------------------------------------------------
(* Choices and measurements of the user, each by a client process.          *)

\* ConnectAutoSelected: a server the browser has measured.
ConnectAutoSelected(n, scope) ==
    /\ Event
    /\ Unlocked /\ now < MaxTime /\ now' = now + 1
    /\ \E out \in Outcome, res \in Results(st, n, FALSE, now') :
          LET h == [Success(st.health[n], out[n], now') EXCEPT
                       !.avg = out[n], !.var = st.health[n].var, !.inst = st.health[n].inst]
              d == [health |-> [st.health EXCEPT ![n] = h], switch |-> st.node # n \/ st.sub # SubOf[n]]
              after == StateAfter(st, n, "auto", res, now')
          IN  /\ out[n] # Fail
              /\ st' = IF res \in Good THEN [Committed(after, d, now') EXCEPT !.scope = scope] ELSE after
              /\ xr' = XrayAfter(st, n, res)
              /\ moved' = IF res \in Good /\ d.switch THEN now' ELSE moved
    /\ UNCHANGED <<cache, hidden, check, ask, keep, loop, retry>>

ConnectManual(n) ==
    /\ Event
    /\ Unlocked
    /\ \E res \in Results(st, n, FALSE, now) :
          st' = StateAfter(st, n, "manual", res, now) /\ xr' = XrayAfter(st, n, res)
    /\ UNCHANGED <<cache, hidden, now, check, ask, keep, loop, retry, moved>>

Disconnect ==
    /\ Event
    /\ Unlocked
    /\ st' = [st EXCEPT !.mode = "off", !.sub = None, !.node = None, !.connected = FALSE, !.scope = None]
    /\ xr' = Stopped
    /\ UNCHANGED <<cache, hidden, now, check, ask, keep, loop, retry, moved>>

Hide(n) ==
    /\ Event
    /\ Unlocked
    /\ hidden' = IF n \in hidden THEN hidden \ {n} ELSE hidden \cup {n}
    /\ UNCHANGED <<st, cache, now, xr, check, ask, keep, loop, retry, moved>>

\* CheckHealth of a scope, and the check of one server that was reached.
BeginMeasure(nodes, single) ==
    /\ Event
    /\ Unlocked /\ ask = None /\ now < MaxTime /\ now' = now + 1
    /\ \E out \in Outcome :
          /\ single => \A n \in nodes : out[n] # Fail
          /\ ask' = [kind |-> IF single THEN "one" ELSE "all", nodes |-> nodes, out |-> out, at |-> now',
                     seen |-> probeSubscription(st.health, nodes, out, now')]
    /\ UNCHANGED <<st, cache, hidden, xr, check, keep, loop, retry, moved>>

\* What a measurement makes of a record: CheckHealth keeps a newer one, and so does
\* persistInspectedHealth, which adds to the record as it is now.
Observed(n) ==
    CASE ask.kind = "all" -> IF st.health[n].at > ask.at THEN st.health[n] ELSE ask.seen[n]
      [] OTHER -> IF Known(st.health[n]) /\ ask.at <= st.health[n].at THEN st.health[n]
                  ELSE Success(st.health[n], ask.out[n], ask.at)

CommitMeasure ==
    /\ Unlocked /\ ask # None /\ ask.kind \in {"one", "all"}
    /\ st' = [st EXCEPT !.health = [n \in Node |-> IF n \in ask.nodes THEN Observed(n) ELSE @[n]]]
    /\ ask' = None
    /\ UNCHANGED <<cache, hidden, now, xr, check, keep, loop, retry, moved, events>>

\* External: a change of the settings loads a new configuration with the selected server only.
Reload ==
    /\ Event
    /\ Unlocked /\ Live(st) /\ xr.outs # {st.node}
    /\ xr' = [outs |-> {st.node}, sel |-> st.node]
    /\ UNCHANGED <<st, cache, hidden, now, check, ask, keep, loop, retry, moved>>

\* The daemon starts again, with nothing remembered; a client is killed.
RestartDaemon ==
    /\ Event
    /\ <<cache, check, keep, retry>> # <<None, None, None, FALSE>> \/ (loop # None /\ loop.who = "daemon")
    /\ cache' = None /\ check' = None /\ keep' = None /\ retry' = FALSE
    /\ loop' = IF loop # None /\ loop.who = "daemon" THEN None ELSE loop
    /\ UNCHANGED <<st, hidden, now, xr, ask, moved>>

KillClient ==
    /\ ask # None \/ (loop # None /\ loop.who = "client")
    /\ ask' = None
    /\ loop' = IF loop # None /\ loop.who = "client" THEN None ELSE loop
    /\ UNCHANGED <<st, cache, hidden, now, xr, check, keep, retry, moved, events>>

-------------------------------------------------------------------------------
(* Managed reserves: ranking.                                               *)

managedReserveHealthTier(h) == IF ~Known(h) THEN 1 ELSE IF h.ok THEN 0 ELSE 2
Order(n) == SelectInSeq(Listed, LAMBDA m : m = n)

Rank(h, n) == [tier |-> managedReserveHealthTier(h), score |-> Score(h), order |-> Order(n), sub |-> SubOf[n]]
Ranks(nodes, health) == [n \in nodes |-> Rank(health[n], n)]

RanksBefore(x, y) ==
    IF x.tier # y.tier THEN x.tier < y.tier
    ELSE IF x.score # y.score THEN x.score > y.score ELSE x.order < y.order

\* The i-th goes to the second place.
Raised(r, i) == [k \in DOMAIN r |-> r[CASE k = 2 -> i [] k \in 3..i -> k - 1 [] OTHER -> k]]
Moved(r, from) == IF from = {} THEN r ELSE Raised(r, Min(from))

\* The second place goes to the first equivalent server of another subscription.
preferEquivalentDifferentSubscription(r, rank) ==
    IF Len(r) < 3 \/ rank[r[1]].sub # rank[r[2]].sub THEN r
    ELSE Moved(r, {i \in 3..Len(r) :
                     /\ rank[r[i]].sub # rank[r[1]].sub
                     /\ \A j \in 3..i : /\ rank[r[j]].tier = rank[r[2]].tier
                                       /\ rank[r[j]].score >= rank[r[2]].score - 100})

\* The place of a server is the number of those that rank before it.
SortedByRank(nodes, rank) ==
    [k \in 1..Cardinality(nodes) |->
        CHOOSE n \in nodes : Cardinality({m \in nodes : RanksBefore(rank[m], rank[n])}) = k - 1]
Sorted(nodes, rank) == preferEquivalentDifferentSubscription(SortedByRank(nodes, rank), rank)
rankManagedReserveCandidates(nodes, health) == Sorted(nodes, Ranks(nodes, health))

collectManagedReserveCandidates(s, h) ==
    {n \in Node : n \notin h /\ ~(s.connected /\ n = s.node /\ SubOf[n] = s.sub)}

\* The servers that have an outbound in one of some roles, each once.
Nodes(outs, roles) ==
    LET first == {i \in DOMAIN outs : /\ outs[i].role \in roles
                                      /\ \A j \in 1..(i - 1) : outs[j].role \in roles => outs[j].node # outs[i].node}
        e == Entries(outs, first)
    IN  [k \in DOMAIN e |-> e[k].node]

\* Those of a list of servers that are in a set.
Within(seq, nodes) == Entries(seq, {i \in DOMAIN seq : seq[i] \in nodes})

existingManagedReserveCandidates(s, h) ==
    Within(Nodes(s.outs, {"reserve", "candidate"}), collectManagedReserveCandidates(s, h))

\* Existing reserves first, then the best measured ones and, one after the other, those
\* never measured.
ProbeOrder(existing, measured, unknown, slots, k) ==
    existing \o SubSeq(measured, 1, slots)
    \o SubSeq(unknown, k + 1, Len(unknown)) \o SubSeq(unknown, 1, k)
    \o SubSeq(measured, slots + 1, Len(measured))

MeasuredSlots(existing, measured, unknown) ==
    Least(Len(measured), Greatest(0, ProbeLimit - existing - (IF unknown = <<>> THEN 0 ELSE 1)))

OrderedBy(existing, measured, unknown, offset) ==
    ProbeOrder(existing, measured, unknown, MeasuredSlots(Len(existing), measured, unknown),
               IF unknown = <<>> THEN 0 ELSE offset % Len(unknown))

managedReserveProbeOrder(existing, ranked, health, offset) ==
    OrderedBy(existing, Within(ranked, {n \in Node : Known(health[n])}),
              Within(ranked, {n \in Node : ~Known(health[n])}), offset)

\* The candidates taken, one after the other and each once, until there are enough, and
\* the outbounds that had to be prepared on the way.
Take(s, existing, known, ordered, at) ==
    LET fit == {i \in DOMAIN ordered : /\ \A j \in 1..(i - 1) : ordered[j] # ordered[i]
                                       /\ ordered[i] # xr.sel /\ ~Paused(s, ordered[i], at)}
        seen == {i \in DOMAIN ordered : Cardinality({j \in fit : j < i}) < ProbeLimit}
        new == {ordered[i] : i \in seen} \ existing
    IN  [prepared |-> new, new |-> new \ known, take |-> {ordered[i] : i \in seen \cap fit}]

PrepareFrom(s, existing, candidates, offset, at) ==
    Take(s, ToSet(existing), {s.outs[i].node : i \in DOMAIN s.outs},
         managedReserveProbeOrder(existing, rankManagedReserveCandidates(candidates, s.health),
                                  s.health, offset), at)
PrepareCandidates(s, h, offset, at) ==
    PrepareFrom(s, existingManagedReserveCandidates(s, h), collectManagedReserveCandidates(s, h), offset, at)

managedReserveMeaningfullyBetter(c, r) ==
    IF c.tier # 0 \/ r.tier # 0 THEN c.tier = 0 /\ r.tier # 0
    ELSE /\ c.score - r.score >= 50 /\ r.score < 10000
         /\ (c.score - r.score) * 5 >= 10000 - r.score

managedReserveWithinDiversityWindow(c, r) == c.tier = 0 /\ r.tier = 0 /\ c.score >= r.score - 100

\* Wins of a challenger recorded in the last entry of its outbound.
PromotionWins(outs, n) ==
    LET i == SelectLastInSeq(outs, LAMBDA e : e.node = n) IN IF i = 0 THEN 0 ELSE outs[i].wins

ReserveEntry(n, role, wins, at) ==
    [node |-> n, role |-> role, wins |-> wins, retire |-> 0, verified |-> at]
ReserveEntries(first, at) == [i \in DOMAIN first |-> ReserveEntry(first[i], "reserve", 0, at)]

\* A challenger replaces the weakest reserve at its second win in a row.
Challenge(held, weakest, up, rank, outs, at) ==
    IF up = <<>> THEN ReserveEntries(Sorted(ToSet(held), rank), at)
    ELSE IF PromotionWins(outs, Head(up)) >= 1
    THEN ReserveEntries(Sorted((ToSet(held) \ {weakest}) \cup {Head(up)}, rank), at)
    ELSE Append(ReserveEntries(Sorted(ToSet(held), rank), at), ReserveEntry(Head(up), "candidate", 1, at))

Challengers(ranked, held, weakest, rank) ==
    Within(ranked, {n \in DOMAIN rank \ ToSet(held) :
        \/ managedReserveMeaningfullyBetter(rank[n], rank[weakest])
        \/ /\ \A m \in ToSet(held) : SubOf[m] = SubOf[held[1]] /\ SubOf[n] # SubOf[m]
           /\ managedReserveWithinDiversityWindow(rank[n], rank[weakest])})

Weakest(held, rank) ==
    held[CHOOSE i \in DOMAIN held : \A j \in DOMAIN held :
            IF j < i THEN rank[held[j]].score > rank[held[i]].score
            ELSE rank[held[j]].score >= rank[held[i]].score]

Choose(held, weakest, ranked, rank, outs, at) ==
    Challenge(held, weakest,
              IF Len(held) = ReserveLimit THEN Challengers(ranked, held, weakest, rank) ELSE <<>>,
              rank, outs, at)

FirstOf(seq, k) == SubSeq(seq, 1, Least(Len(seq), k))

Hold(stay, ranked) ==
    stay \o FirstOf(Within(ranked, ToSet(ranked) \ ToSet(stay)), ReserveLimit - Len(stay))

ChooseFrom(held, ranked, rank, outs, at) == Choose(held, Weakest(held, rank), ranked, rank, outs, at)

\* selectManagedReserveStates: reserves that passed again stay; free places go to the
\* best that passed twice; then a clearly better server may challenge the weakest.
SelectConfirmed(confirmed, rank, outs, at) ==
    IF confirmed = {} THEN <<>>
    ELSE ChooseFrom(Hold(FirstOf(Within(Nodes(outs, {"reserve"}), confirmed), ReserveLimit),
                         Sorted(confirmed, rank)),
                    Sorted(confirmed, rank), rank, outs, at)
selectManagedReserveStates(ok, health, outs, at) ==
    SelectConfirmed({n \in ok : health[n].cs >= 2}, Ranks(ok, health), outs, at)

-------------------------------------------------------------------------------
(* Maintenance of the reserves and removal of outbounds.                    *)

Listing(outs, n) == IndexOf(outs, n) > 0

\* Mutant: an outbound is removed without a look at its use.
RemovableAny(s, nodes) == nodes

\* safeRemoveManagedOutbound: neither the selected outbound nor one the state lists.
Removable(s, nodes) == {n \in nodes : n # xr.sel /\ ~Listing(s.outs, n)}

DrainingEntries(nodes) ==
    [k \in DOMAIN nodes |-> [node |-> nodes[k], role |-> "draining", wins |-> 0, retire |-> now, verified |-> 0]]

\* Removal by the running Xray; an outbound it does not give up is recorded as draining.
RemoveOutbounds(s, nodes, saves, broken) ==
    LET gone == Removable(s, nodes)
        kept == s.outs \o DrainingEntries(Within(Listed, gone))
    IN  IF broken /\ gone # {} THEN Save("daemon", [s EXCEPT !.outs = kept]) /\ UNCHANGED xr
        ELSE /\ xr' = [xr EXCEPT !.outs = @ \ gone]
             /\ IF saves THEN Save("daemon", s) ELSE UNCHANGED <<st, cache>>

BeginMaintainReserves ==
    /\ Unlocked /\ keep = None /\ now < MaxTime /\ now' = now + 1
    /\ st.mode \in {"auto", "manual"} /\ xr.sel # None
    /\ \E offset \in 0..(Len(Listed) - 1) :
          LET p == PrepareCandidates(Merged, hidden, offset, now')
          IN  /\ keep' = [snap |-> Merged, hid |-> hidden, take |-> p.take, new |-> p.new, at |-> now']
              /\ xr' = [xr EXCEPT !.outs = @ \cup p.prepared]
    /\ UNCHANGED <<st, cache, hidden, check, ask, loop, retry, moved, events>>

\* An outbound that the running Xray does not have is not reached.
Reached(out) == {n \in keep.take \cap xr.outs : out[n] # Fail}

ReserveHealth(out, ok) ==
    [n \in Node |-> IF n \notin keep.take THEN keep.snap.health[n]
                    ELSE Measure(keep.snap.health[n], IF n \in ok THEN out[n] ELSE Fail, keep.at, 2)]

MaintainedWith(ok, health) ==
    [keep.snap EXCEPT
        !.health = health,
        !.backoff = [n \in Node |-> IF n \in ok THEN NoBackoff
                                    ELSE IF n \in keep.take THEN recordFailure(@[n], keep.at) ELSE @[n]],
        !.outs = Entries(@, {i \in DOMAIN @ : @[i].role \notin {"reserve", "candidate"}})
                 \o selectManagedReserveStates(ok, health, @, keep.at)]
Maintained(out) == MaintainedWith(Reached(out), ReserveHealth(out, Reached(out)))

\* New outbounds and reserves that are not kept are removed after the save.
KeepReserves(s, broken) ==
    RemoveOutbounds(s, (ToSet(Nodes(keep.snap.outs, {"reserve", "candidate"})) \cup keep.new)
                       \ ToSet(Nodes(s.outs, {"reserve", "candidate"})), TRUE, broken)

CommitMaintainReserves ==
    /\ Unlocked /\ keep # None
    /\ \E out \in Outcome, broken \in BOOLEAN :
          IF Fresh(keep, Merged) THEN KeepReserves(Maintained(out), broken)
          ELSE RemoveOutbounds(st, keep.new, FALSE, broken)
    /\ keep' = None
    /\ UNCHANGED <<hidden, now, check, ask, loop, retry, moved, events>>

CleanupManagedOutbounds ==
    LET due == {i \in DOMAIN st.outs : LET e == st.outs[i]
                                      IN e.role = "draining" /\ e.retire > 0 /\ now >= e.retire /\ e.node # xr.sel}
    IN  /\ Unlocked /\ xr.sel # None /\ due # {}
        /\ \E gone \in (SUBSET due) \ {{}} :
              /\ Save("daemon", [st EXCEPT !.outs = Entries(@, DOMAIN @ \ gone)])
              /\ xr' = [xr EXCEPT !.outs = @ \ {st.outs[i].node : i \in gone}]
        /\ UNCHANGED <<hidden, now, check, ask, keep, loop, retry, moved, events>>

-------------------------------------------------------------------------------
(* Failover, asked for by the connection watch: first to the reserves, then *)
(* to the best server measured before.                                      *)

Reserves(s) ==
    LET usable == {n \in ToSet(Nodes(s.outs, {"reserve"})) :
                     n \in collectManagedReserveCandidates(s, hidden) /\ ~Paused(s, n, now)}
    IN  rankManagedReserveCandidates(usable, s.health)

BeginFailover ==
    /\ Event
    /\ Unlocked /\ ~retry /\ Live(st) /\ st.mode \in {"auto", "manual"}
    /\ Reserves(Merged) # <<>>
    /\ loop' = [kind |-> "reserves", who |-> "daemon", mode |-> st.mode, queue |-> Reserves(Merged),
                outs |-> Merged.outs]
    /\ UNCHANGED <<st, cache, hidden, now, xr, check, ask, keep, retry, moved>>

TryReserve ==
    /\ loop # None /\ loop.kind = "reserves"
    /\ LET n == Head(loop.queue)
           rest == Tail(loop.queue)
           i == SelectInSeq(loop.outs, LAMBDA e : e.node = n /\ e.role = "reserve")
       IN  \E res \in Results(st, n, loop.outs[i].verified = now, now) :
             LET after == StateAfter(st, n, loop.mode, res, now)
             IN  /\ xr' = XrayAfter(st, n, res)
                 /\ Save("daemon", IF res \in Good THEN [after EXCEPT !.switched = now, !.failed = TRUE] ELSE after)
                 /\ loop' = IF res \in Good \/ rest = <<>> THEN None ELSE [loop EXCEPT !.queue = rest]
                 /\ retry' = (res \notin Good /\ rest = <<>>)
                 /\ moved' = IF res \in Good THEN now ELSE moved
    /\ UNCHANGED <<hidden, now, check, ask, keep, events>>

\* The current server counts as failed, without probes.
KnownDecision(s, scope, h) ==
    LET f == [s.health EXCEPT ![s.node] = ForceFailure(@, now, Policy.threshold)]
    IN  evaluateAutoSelection(s, scope, h, ForcedHealth(s, f, scope, h, now), now, FALSE)

AutoFailover ==
    /\ Event
    /\ Unlocked /\ Live(st) /\ st.mode = "auto" /\ (retry \/ Reserves(Merged) = <<>>)
    /\ LET s == Merged
           d == KnownDecision(s, ScopeOf(s), hidden)
           f == [s EXCEPT !.health[s.node] = ForceFailure(@, now, Policy.threshold)]
       IN  loop' = IF d.healthy /\ d.sel # s.node THEN Attempts("daemon", ScopeOf(s), f, d) ELSE None
    /\ retry' = FALSE
    /\ UNCHANGED <<st, cache, hidden, now, xr, check, ask, keep, moved>>

ManualFailover ==
    /\ Event
    /\ Unlocked /\ Live(st) /\ st.mode = "manual" /\ (retry \/ Reserves(Merged) = <<>>)
    /\ LET d == KnownDecision(Merged, "all", hidden \cup {st.node})
       IN  /\ d.healthy /\ d.sel # st.node
           /\ \E res \in Results(st, d.sel, FALSE, now) :
                 LET after == StateAfter(st, d.sel, "manual", res, now)
                 IN  /\ Save("daemon", IF res \notin Good THEN after
                                       ELSE [after EXCEPT !.health = d.health, !.switched = now, !.failed = TRUE])
                     /\ xr' = XrayAfter(st, d.sel, res)
                     /\ moved' = IF res \in Good THEN now ELSE moved
    /\ retry' = FALSE
    /\ UNCHANGED <<hidden, now, check, ask, keep, loop>>

\* The failover ends without a server to go to, or in another mode.
EndFailover ==
    /\ Unlocked /\ retry
    /\ retry' = FALSE
    /\ UNCHANGED <<st, cache, hidden, now, xr, check, ask, keep, loop, moved, events>>

-------------------------------------------------------------------------------
\* Either nothing was ever connected, or the daemon starts over a connection in auto mode.
Running ==
    LET met == [n \in Node |-> Success(NoHealth, 100, 1)]
    IN  Selected([Disconnected EXCEPT !.health = met, !.scope = "all", !.switched = 1],
                 Listed[1], "auto", 1)

Init ==
    /\ \/ st = Disconnected /\ now = 0 /\ xr = Stopped
       \/ st = Running /\ now = 1 /\ xr = [outs |-> {st.node}, sel |-> st.node]
    /\ cache = None /\ hidden = {} /\ check = None /\ ask = None /\ keep = None /\ loop = None /\ retry = FALSE
    /\ events = 0 /\ moved = now

Failover == BeginFailover \/ TryReserve \/ AutoFailover \/ ManualFailover

User ==
    \/ \E n \in Picked : ConnectManual(n) \/ Hide(n) \/ \E scope \in {"all", SubOf[n]} : ConnectAutoSelected(n, scope)
    \/ Disconnect

Client ==
    \/ \E scope \in Scopes :
          \/ BeginConnectAuto(scope)
          \/ BeginMeasure(ToSet(autoSelectableNodes(scope, hidden)), FALSE)
    \/ \E n \in Picked : BeginMeasure({n}, TRUE)
    \/ CommitConnectAuto \/ CommitMeasure \/ KillClient

Daemon ==
    \/ BeginHealthCheck \/ CommitHealthCheck
    \/ BeginMaintainReserves \/ CommitMaintainReserves \/ CleanupManagedOutbounds
    \/ Failover \/ EndFailover \/ RestartDaemon

Next == User \/ Client \/ Daemon \/ TryCandidate \/ GiveUp \/ Reload
Spec == Init /\ [][Next]_vars
-------------------------------------------------------------------------------
Entry == [node : Node, role : {"active", "reserve", "candidate", "draining"},
          verified : 0..MaxTime, wins : 0..1, retire : 0..(MaxTime + 1)]

\* Everything has its type: the state file as the store reads it, the outbounds of
\* the running Xray, what the processes hold.
TypeOK ==
    /\ st.mode \in {"off", "auto", "manual"} /\ {st.connected, st.failed} \subseteq BOOLEAN
    /\ st.node \in Node \cup {None} /\ st.health \in [Node -> HealthRecord]
    /\ st.outs \in Seq(Entry) /\ st.switched \in 0..MaxTime
    /\ xr.outs \subseteq Node /\ xr.sel \in Node \cup {None}
    /\ hidden \subseteq Node /\ now \in 0..MaxTime

\* No operation puts an older observation of a server into the state file over a newer
\* one, whatever was measured, remembered by the daemon or reloaded in between
\* (mergeProbeHealth, CheckHealth, persistInspectedHealth).
ObservationsKept == [][\A n \in Node : st'.health[n].at >= st.health[n].at]_vars

\* Probes that are under way do not undo a choice of the user: the daemon leaves a
\* manual selection only in a failover and keeps its mode then, does not connect what
\* was disconnected, and moves to no server that is hidden by the time it moves.
UserChoiceKept ==
    [][Daemon =>
        /\ st.mode = "manual" => st'.mode = "manual" /\ (st'.node = st.node \/ Failover)
        /\ st.mode = "off" => ~st'.connected
        /\ st'.connected /\ st'.node # st.node => st'.node \notin hidden]_vars

\* Whatever maintenance, cleanup and failed switches removed: when no switch is under
\* way the running Xray is pinned to the server the state names, has its outbound, and
\* the state lists it as active.
SelectedPresent ==
    (Unlocked /\ Live(st)) =>
        /\ xr.sel = st.node /\ st.node \in xr.outs
        /\ \E i \in DOMAIN st.outs : st.outs[i].node = st.node /\ st.outs[i].role = "active"

\* The health pass leaves a server that answers only when the cooldown since the last
\* automatic change is over, however the change before came about.
CooldownKept ==
    [][(CommitHealthCheck /\ Live(st) /\ st'.connected /\ st'.node # st.node
        /\ SubOf[st.node] = st.sub /\ ~Emergency(check.d.health[st.node], Policy))
       => now - moved >= Policy.cooldown]_vars
===============================================================================
