------------------------------ MODULE NodeHealth ------------------------------
(***************************************************************************)
(* Health records of servers: how a measurement is folded in, the latency  *)
(* that servers are compared by, the ranking, and the rule that decides    *)
(* whether a better server is worth a switch (internal/probe).  Durations  *)
(* are whole milliseconds, quotients are rounded down to them.             *)
(***************************************************************************)
EXTENDS Integers, Sequences, FiniteSets

\* The record of a server that has never been measured (at = 0).
NoHealth == [ok |-> FALSE, succ |-> 0, fail |-> 0, cs |-> 0, cf |-> 0, inst |-> 0,
             last |-> 0, avg |-> 0, var |-> 0, at |-> 0]
Known(h) == h.at > 0

HealthRecord == [ok : BOOLEAN, succ : Nat, fail : Nat, cs : Nat, cf : Nat, inst : 0..20,
                 last : Nat, avg : Nat, var : Nat, at : Nat]

Distance(x, y) == IF x < y THEN y - x ELSE x - y
Least(x, y) == IF x < y THEN x ELSE y
Greatest(x, y) == IF x < y THEN y ELSE x

Success(h, latency, at) ==
    LET dev == Distance(latency, h.avg)
    IN  [h EXCEPT !.ok = TRUE, !.succ = @ + 1, !.cs = @ + 1, !.cf = 0, !.at = at,
                  !.inst = Greatest(@ - 1, 0), !.last = latency,
                  !.var = IF h.avg = 0 THEN @ ELSE IF @ = 0 THEN dev ELSE (4 * @ + dev) \div 5,
                  !.avg = IF @ = 0 THEN latency ELSE (4 * @ + latency) \div 5]

Failure(h, latency, at, threshold) ==
    [h EXCEPT !.ok = h.succ > 0 /\ h.cf + 1 < Greatest(threshold, 1),
              !.fail = @ + 1, !.cs = 0, !.cf = @ + 1, !.at = at,
              !.inst = Least(@ + 3, 20), !.last = latency,
              !.avg = IF @ = 0 THEN latency ELSE @]

\* A failure that counts at once, whatever the record was.
ForceFailure(h, at, threshold) ==
    LET f == Failure(h, h.last, at, 1) IN [f EXCEPT !.cf = Greatest(@, threshold)]

Weighted(h) ==
    CASE h.last = 0 -> h.avg
      [] h.last > 0 /\ h.avg = 0 -> h.last
      [] OTHER -> (h.last + 4 * h.avg) \div 5

\* Measured latency plus penalties for variation, few samples, failures and instability.
EffectiveLatency(h) ==
    Weighted(h)
    + (3 * h.var) \div 2
    + (IF h.ok /\ h.succ \in 1..3 THEN (4 - h.succ) * 15 ELSE 0)
    + (IF h.succ + h.fail > 0 THEN (2500 * h.fail) \div ((h.succ + h.fail) * (1 + h.cs)) ELSE 0)
    + 3000 * h.cf + 500 * h.inst

ScoreAt(h, latency) == (IF h.ok THEN 10000 ELSE -10000) - (IF latency = 0 THEN 2000 ELSE latency)
Score(h) == ScoreAt(h, EffectiveLatency(h))

\* The order SelectBestNode sorts by: healthy ones first, then those of an acceptable
\* latency, then by latency; a server without a latency comes last.
BetterAt(h, lh, g, lg) ==
    CASE h.ok # g.ok -> h.ok
      [] h.ok = g.ok /\ (lh \in 1..300) # (lg \in 1..300) -> lh \in 1..300
      [] OTHER -> IF lh > 0 /\ lg > 0 /\ lh # lg THEN lh < lg
                  ELSE IF (lh > 0) # (lg > 0) THEN lh > 0
                  ELSE ScoreAt(h, lh) > ScoreAt(g, lg)
Better(h, g) == BetterAt(h, EffectiveLatency(h), g, EffectiveLatency(g))

\* The first of the best servers in the order of the list.
SelectBestNode(nodes, health) ==
    nodes[CHOOSE i \in DOMAIN nodes : \A j \in DOMAIN nodes \ {i} :
            IF j < i THEN Better(health[nodes[i]], health[nodes[j]])
            ELSE ~Better(health[nodes[j]], health[nodes[i]])]

Settled(cur, policy) == policy.ceiling > 0 /\ cur.avg <= policy.ceiling

\* A reduction from lc to ld that is enough in itself and relative to lc.
Improves(lc, ld, policy) ==
    /\ ld > 0 /\ lc - ld >= policy.improvement
    /\ policy.relative > 0 => (lc - ld) * 100 >= policy.relative * lc

IsOptimizationCandidate(cur, cand, policy) ==
    /\ policy.optimise /\ cur.ok /\ cand.ok
    /\ ~Settled(cur, policy)
    /\ EffectiveLatency(cur) > 0
    /\ Improves(EffectiveLatency(cur), EffectiveLatency(cand), policy)

Emergency(cur, policy) == ~Known(cur) \/ ~cur.ok \/ cur.cf >= policy.threshold

ShouldSwitch(cur, cand, now, lastSwitch, policy, wins) ==
    /\ Known(cand) /\ cand.ok
    /\ \/ Emergency(cur, policy)
       \/ /\ policy.optimise /\ ~Settled(cur, policy)
          /\ now - lastSwitch >= policy.cooldown
          /\ policy.wins > 0 => wins >= policy.wins
          /\ Improves(EffectiveLatency(cur), EffectiveLatency(cand), policy)

\* Mutant: the remembered observations always win.
MergeProbeHealthCached(current, probed, failed) ==
    [n \in DOMAIN current |-> IF Known(probed[n]) THEN probed[n] ELSE current[n]]

\* Of two observations of a server the newer one counts; the one of the node that
\* has just failed always does.
MergeProbeHealth(current, probed, failed) ==
    [n \in DOMAIN current |->
        IF Known(current[n])
           /\ (n = failed \/ ~Known(probed[n]) \/ current[n].at > probed[n].at)
        THEN current[n] ELSE probed[n]]
===============================================================================
