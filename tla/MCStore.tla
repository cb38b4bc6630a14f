------------------------------- MODULE MCStore -------------------------------
EXTENDS Store, TLC

CONSTANTS s, c, daemon, cli, d1, d2, c1

MCProcessOf == d1 :> daemon @@ d2 :> daemon @@ c1 :> cli

\* A document of schema n with nothing in it.
Bare(n) ==
    [schema |-> n, plain |-> Absent, cooldown |-> Absent, profile |-> Absent,
     policy |-> Absent, auto |-> Absent, mode |-> Absent, hidden |-> Absent,
     country |-> Absent, russia |-> Absent, dns |-> Absent, fw |-> Absent, zapret |-> Absent]
NoFirewall ==
    [enabled |-> Absent, mode |-> Absent, hosts |-> Absent, targets |-> Absent,
     proxy |-> Absent, bypass |-> Absent, default |-> Absent, draft |-> Absent,
     quic |-> Absent, oldHosts |-> Absent, oldTargets |-> Absent, oldMode |-> Absent,
     oldDraft |-> Absent]

\* The firewall sections of schema 6, the other fields that were migrated, a file of a
\* newer version and one with a country code that does not exist.
Firewall6(h, t, m) ==
    [NoFirewall EXCEPT !.oldHosts = h, !.oldTargets = t, !.oldMode = m, !.quic = TRUE,
                       !.oldDraft = {s}]
MCOldSettings ==
    {[Bare(6) EXCEPT !.fw = Firewall6({s}, {s}, Absent)],
     [Bare(6) EXCEPT !.fw = Firewall6(Absent, {s}, Absent)],
     [Bare(6) EXCEPT !.fw = Firewall6(Absent, {s}, "bypass"), !.auto = TRUE,
                     !.cooldown = "own", !.russia = TRUE],
     [Bare(11) EXCEPT !.profile = "custom", !.policy = "own", !.hidden = Key \cup BadKey,
                      !.zapret = [on |-> TRUE, sel |-> {s, c}, wins |-> 0],
                      !.fw = [NoFirewall EXCEPT !.mode = "odd", !.quic = TRUE]],
     Bare(13), [Bare(11) EXCEPT !.country = [on |-> TRUE, code |-> "??"]]}

BareState(n) == [schema |-> n, connected |-> Absent, transport |-> Absent, op |-> Absent,
                 resume |-> Absent, wins |-> Absent]
MCOldStates == {[BareState(2) EXCEPT !.connected = TRUE], BareState(6)}
==============================================================================
