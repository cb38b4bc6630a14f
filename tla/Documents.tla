------------------------------ MODULE Documents ------------------------------
(***************************************************************************)
(* The documents of the store: how settings.json and state.json are        *)
(* encoded when they are saved and decoded when they are loaded            *)
(* (store/migrations.go), with the migrations of older schemas.            *)
(*                                                                         *)
(* A document in memory is a record; a document on disk is a record whose  *)
(* fields may be Absent, which stands for a missing field and for a JSON   *)
(* null alike: the decoder sees both as a nil pointer.  One field stands   *)
(* for every field that is decoded in the same way, so plain is each of    *)
(* the intervals, URLs, thresholds and switches that are taken over when   *)
(* present and keep their default otherwise.  A selector list is a set.    *)
(* dns, the one list with a default that is not empty, keeps the           *)
(* difference between Go's nil slice and an empty one, because they are    *)
(* encoded differently: null and [].                                       *)
(***************************************************************************)
EXTENDS Naturals

CONSTANTS
    Selector,     \* domains, networks and service names of routing rules
    Cidr,         \* those of them that are networks
    Key,          \* well formed keys of hidden servers
    BadKey,       \* entries that do not have the form of a key
    Absent        \* no such field, or null

ASSUME CidrsAreSelectors == Cidr \subseteq Selector
ASSUME KeysDistinct == Key \cap BadKey = {}

\* Strings.  The words the decoders write are named because the provers do not know
\* that a word is a string.
Text == STRING \cup {"", "default", "balanced", "custom", "manual", "auto", "RU", "hosts",
                     "targets", "split", "disabled", "proxy", "direct", "zapret", "vpn",
                     "recovering", "none", "node", "nil", "empty", "own"}

ASSUME AbsentIsNoField ==
    /\ Absent \notin Nat /\ Absent \notin BOOLEAN /\ Absent \notin Text
    /\ \A list \in (SUBSET Selector) \cup (SUBSET (Key \cup BadKey)) : list # Absent

SettingsSchema == 12
StateSchema == 5
Newer(schema, supported) == schema # Absent /\ schema > supported

Or(field, default) == IF field = Absent THEN default ELSE field

-----------------------------------------------------------------------------
(* settings.json *)

\* A user may see a list of DNS names as three things.
DnsLists == {"nil", "empty", "default", "own"}

\* What Unmarshal accepts: a field of its type, or none.
Maybe(S) == {Absent} \cup S
Names == SUBSET Selector
RawCountries == [on : Maybe(BOOLEAN), code : Maybe(Text)]
RawFirewalls ==
    [enabled : Maybe(BOOLEAN), mode : Maybe(Text), hosts : Maybe(Names),
     targets : Maybe(Names), proxy : Maybe(Names), bypass : Maybe(Names),
     default : Maybe(Text), draft : Maybe(Names), quic : Maybe(BOOLEAN),
     oldHosts : Maybe(Names), oldTargets : Maybe(Names), oldMode : Maybe(Text),
     oldDraft : Maybe(Names)]
RawZaprets == [on : Maybe(BOOLEAN), sel : Maybe(Names), wins : Maybe(Nat)]
RawSettings ==
    [schema : Maybe(Nat), plain : Maybe(Text), cooldown : Maybe(Text),
     profile : Maybe(Text), policy : Maybe(Text), auto : Maybe(BOOLEAN),
     mode : Maybe(Text), hidden : Maybe(SUBSET (Key \cup BadKey)),
     country : Maybe(RawCountries), russia : Maybe(BOOLEAN),
     dns : Maybe(DnsLists \ {"nil"}), fw : Maybe(RawFirewalls), zapret : Maybe(RawZaprets)]

ASSUME AbsentIsNoSection ==
    Absent \notin RawCountries /\ Absent \notin RawFirewalls /\ Absent \notin RawZaprets

\* domain.Settings
Countries == [on : BOOLEAN, code : Text]
Firewalls ==
    [enabled : BOOLEAN, mode : {"hosts", "targets", "split", "disabled"}, hosts : Names,
     targets : Names, proxy : Names, bypass : Names, default : {"proxy", "direct"},
     draft : Names, quic : BOOLEAN]
Zaprets == [on : BOOLEAN, sel : Names, wins : Nat \ {0}]
Settings ==
    [plain : Text, cooldown : Text, profile : Text, policy : Text, auto : BOOLEAN,
     mode : Text, hidden : SUBSET Key, country : Countries, dns : DnsLists,
     fw : Firewalls, zapret : Zaprets]

DefaultFirewall ==
    [enabled |-> TRUE, mode |-> "split", hosts |-> {}, targets |-> {},
     proxy |-> {}, bypass |-> {}, default |-> "proxy", draft |-> {}, quic |-> FALSE]

DefaultSettings ==
    [plain |-> "default", cooldown |-> "default", profile |-> "balanced",
     policy |-> "default", auto |-> FALSE, mode |-> "manual", hidden |-> {},
     country |-> [on |-> FALSE, code |-> ""], dns |-> "default",
     fw |-> DefaultFirewall,
     zapret |-> [on |-> FALSE, sel |-> {}, wins |-> 3]]

NormalizeFirewallMode(m) == IF m \in {"hosts", "targets", "split"} THEN m ELSE "disabled"
NormalizeFirewallDefaultAction(a) == IF a = "proxy" THEN "proxy" ELSE "direct"

\* AutoMode without Mode is how the first versions stored automatic selection.
DecodeMode(r) ==
    CASE r.mode # Absent -> r.mode
      [] r.mode = Absent /\ r.auto = TRUE -> "auto"
      [] OTHER -> DefaultSettings.mode

\* An installation older than the profiles keeps its own tuning as a custom one.
DecodePolicy(r, cooldown) ==
    IF r.profile # Absent
    THEN [profile |-> r.profile, policy |-> Or(r.policy, DefaultSettings.policy)]
    ELSE [profile |-> "custom", policy |-> cooldown]

\* russia_direct is the switch of the one country older schemas knew.
DecodeCountry(r) ==
    CASE r.country # Absent ->
            [on |-> Or(r.country.on, FALSE), code |-> Or(r.country.code, "")]
      [] r.country = Absent /\ r.russia # Absent -> [on |-> r.russia, code |-> "RU"]
      [] OTHER -> DefaultSettings.country

\* CanonicalCountryRouting: no code and enabled, or an unknown code, is an error.
CountryError(c) == \/ c.code = "" /\ c.on
                   \/ c.code \notin {"", "RU", "DE"}
CanonicalCountryRouting(c) == IF c.code = "" THEN [on |-> FALSE, code |-> ""] ELSE c

\* The append to a nil slice turns an empty list into nil.
DecodeDns(d) == CASE d = Absent -> DefaultSettings.dns
                  [] d = "empty" -> "nil"
                  [] OTHER -> d

\* Mutant: the bypass list without the default that goes with it.
LegacyBypassDirect(f, now) ==
    IF now.hosts = {} /\ Or(f.oldTargets, {}) # {}
    THEN [now EXCEPT !.mode = "split", !.proxy = {}, !.bypass = f.oldTargets,
                     !.default = "direct"]
    ELSE [now EXCEPT !.mode = IF now.hosts # {} THEN "hosts" ELSE "disabled"]

\* The rules of a firewall section that has no mode: the layout before schema 7.
LegacyFirewall(f, now) ==
    CASE now.hosts # {} -> [now EXCEPT !.mode = "hosts"]
      [] now.hosts = {} /\ Or(f.oldTargets, {}) # {} /\ f.oldMode = "bypass" ->
            [now EXCEPT !.mode = "split", !.proxy = {}, !.bypass = f.oldTargets,
                        !.default = "proxy"]
      [] now.hosts = {} /\ Or(f.oldTargets, {}) # {} /\ f.oldMode # "bypass" ->
            [now EXCEPT !.mode = "targets", !.targets = f.oldTargets]
      [] OTHER -> [now EXCEPT !.mode = "disabled"]

\* block_quic had no effect before schema 7, so an older value is not taken over.
DecodeQuic(f, schema) ==
    IF f.quic # Absent /\ schema >= 7 THEN f.quic ELSE DefaultFirewall.quic

DecodeFirewall(f, schema) ==
    IF f = Absent THEN DefaultFirewall
    ELSE LET own == Or(f.hosts, {})
             hosts == IF f.mode = Absent THEN Or(f.oldHosts, own) ELSE own
             now == [enabled |-> Or(f.enabled, TRUE),
                     mode |-> NormalizeFirewallMode(Or(f.mode, "split")),
                     hosts |-> hosts, targets |-> Or(f.targets, {}),
                     proxy |-> Or(f.proxy, {}), bypass |-> Or(f.bypass, {}),
                     default |-> NormalizeFirewallDefaultAction(Or(f.default, "proxy")),
                     draft |-> Or(f.draft, Or(f.oldDraft, {})),
                     quic |-> DecodeQuic(f, schema)]
         IN IF f.mode = Absent THEN LegacyFirewall(f, now) ELSE now

\* Zapret works on names: networks are dropped whenever the settings are read.
DecodeZapret(z) ==
    IF z = Absent THEN DefaultSettings.zapret
    ELSE [on |-> Or(z.on, FALSE), sel |-> Or(z.sel, {}) \ Cidr,
          wins |-> IF Or(z.wins, 3) < 1 THEN 3 ELSE Or(z.wins, 3)]

NormalizeAutoExcludedNodes(ks) == ks \cap Key

\* A file of settings that Unmarshal accepts but decodeSettings does not.
SettingsRejected(r) == CountryError(DecodeCountry(r))

DecodeSettings(r) ==
    LET schema == Or(r.schema, 0)
        cooldown == Or(r.cooldown, "default")
        policy == DecodePolicy(r, cooldown)
    IN [plain |-> Or(r.plain, "default"), cooldown |-> cooldown,
        profile |-> policy.profile, policy |-> policy.policy,
        auto |-> Or(r.auto, FALSE), mode |-> DecodeMode(r),
        hidden |-> NormalizeAutoExcludedNodes(Or(r.hidden, {})),
        country |-> CanonicalCountryRouting(DecodeCountry(r)),
        dns |-> DecodeDns(r.dns), fw |-> DecodeFirewall(r.fw, schema),
        zapret |-> DecodeZapret(r.zapret)]

\* SaveSettings: the current schema, no legacy field, a nil list as null.
EncodeSettings(s) ==
    [schema |-> SettingsSchema, plain |-> s.plain, cooldown |-> s.cooldown,
     profile |-> s.profile, policy |-> s.policy, auto |-> s.auto, mode |-> s.mode,
     hidden |-> s.hidden, country |-> s.country, russia |-> Absent,
     dns |-> IF s.dns = "nil" THEN Absent ELSE s.dns,
     fw |-> [enabled |-> s.fw.enabled, mode |-> s.fw.mode, hosts |-> s.fw.hosts,
             targets |-> s.fw.targets, proxy |-> s.fw.proxy, bypass |-> s.fw.bypass,
             default |-> s.fw.default, draft |-> s.fw.draft, quic |-> s.fw.quic,
             oldHosts |-> Absent, oldTargets |-> Absent, oldMode |-> Absent,
             oldDraft |-> Absent],
     zapret |-> s.zapret]

\* The one thing a load and save does not keep: a list of DNS names that was
\* emptied comes back as the default list.
Forgets(s) == IF s.dns = "nil" THEN [s EXCEPT !.dns = "default"] ELSE s

-----------------------------------------------------------------------------
(* state.json *)

NoResume == "none"
RawStates ==
    [schema : Maybe(Nat), connected : Maybe(BOOLEAN), transport : Maybe(Text),
     op : Maybe(Text), resume : Maybe(Text), wins : Maybe(Nat)]
States ==
    [connected : BOOLEAN, transport : {"proxy", "zapret", "direct"},
     op : {"vpn", "recovering", "direct"}, resume : Text, wins : Nat]
DefaultState ==
    [connected |-> FALSE, transport |-> "direct", op |-> "direct",
     resume |-> NoResume, wins |-> 0]

NormalizeTransportMode(t) == IF t \in {"proxy", "zapret"} THEN t ELSE "direct"
NormalizeOperationalMode(m) == IF m \in {"vpn", "recovering"} THEN m ELSE "direct"
LegacyOperationalMode(connected, transport) ==
    IF connected /\ NormalizeTransportMode(transport) = "proxy" THEN "vpn" ELSE "direct"

\* A document without a transport or a mode is an old one.
DecodeTransport(r) ==
    IF r.transport # Absent THEN NormalizeTransportMode(r.transport)
    ELSE IF Or(r.connected, FALSE) THEN "proxy" ELSE "direct"
DecodeOperationalMode(r) ==
    IF r.op # Absent THEN NormalizeOperationalMode(r.op)
    ELSE LegacyOperationalMode(Or(r.connected, FALSE), DecodeTransport(r))

\* rawState has no resume_connection and no optimization_candidate_*: what is
\* saved under these names is not read back.
DecodeState(r) ==
    [connected |-> Or(r.connected, FALSE), transport |-> DecodeTransport(r), op |-> DecodeOperationalMode(r),
     resume |-> NoResume, wins |-> 0]

EncodeState(s) ==
    [schema |-> StateSchema, connected |-> s.connected, transport |-> s.transport,
     op |-> s.op, resume |-> s.resume, wins |-> s.wins]
==============================================================================
