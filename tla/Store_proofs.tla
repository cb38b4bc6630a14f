------------------------------ MODULE Store_proofs ------------------------------
(***************************************************************************)
(* The store implements one value per document, for every set of processes *)
(* and threads and every old file it may find.  First what a document is   *)
(* after it was written and read again; then the two locks: of all threads *)
(* of all processes at most one is between the record lock and its end, so *)
(* the copy it edits is the value the file still has when it is replaced.  *)
(***************************************************************************)
EXTENDS Store, TLAPS

(* Documents *)

\* Settings as a load returns them: the DNS list is not the empty slice, Zapret has
\* no networks, the country is canonical.
SettledSettings ==
    {v \in Settings : /\ v.dns # "empty"
                      /\ v.zapret.sel \cap Cidr = {}
                      /\ ~CountryError(v.country)
                      /\ CanonicalCountryRouting(v.country) = v.country}

\* Settings that decode again once they are saved.
Storable(v) == v \in Settings /\ ~CountryError(v.country) /\ CanonicalCountryRouting(v.country) = v.country

\* What is left of settings after a save and a load.
Returned(v) == [v EXCEPT !.dns = IF v.dns = "nil" THEN "default"
                                 ELSE IF v.dns = "empty" THEN "nil" ELSE v.dns,
                         !.zapret = [v.zapret EXCEPT !.sel = v.zapret.sel \ Cidr]]

\* The words of the decoders are strings.
LEMMA Words ==
    {"", "default", "balanced", "custom", "manual", "auto", "RU", "hosts", "targets", "split",
     "disabled", "proxy", "direct", "zapret", "vpn", "recovering", "none", "node",
     "nil", "empty", "own"} \subseteq Text
BY DEF Text

\* Absent is none of the values of a field.
LEMMA Fields ==
    /\ \A n \in Nat : n # Absent
    /\ \A b \in BOOLEAN : b # Absent
    /\ \A x \in Text : x # Absent
    /\ \A n \in Names : n # Absent
    /\ \A k \in SUBSET (Key \cup BadKey) : k # Absent
    /\ \A c \in RawCountries : c # Absent
    /\ \A f \in RawFirewalls : f # Absent
    /\ \A z \in RawZaprets : z # Absent
<1>1. \A b \in BOOLEAN : b # Absent
  BY AbsentIsNoField, Zenon
<1>2. /\ \A n \in Names : n # Absent
      /\ \A k \in SUBSET (Key \cup BadKey) : k # Absent
  BY AbsentIsNoField DEF Names
<1>3. /\ \A n \in Nat : n # Absent
      /\ \A x \in Text : x # Absent
  BY AbsentIsNoField
<1> QED
  BY <1>1, <1>2, <1>3, AbsentIsNoSection

\* A field that may be missing is decoded to a value of its type.
LEMMA OrType == ASSUME NEW S, NEW x \in Maybe(S), NEW y \in S PROVE Or(x, y) \in S
BY DEF Maybe, Or

LEMMA OrBoolean == ASSUME NEW x \in Maybe(BOOLEAN), NEW y \in BOOLEAN PROVE Or(x, y) \in BOOLEAN
BY DEF Maybe, Or

\* A field that is there is decoded to itself.
LEMMA OrPresent == ASSUME NEW x, NEW y, x # Absent PROVE Or(x, y) = x
BY DEF Or

\* The fields of a firewall section that every layout shares.
LEMMA NowType ==
    ASSUME NEW f \in RawFirewalls, NEW schema \in Nat, NEW hosts \in Names
    PROVE  [enabled |-> Or(f.enabled, TRUE),
            mode |-> NormalizeFirewallMode(Or(f.mode, "split")),
            hosts |-> hosts, targets |-> Or(f.targets, {}),
            proxy |-> Or(f.proxy, {}), bypass |-> Or(f.bypass, {}),
            default |-> NormalizeFirewallDefaultAction(Or(f.default, "proxy")),
            draft |-> Or(f.draft, Or(f.oldDraft, {})),
            quic |-> DecodeQuic(f, schema)] \in Firewalls
<1>1. {} \in Names /\ TRUE \in BOOLEAN /\ FALSE \in BOOLEAN
  BY DEF Names
<1>2. /\ f.targets \in Maybe(Names) /\ f.proxy \in Maybe(Names) /\ f.bypass \in Maybe(Names)
      /\ f.draft \in Maybe(Names) /\ f.oldDraft \in Maybe(Names)
      /\ f.enabled \in Maybe(BOOLEAN) /\ f.quic \in Maybe(BOOLEAN)
  BY DEF RawFirewalls
<1>3. /\ Or(f.targets, {}) \in Names /\ Or(f.proxy, {}) \in Names /\ Or(f.bypass, {}) \in Names
      /\ Or(f.draft, Or(f.oldDraft, {})) \in Names
  BY <1>1, <1>2, OrType
<1>4. Or(f.enabled, TRUE) \in BOOLEAN
  BY <1>2, OrBoolean
<1>5. DecodeQuic(f, schema) \in BOOLEAN
  BY <1>2 DEF DecodeQuic, Maybe, DefaultFirewall
<1>6. /\ \A m : NormalizeFirewallMode(m) \in {"hosts", "targets", "split", "disabled"}
      /\ \A a : NormalizeFirewallDefaultAction(a) \in {"proxy", "direct"}
  BY DEF NormalizeFirewallMode, NormalizeFirewallDefaultAction
<1> QED
  BY <1>3, <1>4, <1>5, <1>6 DEF Firewalls

\* The firewall section is decoded to a firewall section of the current layout,
\* whichever layout it had.
LEMMA FirewallType ==
    ASSUME NEW f \in Maybe(RawFirewalls), NEW schema \in Nat
    PROVE  DecodeFirewall(f, schema) \in Firewalls
<1>1. {} \in Names /\ TRUE \in BOOLEAN /\ FALSE \in BOOLEAN
  BY DEF Names
<1>2. CASE f = Absent
  BY <1>1, <1>2 DEF DecodeFirewall, DefaultFirewall, Firewalls
<1>3. CASE f # Absent
  <2> DEFINE own == Or(f.hosts, {})
             hosts == IF f.mode = Absent THEN Or(f.oldHosts, own) ELSE own
             now == [enabled |-> Or(f.enabled, TRUE),
                     mode |-> NormalizeFirewallMode(Or(f.mode, "split")),
                     hosts |-> hosts, targets |-> Or(f.targets, {}),
                     proxy |-> Or(f.proxy, {}), bypass |-> Or(f.bypass, {}),
                     default |-> NormalizeFirewallDefaultAction(Or(f.default, "proxy")),
                     draft |-> Or(f.draft, Or(f.oldDraft, {})),
                     quic |-> DecodeQuic(f, schema)]
  <2>0. /\ f \in RawFirewalls
        /\ DecodeFirewall(f, schema) = IF f.mode = Absent THEN LegacyFirewall(f, now) ELSE now
    BY <1>3 DEF DecodeFirewall, Maybe
  <2>1. f.hosts \in Maybe(Names) /\ f.oldHosts \in Maybe(Names) /\ f.oldTargets \in Maybe(Names)
    BY <2>0 DEF RawFirewalls
  <2>2. own \in Names /\ hosts \in Names
    BY <2>1, <1>1, OrType
  <2>3. now \in Firewalls
    BY <2>0, <2>2, NowType
  <2>4. Or(f.oldTargets, {}) # {} => f.oldTargets \in Names
    BY <2>1 DEF Or, Maybe
  <2> HIDE DEF now
  <2>5. LegacyFirewall(f, now) \in Firewalls
    BY <1>1, <2>3, <2>4 DEF LegacyFirewall, Firewalls
  <2> QED
    BY <2>0, <2>3, <2>5
<1> QED
  BY <1>2, <1>3

\* The country is decoded to a country, and a canonical one has no error.
LEMMA CountryType ==
    ASSUME NEW r \in RawSettings
    PROVE  /\ DecodeCountry(r) \in Countries
           /\ ~SettingsRejected(r) =>
                LET c == CanonicalCountryRouting(DecodeCountry(r)) IN
                c \in Countries /\ ~CountryError(c) /\ CanonicalCountryRouting(c) = c
<1>1. /\ r.country \in Maybe(RawCountries) /\ r.russia \in Maybe(BOOLEAN)
  BY DEF RawSettings
<1>2. DecodeCountry(r) \in Countries
  BY <1>1, Words DEF DecodeCountry, Countries, RawCountries, Maybe, Or, DefaultSettings
<1>3. ASSUME NEW c \in Countries, ~CountryError(c)
      PROVE  LET k == CanonicalCountryRouting(c) IN
             k \in Countries /\ ~CountryError(k) /\ CanonicalCountryRouting(k) = k
  BY <1>3 DEF CanonicalCountryRouting, CountryError, Countries
<1> QED
  BY <1>2, <1>3 DEF SettingsRejected

\* Two settings, or two states, with the same fields are the same.
LEMMA SettingsEqual ==
    ASSUME NEW u \in Settings, NEW w \in Settings,
           u.plain = w.plain, u.cooldown = w.cooldown, u.profile = w.profile,
           u.policy = w.policy, u.auto = w.auto, u.mode = w.mode, u.hidden = w.hidden,
           u.country = w.country, u.dns = w.dns, u.fw = w.fw, u.zapret = w.zapret
    PROVE  u = w
BY DEF Settings

LEMMA StatesEqual ==
    ASSUME NEW u \in States, NEW w \in States,
           u.connected = w.connected, u.transport = w.transport, u.op = w.op,
           u.resume = w.resume, u.wins = w.wins
    PROVE  u = w
BY DEF States

\* Whatever file of settings is accepted, the settings of a load are settled.
LEMMA DecodeSettingsType ==
    ASSUME NEW r \in RawSettings, ~SettingsRejected(r)
    PROVE  DecodeSettings(r) \in SettledSettings
<1> DEFINE schema == Or(r.schema, 0)
           cooldown == Or(r.cooldown, "default")
           policy == DecodePolicy(r, cooldown)
           country == CanonicalCountryRouting(DecodeCountry(r))
<1>0. /\ r.schema \in Maybe(Nat) /\ r.plain \in Maybe(Text) /\ r.cooldown \in Maybe(Text)
      /\ r.profile \in Maybe(Text) /\ r.policy \in Maybe(Text) /\ r.auto \in Maybe(BOOLEAN)
      /\ r.mode \in Maybe(Text) /\ r.hidden \in Maybe(SUBSET (Key \cup BadKey))
      /\ r.dns \in Maybe(DnsLists \ {"nil"}) /\ r.fw \in Maybe(RawFirewalls)
      /\ r.zapret \in Maybe(RawZaprets)
  BY DEF RawSettings
<1>1. schema \in Nat /\ cooldown \in Text /\ Or(r.plain, "default") \in Text
  BY <1>0, Words DEF Or, Maybe
<1>2. policy.profile \in Text /\ policy.policy \in Text
  <2> DefaultSettings.policy = "default"
    BY DEF DefaultSettings
  <2> HIDE DEF cooldown
  <2> QED
    BY <1>0, <1>1, Words DEF DecodePolicy, Or, Maybe
<1>3. Or(r.auto, FALSE) \in BOOLEAN
  BY <1>0, OrBoolean
<1>4. DecodeMode(r) \in Text
  BY <1>0, Words DEF DecodeMode, Maybe, DefaultSettings
<1>5. NormalizeAutoExcludedNodes(Or(r.hidden, {})) \in SUBSET Key
  BY DEF NormalizeAutoExcludedNodes
<1>6. country \in Countries /\ ~CountryError(country) /\ CanonicalCountryRouting(country) = country
  BY CountryType
<1>7. DecodeDns(r.dns) \in DnsLists /\ DecodeDns(r.dns) # "empty"
  BY <1>0 DEF DecodeDns, DnsLists, Maybe, DefaultSettings
<1>8. DecodeFirewall(r.fw, schema) \in Firewalls
  BY <1>0, <1>1, FirewallType
<1>9. DecodeZapret(r.zapret) \in Zaprets /\ DecodeZapret(r.zapret).sel \cap Cidr = {}
  <2>1. CASE r.zapret = Absent
    BY <2>1 DEF DecodeZapret, DefaultSettings, Zaprets, Names
  <2>2. CASE r.zapret # Absent
    <3>1. r.zapret \in RawZaprets
      BY <1>0, <2>2 DEF Maybe
    <3>2. /\ r.zapret.on \in Maybe(BOOLEAN) /\ r.zapret.sel \in Maybe(Names)
          /\ r.zapret.wins \in Maybe(Nat)
      BY <3>1 DEF RawZaprets
    <3>3. Or(r.zapret.on, FALSE) \in BOOLEAN
      BY <3>2, OrBoolean, Zenon
    <3>4. /\ Or(r.zapret.sel, {}) \in Names /\ Or(r.zapret.wins, 3) \in Nat
      BY <3>2 DEF Or, Maybe, Names
    <3>5. \A n \in Nat : (IF n < 1 THEN 3 ELSE n) \in Nat \ {0}
      OBVIOUS
    <3>6. \A x \in Names : x \ Cidr \in Names /\ (x \ Cidr) \cap Cidr = {}
      BY DEF Names
    <3> QED
      BY <2>2, <3>3, <3>4, <3>5, <3>6 DEF DecodeZapret, Zaprets
  <2> QED
    BY <2>1, <2>2
<1> DEFINE v == DecodeSettings(r)
<1>10. v = [plain |-> Or(r.plain, "default"), cooldown |-> cooldown,
            profile |-> policy.profile, policy |-> policy.policy,
            auto |-> Or(r.auto, FALSE), mode |-> DecodeMode(r),
            hidden |-> NormalizeAutoExcludedNodes(Or(r.hidden, {})),
            country |-> country, dns |-> DecodeDns(r.dns),
            fw |-> DecodeFirewall(r.fw, schema), zapret |-> DecodeZapret(r.zapret)]
  BY DEF DecodeSettings
<1> HIDE DEF v, schema, cooldown, policy, country
<1>11. v \in Settings
  BY <1>1, <1>2, <1>3, <1>4, <1>5, <1>6, <1>7, <1>8, <1>9, <1>10 DEF Settings
<1>12. v.dns # "empty" /\ v.zapret.sel \cap Cidr = {} /\ v.country = country
  BY <1>7, <1>9, <1>10
<1> QED
  BY <1>6, <1>11, <1>12 DEF SettledSettings, v

\* The default settings are settled, too.
LEMMA DefaultSettingsType == DefaultSettings \in SettledSettings
<1>1. DefaultSettings.fw \in Firewalls
  BY DEF DefaultSettings, DefaultFirewall, Firewalls, Names
<1>2. DefaultSettings.zapret \in Zaprets /\ DefaultSettings.zapret.sel \cap Cidr = {}
  BY DEF DefaultSettings, Zaprets, Names
<1>3. /\ DefaultSettings.country \in Countries
      /\ ~CountryError(DefaultSettings.country)
      /\ CanonicalCountryRouting(DefaultSettings.country) = DefaultSettings.country
  BY Words DEF DefaultSettings, Countries, CountryError, CanonicalCountryRouting
<1>4. DefaultSettings \in Settings
  BY <1>1, <1>2, <1>3, Words DEF DefaultSettings, Settings, DnsLists
<1>5. DefaultSettings.dns # "empty"
  BY DEF DefaultSettings
<1> QED
  BY <1>2, <1>3, <1>4, <1>5 DEF SettledSettings

\* A saved firewall section is read back as it was.
LEMMA FirewallRoundTrip ==
    ASSUME NEW v \in Settings
    PROVE  /\ EncodeSettings(v).fw \in RawFirewalls
           /\ DecodeFirewall(EncodeSettings(v).fw, SettingsSchema) = v.fw
<1> DEFINE w == v.fw
           f == [enabled |-> w.enabled, mode |-> w.mode, hosts |-> w.hosts,
                 targets |-> w.targets, proxy |-> w.proxy, bypass |-> w.bypass,
                 default |-> w.default, draft |-> w.draft, quic |-> w.quic,
                 oldHosts |-> Absent, oldTargets |-> Absent, oldMode |-> Absent,
                 oldDraft |-> Absent]
<1>1. EncodeSettings(v).fw = f
  BY DEF EncodeSettings
<1>2. w \in Firewalls
  BY DEF Settings
<1> HIDE DEF w
<1>3. /\ w.enabled \in BOOLEAN /\ w.quic \in BOOLEAN
      /\ w.mode \in {"hosts", "targets", "split", "disabled"} /\ w.default \in {"proxy", "direct"}
      /\ w.hosts \in Names /\ w.targets \in Names /\ w.proxy \in Names
      /\ w.bypass \in Names /\ w.draft \in Names
  BY <1>2 DEF Firewalls
<1>4. w = [enabled |-> w.enabled, mode |-> w.mode, hosts |-> w.hosts,
           targets |-> w.targets, proxy |-> w.proxy, bypass |-> w.bypass,
           default |-> w.default, draft |-> w.draft, quic |-> w.quic]
  BY <1>2 DEF Firewalls
<1>5. f \in RawFirewalls
  BY <1>3, Words DEF RawFirewalls, Maybe
<1>6. /\ f # Absent /\ w.mode # Absent /\ w.enabled # Absent /\ w.quic # Absent
      /\ w.hosts # Absent /\ w.targets # Absent /\ w.proxy # Absent /\ w.bypass # Absent
      /\ w.draft # Absent /\ w.default # Absent
  <2>1. f # Absent
    BY <1>5, Fields
  <2>2. w.mode # Absent /\ w.default # Absent
    BY <1>3, Fields, Words
  <2>3. w.enabled # Absent /\ w.quic # Absent
    BY <1>3, Fields, Zenon
  <2>4. /\ w.hosts # Absent /\ w.targets # Absent /\ w.proxy # Absent /\ w.bypass # Absent
        /\ w.draft # Absent
    BY <1>3, Fields, Zenon
  <2> QED
    BY <2>1, <2>2, <2>3, <2>4
<1>7. /\ f.enabled = w.enabled /\ f.mode = w.mode /\ f.hosts = w.hosts /\ f.targets = w.targets
      /\ f.proxy = w.proxy /\ f.bypass = w.bypass /\ f.default = w.default
      /\ f.draft = w.draft /\ f.quic = w.quic
  OBVIOUS
<1> HIDE DEF f
<1>8. NormalizeFirewallMode(w.mode) = w.mode /\ NormalizeFirewallDefaultAction(w.default) = w.default
  BY <1>3 DEF NormalizeFirewallMode, NormalizeFirewallDefaultAction
<1>9. DecodeQuic(f, SettingsSchema) = w.quic
  BY <1>6, <1>7 DEF DecodeQuic, SettingsSchema
<1>10. DecodeFirewall(f, SettingsSchema) =
         [enabled |-> w.enabled, mode |-> w.mode, hosts |-> w.hosts,
          targets |-> w.targets, proxy |-> w.proxy, bypass |-> w.bypass,
          default |-> w.default, draft |-> w.draft, quic |-> w.quic]
  BY <1>6, <1>7, <1>8, <1>9, OrPresent DEF DecodeFirewall
<1> QED
  BY <1>1, <1>4, <1>5, <1>10 DEF w

\* Settings that were saved are read back, less what the decoder changes.
LEMMA SettingsRoundTrip ==
    ASSUME NEW v, Storable(v)
    PROVE  /\ EncodeSettings(v) \in RawSettings
           /\ ~SettingsRejected(EncodeSettings(v))
           /\ DecodeSettings(EncodeSettings(v)) = Returned(v)
<1> DEFINE r == EncodeSettings(v)
<1>0. v \in Settings /\ ~CountryError(v.country) /\ CanonicalCountryRouting(v.country) = v.country
  BY DEF Storable
<1>1. /\ v.plain \in Text /\ v.cooldown \in Text /\ v.profile \in Text /\ v.policy \in Text
      /\ v.auto \in BOOLEAN /\ v.mode \in Text /\ v.hidden \in SUBSET Key
      /\ v.country \in Countries /\ v.dns \in DnsLists /\ v.fw \in Firewalls
      /\ v.zapret \in Zaprets
  BY <1>0 DEF Settings
<1>2. /\ r.schema = SettingsSchema /\ r.plain = v.plain /\ r.cooldown = v.cooldown
      /\ r.profile = v.profile /\ r.policy = v.policy /\ r.auto = v.auto /\ r.mode = v.mode
      /\ r.hidden = v.hidden /\ r.country = v.country /\ r.russia = Absent
      /\ r.dns = (IF v.dns = "nil" THEN Absent ELSE v.dns) /\ r.zapret = v.zapret
  BY DEF EncodeSettings
<1>3. r.fw \in RawFirewalls /\ DecodeFirewall(r.fw, SettingsSchema) = v.fw
  BY <1>0, FirewallRoundTrip
<1>4. v.country \in RawCountries /\ v.country = [on |-> v.country.on, code |-> v.country.code]
      /\ v.country.on \in BOOLEAN /\ v.country.code \in Text
  BY <1>1 DEF Countries, RawCountries, Maybe
<1>5. v.zapret \in RawZaprets
      /\ v.zapret = [on |-> v.zapret.on, sel |-> v.zapret.sel, wins |-> v.zapret.wins]
      /\ v.zapret.on \in BOOLEAN /\ v.zapret.sel \in Names
      /\ v.zapret.wins \in Nat /\ v.zapret.wins # 0
  BY <1>1 DEF Zaprets, RawZaprets, Maybe
<1>6. v.hidden \in SUBSET (Key \cup BadKey)
  BY <1>1
<1>7. r.dns \in Maybe(DnsLists \ {"nil"})
  BY <1>1, <1>2 DEF Maybe
<1>8. r \in RawSettings
  <2>1. r = [schema |-> r.schema, plain |-> r.plain, cooldown |-> r.cooldown,
             profile |-> r.profile, policy |-> r.policy, auto |-> r.auto, mode |-> r.mode,
             hidden |-> r.hidden, country |-> r.country, russia |-> r.russia,
             dns |-> r.dns, fw |-> r.fw, zapret |-> r.zapret]
    BY DEF EncodeSettings
  <2>2. /\ r.schema \in Maybe(Nat) /\ r.plain \in Maybe(Text) /\ r.cooldown \in Maybe(Text)
        /\ r.profile \in Maybe(Text) /\ r.policy \in Maybe(Text) /\ r.auto \in Maybe(BOOLEAN)
        /\ r.mode \in Maybe(Text) /\ r.hidden \in Maybe(SUBSET (Key \cup BadKey))
        /\ r.country \in Maybe(RawCountries) /\ r.russia \in Maybe(BOOLEAN)
        /\ r.fw \in Maybe(RawFirewalls) /\ r.zapret \in Maybe(RawZaprets)
    BY <1>1, <1>2, <1>3, <1>4, <1>5, <1>6 DEF Maybe, SettingsSchema
  <2> HIDE DEF r
  <2> QED
    BY <1>7, <2>1, <2>2 DEF RawSettings
<1>9. /\ r.plain # Absent /\ r.cooldown # Absent /\ r.profile # Absent /\ r.policy # Absent
      /\ r.mode # Absent /\ r.schema # Absent
  BY <1>1, <1>2, Fields DEF SettingsSchema
<1>10. r.auto # Absent /\ v.country.on # Absent /\ v.zapret.on # Absent
  BY <1>1, <1>2, <1>4, <1>5, Fields, Zenon
<1>11. /\ r.hidden # Absent /\ v.zapret.sel # Absent /\ v.country # Absent /\ v.zapret # Absent
       /\ r.fw # Absent /\ v.country.code # Absent /\ v.zapret.wins # Absent
  BY <1>2, <1>3, <1>4, <1>5, <1>6, Fields
<1> HIDE DEF r
<1>12. DecodeCountry(r) = v.country
  <2>1. Or(v.country.on, FALSE) = v.country.on /\ Or(v.country.code, "") = v.country.code
    BY <1>10, <1>11, OrPresent
  <2>2. DecodeCountry(r) = [on |-> Or(v.country.on, FALSE), code |-> Or(v.country.code, "")]
    BY <1>2, <1>11 DEF DecodeCountry
  <2> QED
    BY <1>4, <2>1, <2>2
<1>13. ~SettingsRejected(r)
  BY <1>0, <1>12 DEF SettingsRejected
<1>14. DecodeZapret(v.zapret) = [v.zapret EXCEPT !.sel = v.zapret.sel \ Cidr]
  <2>1. /\ Or(v.zapret.on, FALSE) = v.zapret.on /\ Or(v.zapret.sel, {}) = v.zapret.sel
        /\ Or(v.zapret.wins, 3) = v.zapret.wins
    BY <1>10, <1>11, OrPresent
  <2>2. ~(v.zapret.wins < 1)
    BY <1>5
  <2>3. DecodeZapret(v.zapret) = [on |-> v.zapret.on, sel |-> v.zapret.sel \ Cidr,
                                  wins |-> v.zapret.wins]
    BY <1>11, <2>1, <2>2 DEF DecodeZapret
  <2>4. [v.zapret EXCEPT !.sel = v.zapret.sel \ Cidr] =
          [on |-> v.zapret.on, sel |-> v.zapret.sel \ Cidr, wins |-> v.zapret.wins]
    BY <1>1 DEF Zaprets
  <2> QED
    BY <2>3, <2>4
<1>15. DecodePolicy(r, v.cooldown) = [profile |-> v.profile, policy |-> v.policy]
  BY <1>2, <1>9, OrPresent DEF DecodePolicy
<1>16. NormalizeAutoExcludedNodes(v.hidden) = v.hidden
  BY <1>1 DEF NormalizeAutoExcludedNodes
<1>17. DecodeDns(r.dns) = IF v.dns = "nil" THEN "default"
                          ELSE IF v.dns = "empty" THEN "nil" ELSE v.dns
  <2>1. v.dns # Absent /\ "empty" # Absent /\ DefaultSettings.dns = "default"
    BY <1>1, Fields, Words DEF DnsLists, DefaultSettings
  <2>2. CASE v.dns = "nil"
    BY <1>2, <2>1, <2>2 DEF DecodeDns
  <2>3. CASE v.dns = "empty"
    BY <1>2, <2>1, <2>3 DEF DecodeDns
  <2>4. CASE v.dns \notin {"nil", "empty"}
    BY <1>2, <2>1, <2>4 DEF DecodeDns
  <2> QED
    BY <2>2, <2>3, <2>4
<1>18. DecodeMode(r) = v.mode
  BY <1>2, <1>9 DEF DecodeMode
<1>19. /\ Or(r.schema, 0) = SettingsSchema /\ Or(r.plain, "default") = v.plain
       /\ Or(r.cooldown, "default") = v.cooldown /\ Or(r.auto, FALSE) = v.auto
       /\ Or(r.hidden, {}) = v.hidden
  BY <1>2, <1>9, <1>10, <1>11, OrPresent
<1>20. /\ DecodeSettings(r) \in Settings
       /\ DecodeSettings(r).plain = v.plain /\ DecodeSettings(r).cooldown = v.cooldown
       /\ DecodeSettings(r).profile = v.profile /\ DecodeSettings(r).policy = v.policy
       /\ DecodeSettings(r).auto = v.auto /\ DecodeSettings(r).mode = v.mode
       /\ DecodeSettings(r).hidden = v.hidden /\ DecodeSettings(r).country = v.country
       /\ DecodeSettings(r).dns = DecodeDns(r.dns) /\ DecodeSettings(r).fw = v.fw
       /\ DecodeSettings(r).zapret = DecodeZapret(v.zapret)
  <2>1. DecodeSettings(r) \in Settings
    BY <1>8, <1>13, DecodeSettingsType DEF SettledSettings
  <2>2. /\ DecodePolicy(r, v.cooldown).profile = v.profile
        /\ DecodePolicy(r, v.cooldown).policy = v.policy
    BY <1>15
  <2>3. CanonicalCountryRouting(DecodeCountry(r)) = v.country
    BY <1>0, <1>12
  <2> QED
    BY <1>2, <1>3, <1>16, <1>18, <1>19, <2>1, <2>2, <2>3 DEF DecodeSettings
<1>21. /\ Returned(v) \in Settings
       /\ Returned(v).plain = v.plain /\ Returned(v).cooldown = v.cooldown
       /\ Returned(v).profile = v.profile /\ Returned(v).policy = v.policy
       /\ Returned(v).auto = v.auto /\ Returned(v).mode = v.mode
       /\ Returned(v).hidden = v.hidden /\ Returned(v).country = v.country
       /\ Returned(v).dns = DecodeDns(r.dns) /\ Returned(v).fw = v.fw
       /\ Returned(v).zapret = DecodeZapret(v.zapret)
  <2>1. DecodeDns(r.dns) \in DnsLists
    BY <1>1, <1>17 DEF DnsLists
  <2>2. DecodeZapret(v.zapret) \in Zaprets
    BY <1>1, <1>14 DEF Zaprets, Names
  <2>3. Returned(v) = [v EXCEPT !.dns = DecodeDns(r.dns), !.zapret = DecodeZapret(v.zapret)]
    BY <1>14, <1>17 DEF Returned
  <2> QED
    BY <1>0, <2>1, <2>2, <2>3 DEF Settings
<1>22. DecodeSettings(r) = Returned(v)
  BY <1>20, <1>21, SettingsEqual
<1> QED
  BY <1>8, <1>13, <1>22 DEF r

\* Whatever state file is found, the state of a load is one; what is saved decodes
\* again, less the resume point and the optimisation candidate.
LEMMA DecodeStateType ==
    ASSUME NEW r \in RawStates
    PROVE  DecodeState(r) \in States /\ DecodeState(r).resume = NoResume /\ DecodeState(r).wins = 0
<1>1. r.connected \in Maybe(BOOLEAN)
  BY DEF RawStates
<1>2. Or(r.connected, FALSE) \in BOOLEAN
  BY <1>1, OrBoolean
<1>3. DecodeTransport(r) \in {"proxy", "zapret", "direct"}
  BY DEF DecodeTransport, NormalizeTransportMode
<1>4. DecodeOperationalMode(r) \in {"vpn", "recovering", "direct"}
  BY DEF DecodeOperationalMode, NormalizeOperationalMode, LegacyOperationalMode
<1> QED
  BY <1>2, <1>3, <1>4, Words DEF DecodeState, States, NoResume

LEMMA StateRoundTrip ==
    ASSUME NEW v \in States
    PROVE  /\ EncodeState(v) \in RawStates
           /\ DecodeState(EncodeState(v)) = [v EXCEPT !.resume = NoResume, !.wins = 0]
<1> DEFINE r == EncodeState(v)
           w == [v EXCEPT !.resume = NoResume, !.wins = 0]
<1>1. /\ v.connected \in BOOLEAN /\ v.transport \in {"proxy", "zapret", "direct"}
      /\ v.op \in {"vpn", "recovering", "direct"} /\ v.resume \in Text /\ v.wins \in Nat
  BY DEF States
<1>2. r \in RawStates
  BY <1>1, Words DEF EncodeState, RawStates, Maybe, StateSchema
<1>3. r.connected = v.connected /\ r.transport = v.transport /\ r.op = v.op
  BY DEF EncodeState
<1>4. v.connected # Absent
  BY <1>1, Fields, Zenon
<1>5. v.transport # Absent /\ v.op # Absent
  BY <1>1, Fields, Words
<1> HIDE DEF r
<1>6. DecodeTransport(r) = v.transport /\ DecodeOperationalMode(r) = v.op
  BY <1>1, <1>3, <1>5 DEF DecodeTransport, DecodeOperationalMode, NormalizeTransportMode,
                          NormalizeOperationalMode
<1>7. Or(r.connected, FALSE) = v.connected
  BY <1>3, <1>4, OrPresent
<1>8. /\ w \in States /\ w.connected = v.connected /\ w.transport = v.transport
      /\ w.op = v.op /\ w.resume = NoResume /\ w.wins = 0
  BY Words DEF States, NoResume
<1>9. /\ DecodeState(r) \in States /\ DecodeState(r).connected = v.connected
      /\ DecodeState(r).transport = v.transport /\ DecodeState(r).op = v.op
      /\ DecodeState(r).resume = NoResume /\ DecodeState(r).wins = 0
  BY <1>2, <1>6, <1>7, DecodeStateType DEF DecodeState
<1>10. DecodeState(r) = w
  BY <1>8, <1>9, StatesEqual, ZenonT(60)
<1> QED
  BY <1>2, <1>10 DEF r

LEMMA DefaultStateType ==
    DefaultState \in States /\ DefaultState.resume = NoResume /\ DefaultState.wins = 0
BY Words DEF DefaultState, States, NoResume

-----------------------------------------------------------------------------
(* Values *)

\* The values a load may return, and the documents it may find.
Loaded(d) == IF d = "settings" THEN SettledSettings
             ELSE {v \in States : v.resume = NoResume /\ v.wins = 0}
RawDocs(d) == IF d = "settings" THEN RawSettings ELSE RawStates
Copies(d) == IF d = "settings" THEN Settings ELSE States

\* A file with this content is a document of this version.
Readable(d, f) == f \in RawDocs(d) /\ ~Corrupt(d, f) /\ ~IsNewer(d, f)

\* What the file of a document stands for.
ValueOf(d, f) == IF Corrupt(d, f) THEN Damaged
                 ELSE IF f # Absent /\ IsNewer(d, f) THEN Foreign
                 ELSE IF f = Absent THEN Default(d) ELSE Decode(d, f)

\* The marks are no documents and no values.
LEMMA Marks ==
    ASSUME NEW d \in Doc, NEW x \in RawDocs(d) \cup Copies(d)
    PROVE  x # Absent /\ x # Damaged /\ x # Foreign
BY MarksAreNoDocuments DEF RawDocs, Copies

LEMMA LoadedCopies == ASSUME NEW d \in Doc PROVE Loaded(d) \subseteq Copies(d)
BY DEF Loaded, Copies, SettledSettings

\* A load returns a value of its document.
LEMMA DecodeType ==
    ASSUME NEW d \in Doc, NEW f, Readable(d, f)
    PROVE  Decode(d, f) \in Loaded(d)
<1>1. CASE d = "settings"
  <2>1. f \in RawSettings /\ f # Absent /\ f # Damaged
    BY <1>1, Marks DEF Readable, RawDocs
  <2>2. ~SettingsRejected(f)
    BY <1>1, <2>1 DEF Readable, Corrupt
  <2> QED
    BY <1>1, <2>1, <2>2, DecodeSettingsType DEF Decode, Loaded
<1>2. CASE d = "state"
  <2>1. f \in RawStates
    BY <1>2 DEF Readable, RawDocs
  <2> QED
    BY <1>2, <2>1, DecodeStateType DEF Decode, Loaded
<1> QED
  BY <1>1, <1>2 DEF Doc

LEMMA DefaultLoaded == ASSUME NEW d \in Doc PROVE Default(d) \in Loaded(d)
BY DefaultSettingsType, DefaultStateType DEF Default, Loaded, Doc

\* A document that was saved is readable and returns what is left of it.
LEMMA SavedSettings ==
    ASSUME NEW v, Storable(v)
    PROVE  /\ Readable("settings", Encode("settings", v))
           /\ Decode("settings", Encode("settings", v)) = Returned(v)
<1>1. /\ EncodeSettings(v) \in RawSettings /\ ~SettingsRejected(EncodeSettings(v))
      /\ DecodeSettings(EncodeSettings(v)) = Returned(v)
  BY SettingsRoundTrip
<1>2. EncodeSettings(v) # Damaged
  BY <1>1, MarksAreNoDocuments
<1>3. EncodeSettings(v).schema = SettingsSchema
  BY DEF EncodeSettings
<1> QED
  BY <1>1, <1>2, <1>3 DEF Readable, RawDocs, Corrupt, IsNewer, Newer, Encode, Decode, SettingsSchema

LEMMA SavedState ==
    ASSUME NEW v \in States
    PROVE  /\ Readable("state", Encode("state", v))
           /\ Decode("state", Encode("state", v)) = [v EXCEPT !.resume = NoResume, !.wins = 0]
<1>1. /\ EncodeState(v) \in RawStates
      /\ DecodeState(EncodeState(v)) = [v EXCEPT !.resume = NoResume, !.wins = 0]
  BY StateRoundTrip
<1>2. EncodeState(v) # Damaged
  BY <1>1, MarksAreNoDocuments
<1>3. EncodeState(v).schema = StateSchema
  BY DEF EncodeState
<1> QED
  BY <1>1, <1>2, <1>3 DEF Readable, RawDocs, Corrupt, IsNewer, Newer, Encode, Decode, StateSchema

\* An edit of the loaded settings is saved and read back as it is promised.
LEMMA SettingsUpdate ==
    ASSUME NEW v \in SettledSettings, NEW e \in SettingsEdits
    PROVE  /\ Storable(AppliedSettings(e, v))
           /\ Returned(AppliedSettings(e, v)) = Promised("settings", e, v)
<1> DEFINE w == AppliedSettings(e, v)
           p == Promised("settings", e, v)
<1>0. /\ v \in Settings /\ v.dns # "empty" /\ v.zapret.sel \cap Cidr = {}
      /\ ~CountryError(v.country) /\ CanonicalCountryRouting(v.country) = v.country
  BY DEF SettledSettings
<1>1. v.zapret \in Zaprets /\ v.dns \in DnsLists
  BY <1>0 DEF Settings
<1>a. v.zapret.sel \in Names /\ v.zapret.on \in BOOLEAN /\ v.zapret.wins \in Nat \ {0}
      /\ v.zapret = [on |-> v.zapret.on, sel |-> v.zapret.sel, wins |-> v.zapret.wins]
  BY <1>1 DEF Zaprets
<1>2. CASE e = "clear-dns"
  <2>1. w = [v EXCEPT !.dns = "empty"] /\ p = [v EXCEPT !.dns = "nil"]
    BY <1>2 DEF AppliedSettings, Promised
  <2>2. w \in Settings /\ w.dns = "empty" /\ w.zapret = v.zapret /\ w.country = v.country
    BY <1>0, <2>1 DEF Settings, DnsLists
  <2>3. [v.zapret EXCEPT !.sel = v.zapret.sel \ Cidr] = v.zapret
    <3>1. v.zapret.sel \ Cidr = v.zapret.sel
      BY <1>0
    <3> QED
      BY <1>a, <3>1
  <2>4. Returned(w) = [w EXCEPT !.dns = "nil", !.zapret = v.zapret]
    BY <2>2, <2>3 DEF Returned
  <2>5. Returned(w) = p
    <3>1. Returned(w) \in Settings /\ p \in Settings
      BY <1>0, <1>1, <2>1, <2>2, <2>4 DEF Settings, DnsLists
    <3> QED
      BY <1>0, <2>1, <2>2, <2>4, <3>1, SettingsEqual, ZenonT(60) DEF Settings
  <2> QED
    BY <1>0, <2>2, <2>5 DEF Storable
<1>3. CASE e = "zapret"
  <2> DEFINE z == [v.zapret EXCEPT !.sel = Selector]
             y == [v.zapret EXCEPT !.sel = Selector \ Cidr]
             dns == IF v.dns = "nil" THEN "default" ELSE v.dns
  <2>1. w = [v EXCEPT !.zapret = z] /\ p = [Forgets(v) EXCEPT !.zapret.sel = Selector \ Cidr]
    BY <1>0, <1>3 DEF AppliedSettings, Promised, Settings
  <2>2. z \in Zaprets /\ y \in Zaprets /\ z.sel = Selector /\ [z EXCEPT !.sel = Selector \ Cidr] = y
    BY <1>a DEF Zaprets, Names
  <2>3. w \in Settings /\ w.dns = v.dns /\ w.zapret = z /\ w.country = v.country
    BY <1>0, <2>1, <2>2 DEF Settings
  <2>4. Returned(w) = [w EXCEPT !.dns = dns, !.zapret = y]
    BY <1>0, <2>2, <2>3 DEF Returned
  <2>5. /\ Forgets(v) \in Settings /\ Forgets(v).zapret = v.zapret /\ Forgets(v).dns = dns
        /\ Forgets(v).plain = v.plain /\ Forgets(v).cooldown = v.cooldown
        /\ Forgets(v).profile = v.profile /\ Forgets(v).policy = v.policy
        /\ Forgets(v).auto = v.auto /\ Forgets(v).mode = v.mode
        /\ Forgets(v).hidden = v.hidden /\ Forgets(v).country = v.country
        /\ Forgets(v).fw = v.fw
    BY <1>0 DEF Forgets, Settings, DnsLists
  <2>6. p = [Forgets(v) EXCEPT !.zapret = y]
    BY <2>1, <2>5 DEF Settings
  <2>7. dns \in DnsLists
    BY <1>1 DEF DnsLists
  <2> HIDE DEF z, y, dns
  <2>8. p \in Settings /\ Returned(w) \in Settings
    BY <2>2, <2>3, <2>4, <2>5, <2>6, <2>7 DEF Settings
  <2>9. Returned(w) = p
    <3> DEFINE q == Returned(w)
    <3>1. /\ w.plain = v.plain /\ w.cooldown = v.cooldown /\ w.profile = v.profile
          /\ w.policy = v.policy /\ w.auto = v.auto /\ w.mode = v.mode /\ w.hidden = v.hidden
          /\ w.fw = v.fw
      BY <1>0, <2>1 DEF Settings
    <3> HIDE DEF w
    <3>2. /\ q.plain = v.plain /\ q.cooldown = v.cooldown /\ q.profile = v.profile
          /\ q.policy = v.policy /\ q.auto = v.auto /\ q.mode = v.mode /\ q.hidden = v.hidden
          /\ q.fw = v.fw /\ q.country = v.country /\ q.dns = dns /\ q.zapret = y
      BY <2>3, <2>4, <3>1 DEF Settings
    <3>3. /\ p.plain = v.plain /\ p.cooldown = v.cooldown /\ p.profile = v.profile
          /\ p.policy = v.policy /\ p.auto = v.auto /\ p.mode = v.mode /\ p.hidden = v.hidden
          /\ p.fw = v.fw /\ p.country = v.country /\ p.dns = dns /\ p.zapret = y
      BY <2>5, <2>6 DEF Settings
    <3> HIDE DEF q, p
    <3>4. q = p
      BY <2>8, <3>2, <3>3, SettingsEqual DEF q
    <3> QED
      BY <3>4 DEF q
  <2> QED
    BY <1>0, <2>3, <2>9 DEF Storable
<1> QED
  BY <1>2, <1>3 DEF SettingsEdits

LEMMA StateUpdate ==
    ASSUME NEW v \in States, NEW e \in StateEdits
    PROVE  /\ AppliedState(e, v) \in States
           /\ [AppliedState(e, v) EXCEPT !.resume = NoResume, !.wins = 0] = Promised("state", e, v)
<1>1. /\ v.connected \in BOOLEAN /\ v.transport \in {"proxy", "zapret", "direct"}
      /\ v.op \in {"vpn", "recovering", "direct"} /\ v.resume \in Text /\ v.wins \in Nat
  BY DEF States
<1>2. AppliedState(e, v) \in States
  <2>1. CASE e = "connect"
    BY <2>1 DEF AppliedState, States
  <2>2. CASE e = "disconnect"
    <3>1. (IF v.connected THEN "node" ELSE v.resume) \in Text
      BY <1>1, Words
    <3> QED
      BY <2>2, <3>1 DEF AppliedState, States
  <2>3. CASE e = "candidate"
    <3>1. LegacyOperationalMode(v.connected, v.transport) \in {"vpn", "direct"} /\ v.wins + 1 \in Nat
      BY <1>1 DEF LegacyOperationalMode
    <3> QED
      BY <2>3, <3>1 DEF AppliedState, States
  <2> QED
    BY <2>1, <2>2, <2>3 DEF StateEdits
<1> QED
  BY <1>2 DEF Promised, StateEdits

\* Every update of every document: the copy is a document of its kind, and what a
\* later load returns is what was promised.
LEMMA UpdateKept ==
    ASSUME NEW d \in Doc, NEW e \in Edits(d), NEW v \in Loaded(d)
    PROVE  /\ Edited(d, e, v) \in Copies(d)
           /\ Readable(d, Encode(d, Edited(d, e, v)))
           /\ Decode(d, Encode(d, Edited(d, e, v))) = Promised(d, e, v)
<1>1. CASE d = "settings"
  <2>1. v \in SettledSettings /\ e \in SettingsEdits
    BY <1>1 DEF Loaded, Edits
  <2>2. Storable(AppliedSettings(e, v)) /\ Returned(AppliedSettings(e, v)) = Promised("settings", e, v)
    BY <2>1, SettingsUpdate
  <2>3. Edited(d, e, v) = AppliedSettings(e, v)
    BY <1>1 DEF Edited
  <2> QED
    BY <1>1, <2>2, <2>3, SavedSettings DEF Storable, Copies
<1>2. CASE d = "state"
  <2>1. v \in States /\ e \in StateEdits
    BY <1>2 DEF Loaded, Edits
  <2>2. Edited(d, e, v) = AppliedState(e, v)
    BY <1>2 DEF Edited
  <2> QED
    BY <1>2, <2>1, <2>2, StateUpdate, SavedState DEF Copies
<1> QED
  BY <1>1, <1>2 DEF Doc

\* The defaults that a recovery writes are read back as they are.
LEMMA DefaultKept ==
    ASSUME NEW d \in Doc
    PROVE  /\ Readable(d, Encode(d, Default(d)))
           /\ Decode(d, Encode(d, Default(d))) = Default(d)
<1>1. CASE d = "settings"
  <2> DEFINE v == DefaultSettings
  <2>1. v \in Settings /\ Storable(v)
    BY DefaultSettingsType DEF SettledSettings, Storable
  <2>2. v.dns = "default" /\ v.zapret.sel \ Cidr = {} /\ v.zapret.sel = {} /\ v.zapret \in Zaprets
    BY <2>1 DEF DefaultSettings, Settings
  <2> HIDE DEF v
  <2>3. [v.zapret EXCEPT !.sel = v.zapret.sel \ Cidr] = v.zapret
    BY <2>2 DEF Zaprets
  <2>4. Returned(v) = [v EXCEPT !.dns = "default", !.zapret = v.zapret]
    BY <2>2, <2>3 DEF Returned
  <2>5. Returned(v) = v
    <3>1. Returned(v) \in Settings
      BY <2>1, <2>2, <2>4 DEF Settings, DnsLists
    <3> QED
      BY <2>1, <2>2, <2>4, <3>1, SettingsEqual DEF Settings
  <2> QED
    BY <1>1, <2>1, <2>5, SavedSettings DEF Default, v
<1>2. CASE d = "state"
  <2>1. [DefaultState EXCEPT !.resume = NoResume, !.wins = 0] = DefaultState
    <3> DEFINE w == [DefaultState EXCEPT !.resume = NoResume, !.wins = 0]
    <3>1. w \in States /\ w.resume = NoResume /\ w.wins = 0
      BY DefaultStateType, Words DEF States, NoResume
    <3>2. /\ w.connected = DefaultState.connected /\ w.transport = DefaultState.transport
          /\ w.op = DefaultState.op
      BY DefaultStateType DEF States
    <3> QED
      BY <3>1, <3>2, DefaultStateType, StatesEqual
  <2> QED
    BY <1>2, <2>1, SavedState, DefaultStateType DEF Default
<1> QED
  BY <1>1, <1>2 DEF Doc

-----------------------------------------------------------------------------
(* The two locks *)

\* The steps between the record lock and its end.
Critical == {"load", "write", "unlock", "recover", "rewrite"}

\* A thread past the mutex holds it, one past the record lock has that of its process.
LockOK ==
    \A t \in Thread :
        /\ th[t].pc \in Critical \cup {"flock"} => mutex[ProcessOf[t]]["store"] = t
        /\ th[t].pc \in Critical => flock = ProcessOf[t]

\* The copy about to be saved is an edit of what the file still holds, and the file
\* about to get the default is still missing.
CopyOK ==
    \A t \in Thread :
        /\ th[t].pc = "write" =>
             /\ th[t].doc \in Doc
             /\ Loadable(th[t].doc)
             /\ \E e \in Edits(th[t].doc) : th[t].copy = Edited(th[t].doc, e, Load(th[t].doc))
        /\ th[t].pc = "rewrite" => th[t].doc \in Doc /\ file[th[t].doc] = Absent

StoreInv == TypeOK /\ LockOK /\ CopyOK

\* WithWriteLock excludes, whatever threads and processes meet and by whichever path
\* they opened the store.
Exclusive == \A t, u \in Thread : th[t].pc \in Critical /\ th[u].pc \in Critical => t = u

LEMMA LockExcludes == TypeOK /\ LockOK => Exclusive
BY DEF LockOK, Exclusive

LEMMA LoadLoaded == ASSUME TypeOK, NEW d \in Doc, Loadable(d) PROVE Load(d) \in Loaded(d)
<1>1. CASE file[d] = Absent
  BY <1>1, DefaultLoaded DEF Load
<1>2. CASE file[d] # Absent
  <2>1. file[d] # Damaged /\ ~Corrupt(d, file[d]) /\ ~IsNewer(d, file[d])
    BY <1>2 DEF Loadable, Corrupt
  <2>2. file[d] \in RawDocs(d)
    BY <1>2, <2>1 DEF TypeOK, Doc, RawDocs
  <2> QED
    BY <1>2, <2>1, <2>2, DecodeType DEF Load, Readable
<1> QED
  BY <1>1, <1>2

\* A file whose document is replaced by a readable one, or taken away, is a file.
LEMMA FileType ==
    ASSUME TypeOK, NEW d \in Doc, NEW f, f \in RawDocs(d) \cup {Absent, Damaged},
           file' = [file EXCEPT ![d] = f]
    PROVE  /\ file' \in [settings : RawSettings \cup {Absent, Damaged},
                         state : RawStates \cup {Absent, Damaged}]
           /\ file'[d] = f /\ \A x \in Doc \ {d} : file'[x] = file[x]
BY DEF TypeOK, Doc, RawDocs

\* A thread may take any step that is well formed.
LEMMA ThreadType ==
    ASSUME TypeOK, NEW t \in Thread,
           NEW r \in [pc : Steps, doc : Doc \cup {None}, copy : Settings \cup States \cup {None}],
           th' = [th EXCEPT ![t] = r]
    PROVE  /\ th' \in [Thread -> [pc : Steps, doc : Doc \cup {None},
                                  copy : Settings \cup States \cup {None}]]
           /\ th'[t] = r /\ \A u \in Thread \ {t} : th'[u] = th[u]
BY DEF TypeOK

\* The three ways a thread goes on.
LEMMA IdleType ==
    /\ Idle \in [pc : Steps, doc : Doc \cup {None}, copy : Settings \cup States \cup {None}]
    /\ Idle.pc = "idle"
    /\ \A pc \in Steps :
         /\ [Idle EXCEPT !.pc = pc] \in [pc : Steps, doc : Doc \cup {None},
                                        copy : Settings \cup States \cup {None}]
         /\ [Idle EXCEPT !.pc = pc].pc = pc
BY DEF Idle, Steps

LEMMA GotoType ==
    ASSUME TypeOK, NEW t \in Thread, NEW pc \in Steps, Goto(t, pc)
    PROVE  /\ th' \in [Thread -> [pc : Steps, doc : Doc \cup {None},
                                  copy : Settings \cup States \cup {None}]]
           /\ th'[t].pc = pc /\ \A u \in Thread \ {t} : th'[u] = th[u]
BY DEF TypeOK, Goto

LEMMA LeaveType ==
    ASSUME TypeOK, NEW t \in Thread, Leave(t)
    PROVE  /\ th' \in [Thread -> [pc : Steps, doc : Doc \cup {None},
                                  copy : Settings \cup States \cup {None}]]
           /\ th'[t].pc = "unlock" /\ \A u \in Thread \ {t} : th'[u] = th[u]
<1>1. "unlock" \in Steps
  BY DEF Steps
<1> QED
  BY <1>1, IdleType, ThreadType DEF Leave

\* Where the file stays, so do the copies of the threads that stay.
LEMMA CopyStays ==
    ASSUME StoreInv, file' = file,
           \A t \in Thread : \/ th'[t] = th[t]
                             \/ th'[t].pc \notin {"write", "rewrite"}
    PROVE  CopyOK'
BY DEF StoreInv, CopyOK, Loadable, Load

\* A thread that ends its critical section gives up both locks; nobody else had them.
LEMMA ReleaseKeeps ==
    ASSUME StoreInv, NEW t \in Thread, th[t].pc \in Critical, Release(t),
           UNCHANGED <<file, ready, damages>>
    PROVE  StoreInv'
<1> USE ThreadsHaveProcesses, NoneIsNobody
<1>1. /\ th' \in [Thread -> [pc : Steps, doc : Doc \cup {None},
                             copy : Settings \cup States \cup {None}]]
      /\ th'[t] = Idle /\ \A u \in Thread \ {t} : th'[u] = th[u]
  BY IdleType, ThreadType DEF StoreInv, Release
<1>2. TypeOK'
  BY <1>1 DEF StoreInv, TypeOK, Release, CanonicalWriteLockKey, MutexKey
<1>3. \A u \in Thread \ {t} : th[u].pc \notin Critical
  BY LockExcludes DEF StoreInv, Exclusive
<1>4. LockOK'
  <2>1. Idle.pc \notin Critical \cup {"flock"}
    BY DEF Idle, Critical
  <2>2. \A u \in Thread \ {t} : mutex[ProcessOf[u]]["store"] = u => mutex'[ProcessOf[u]]["store"] = u
    BY DEF StoreInv, TypeOK, Release, CanonicalWriteLockKey, MutexKey
  <2> QED
    BY <1>1, <1>3, <2>1, <2>2 DEF StoreInv, LockOK
<1>5. CopyOK'
  BY <1>1, CopyStays DEF Idle
<1> QED
  BY <1>2, <1>4, <1>5 DEF StoreInv

\* At the start nobody holds a lock and nobody has a copy.
LEMMA StoreInit == Init => StoreInv
<1> SUFFICES ASSUME Init PROVE StoreInv
  OBVIOUS
<1>1. file \in [settings : RawSettings \cup {Absent, Damaged},
               state : RawStates \cup {Absent, Damaged}]
  BY OldFilesDecode DEF Init
<1>2. TypeOK
  <2>1. 0 \in 0 .. MaxDamages
    BY DamageBound
  <2> QED
    BY <1>1, <2>1, IdleType DEF Init, TypeOK
<1>3. LockOK /\ CopyOK
  BY DEF Init, Idle, LockOK, CopyOK, Critical
<1> QED
  BY <1>2, <1>3 DEF StoreInv

\* A step of a thread that keeps the file, and both locks apart from its own gain of
\* one.
LEMMA MoveKeeps ==
    ASSUME StoreInv, NEW t \in Thread, UNCHANGED <<file, damages>>, ready' \subseteq Process,
           th' \in [Thread -> [pc : Steps, doc : Doc \cup {None},
                               copy : Settings \cup States \cup {None}]],
           \A u \in Thread \ {t} : th'[u] = th[u],
           th'[t].pc \notin {"write", "rewrite"},
           UNCHANGED <<mutex, flock>>,
           th'[t].pc \in Critical => th[t].pc \in Critical,
           th'[t].pc # "flock"
    PROVE  StoreInv'
<1>1. TypeOK'
  BY DEF StoreInv, TypeOK
<1>2. LockOK'
  BY DEF StoreInv, LockOK
<1>3. CopyOK'
  BY CopyStays
<1> QED
  BY <1>1, <1>2, <1>3 DEF StoreInv

\* Every step keeps the locks and the copies.
LEMMA StoreStep == StoreInv /\ [Next]_vars => StoreInv'
<1> SUFFICES ASSUME StoreInv, [Next]_vars PROVE StoreInv'
  OBVIOUS
<1> USE ThreadsHaveProcesses, NoneIsNobody
<1>a. TypeOK /\ LockOK /\ CopyOK /\ Exclusive
  BY LockExcludes DEF StoreInv
<1>b. Steps = {"idle", "mutex", "flock"} \cup Critical
  BY DEF Steps, Critical
<1>1. ASSUME NEW t \in Thread, BeginRecovery(t) \/ BeginUpdate(t) PROVE StoreInv'
  <2>1. Goto(t, "mutex") /\ UNCHANGED <<file, mutex, flock, ready, damages>>
    BY <1>1 DEF BeginRecovery, BeginUpdate
  <2> QED
    BY <1>a, <1>b, <2>1, GotoType, MoveKeeps DEF TypeOK, Critical
<1>2. ASSUME NEW t \in Thread, LockMutex(t) PROVE StoreInv'
  <2>1. /\ th' \in [Thread -> [pc : Steps, doc : Doc \cup {None},
                               copy : Settings \cup States \cup {None}]]
        /\ th'[t].pc = "flock" /\ \A u \in Thread \ {t} : th'[u] = th[u]
    BY <1>2, <1>a, <1>b, GotoType DEF LockMutex
  <2>2. /\ mutex' \in [Process -> [MutexKey -> Thread \cup {None}]]
        /\ mutex'[ProcessOf[t]]["store"] = t
        /\ \A u \in Thread : mutex[ProcessOf[u]]["store"] = u => mutex'[ProcessOf[u]]["store"] = u
    BY <1>2, <1>a DEF LockMutex, TakesMutex, CanonicalWriteLockKey, MutexKey, TypeOK
  <2>3. TypeOK'
    BY <1>2, <1>a, <2>1, <2>2 DEF LockMutex, TypeOK
  <2>4. LockOK'
    BY <1>2, <1>a, <2>1, <2>2 DEF LockMutex, LockOK, Critical
  <2>5. CopyOK'
    BY <1>2, <2>1, CopyStays DEF LockMutex
  <2> QED
    BY <2>3, <2>4, <2>5 DEF StoreInv
<1>3. ASSUME NEW t \in Thread, LockFile(t) PROVE StoreInv'
  <2>1. /\ th' \in [Thread -> [pc : Steps, doc : Doc \cup {None},
                               copy : Settings \cup States \cup {None}]]
        /\ th'[t].pc \in {"recover", "load"} /\ \A u \in Thread \ {t} : th'[u] = th[u]
    BY <1>3, <1>a, GotoType DEF LockFile, Steps
  <2>2. /\ flock' = ProcessOf[t] /\ flock \in {None, ProcessOf[t]}
        /\ UNCHANGED <<file, mutex, ready, damages>>
    BY <1>3 DEF LockFile, FcntlLock
  <2>3. TypeOK'
    BY <1>a, <2>1, <2>2 DEF TypeOK
  <2>4. LockOK'
    BY <1>3, <1>a, <2>1, <2>2 DEF LockFile, LockOK, Critical
  <2>5. CopyOK'
    BY <2>1, <2>2, CopyStays
  <2> QED
    BY <2>3, <2>4, <2>5 DEF StoreInv
<1>4. ASSUME NEW t \in Thread, LoadDocument(t) PROVE StoreInv'
  <2>0. th[t].pc = "load" /\ UNCHANGED <<file, ready, damages>>
    BY <1>4 DEF LoadDocument
  <2>1. CASE Release(t)
    BY <2>0, <2>1, ReleaseKeeps DEF Critical
  <2>2. ASSUME NEW d \in Doc, NEW e \in Edits(d), Loadable(d), UNCHANGED <<mutex, flock>>,
               th' = [th EXCEPT ![t] = [pc |-> "write", doc |-> d, copy |-> Edited(d, e, Load(d))]]
        PROVE  StoreInv'
    <3> DEFINE r == [pc |-> "write", doc |-> d, copy |-> Edited(d, e, Load(d))]
    <3>1. Edited(d, e, Load(d)) \in Settings \cup States
      BY <1>a, <2>2, LoadLoaded, UpdateKept DEF Copies
    <3>2. r \in [pc : Steps, doc : Doc \cup {None}, copy : Settings \cup States \cup {None}]
      BY <3>1 DEF Steps
    <3>3. r.pc = "write" /\ r.doc = d /\ r.copy = Edited(d, e, Load(d))
      OBVIOUS
    <3>4. th' = [th EXCEPT ![t] = r]
      BY <2>2
    <3> HIDE DEF r
    <3>5. /\ th' \in [Thread -> [pc : Steps, doc : Doc \cup {None},
                                 copy : Settings \cup States \cup {None}]]
          /\ th'[t] = r /\ \A u \in Thread \ {t} : th'[u] = th[u]
      BY <1>a, <3>2, <3>4, ThreadType
    <3>6. TypeOK'
      BY <1>a, <2>0, <2>2, <3>5 DEF TypeOK
    <3>7. LockOK'
      BY <1>a, <2>0, <2>2, <3>3, <3>5 DEF LockOK, Critical
    <3>8. CopyOK'
      <4>1. \A x \in Doc : Loadable(x)' = Loadable(x) /\ Load(x)' = Load(x)
        BY <2>0 DEF Loadable, Load
      <4> QED
        BY <1>a, <2>0, <2>2, <3>3, <3>5, <4>1 DEF CopyOK
    <3> QED
      BY <3>6, <3>7, <3>8 DEF StoreInv
  <2> QED
    BY <1>4, <2>1, <2>2 DEF LoadDocument
<1>5. ASSUME NEW t \in Thread, NEW d \in Doc, NEW f, th[t].pc \in Critical,
             f \in RawDocs(d) \cup {Absent}, file' = [file EXCEPT ![d] = f],
             th' \in [Thread -> [pc : Steps, doc : Doc \cup {None},
                                 copy : Settings \cup States \cup {None}]],
             \A u \in Thread \ {t} : th'[u] = th[u],
             th'[t].pc \in Critical \ {"write"},
             th'[t].pc = "rewrite" => th'[t].doc = d /\ f = Absent,
             UNCHANGED <<mutex, flock, ready, damages>>
      PROVE  StoreInv'
  <2>1. TypeOK'
    BY <1>a, <1>5, FileType DEF TypeOK
  <2>2. LockOK'
    BY <1>a, <1>5 DEF LockOK
  <2>3. \A u \in Thread \ {t} : th'[u].pc \notin {"write", "rewrite"}
    BY <1>a, <1>5 DEF Exclusive, Critical
  <2>4. file'[d] = f
    BY <1>a, <1>5, FileType
  <2>5. CopyOK'
    BY <1>5, <2>3, <2>4 DEF CopyOK
  <2> QED
    BY <2>1, <2>2, <2>5 DEF StoreInv
<1>6. ASSUME NEW t \in Thread, SaveDocument(t) PROVE StoreInv'
  <2> DEFINE d == th[t].doc
             f == Encode(d, th[t].copy)
  <2>1. /\ th[t].pc = "write" /\ file' = [file EXCEPT ![d] = f] /\ Leave(t)
        /\ UNCHANGED <<mutex, flock, ready, damages>>
    BY <1>6 DEF SaveDocument, AtomicWriteJSON
  <2>2. PICK e \in Edits(d) : d \in Doc /\ Loadable(d) /\ th[t].copy = Edited(d, e, Load(d))
    BY <1>a, <2>1 DEF CopyOK
  <2>3. f \in RawDocs(d)
    BY <1>a, <2>2, LoadLoaded, UpdateKept DEF Readable
  <2>4. /\ th' \in [Thread -> [pc : Steps, doc : Doc \cup {None},
                               copy : Settings \cup States \cup {None}]]
        /\ th'[t].pc = "unlock" /\ \A u \in Thread \ {t} : th'[u] = th[u]
    BY <1>a, <2>1, LeaveType
  <2> HIDE DEF d, f
  <2>5. /\ th[t].pc \in Critical /\ f \in RawDocs(d) \cup {Absent}
        /\ file' = [file EXCEPT ![d] = f]
        /\ th'[t].pc \in Critical \ {"write"}
        /\ th'[t].pc = "rewrite" => th'[t].doc = d /\ f = Absent
    BY <2>1, <2>3, <2>4 DEF Critical
  <2> QED
    BY <1>5, <2>1, <2>2, <2>4, <2>5
<1>7. ASSUME NEW t \in Thread, th[t].pc \in Critical, Leave(t), ready' \subseteq Process,
             UNCHANGED <<file, mutex, flock, damages>>
      PROVE  StoreInv'
  BY <1>a, <1>7, LeaveType, MoveKeeps DEF Critical
<1>8. ASSUME NEW t \in Thread, SaveFails(t) PROVE StoreInv'
  BY <1>a, <1>7, <1>8 DEF SaveFails, Critical, TypeOK
<1>9. ASSUME NEW t \in Thread, Unlock(t) PROVE StoreInv'
  BY <1>9, ReleaseKeeps DEF Unlock, Critical
<1>10. ASSUME NEW t \in Thread, SetAside(t) PROVE StoreInv'
  <2> DEFINE d == FirstDamaged
             f == Absent
  <2>1. th[t].pc = "recover" /\ d \in Doc /\ UNCHANGED <<mutex, flock, ready, damages>>
    BY <1>10 DEF SetAside, FirstDamaged, Doc
  <2>2. CASE Leave(t) /\ UNCHANGED file
    BY <1>a, <1>7, <2>1, <2>2 DEF Critical, TypeOK
  <2>3. CASE /\ file' = [file EXCEPT ![d] = f]
             /\ th' = [th EXCEPT ![t].pc = "rewrite", ![t].doc = d]
    <3>0. f = Absent
      OBVIOUS
    <3> HIDE DEF d, f
    <3>1. /\ th' \in [Thread -> [pc : Steps, doc : Doc \cup {None},
                                 copy : Settings \cup States \cup {None}]]
          /\ th'[t].pc = "rewrite" /\ th'[t].doc = d /\ \A u \in Thread \ {t} : th'[u] = th[u]
      BY <1>a, <2>1, <2>3, ZenonT(60) DEF TypeOK, Steps
    <3>2. /\ th[t].pc \in Critical /\ f \in RawDocs(d) \cup {Absent}
          /\ file' = [file EXCEPT ![d] = f]
          /\ th'[t].pc \in Critical \ {"write"}
          /\ th'[t].pc = "rewrite" => th'[t].doc = d /\ f = Absent
      BY <2>1, <2>3, <3>0, <3>1 DEF Critical
    <3> QED
      BY <1>5, <2>1, <3>1, <3>2
  <2> QED
    BY <1>10, <2>2, <2>3 DEF SetAside
<1>11. ASSUME NEW t \in Thread, RewriteDefault(t) PROVE StoreInv'
  <2> DEFINE d == th[t].doc
             f == Encode(d, Default(d))
  <2>1. th[t].pc = "rewrite" /\ d \in Doc /\ UNCHANGED <<mutex, flock, ready, damages>>
    BY <1>a, <1>11 DEF RewriteDefault, CopyOK
  <2>2. CASE Leave(t) /\ UNCHANGED file
    BY <1>a, <1>7, <2>1, <2>2 DEF Critical, TypeOK
  <2>3. CASE /\ file' = [file EXCEPT ![d] = f]
             /\ th' = [th EXCEPT ![t] = [Idle EXCEPT !.pc = "recover"]]
    <3>1. f \in RawDocs(d)
      BY <2>1, DefaultKept DEF Readable
    <3>2. /\ th' \in [Thread -> [pc : Steps, doc : Doc \cup {None},
                                 copy : Settings \cup States \cup {None}]]
          /\ th'[t].pc = "recover" /\ \A u \in Thread \ {t} : th'[u] = th[u]
      BY <1>a, <2>3, IdleType, ThreadType DEF Steps
    <3> HIDE DEF d, f
    <3>3. /\ th[t].pc \in Critical /\ f \in RawDocs(d) \cup {Absent}
          /\ file' = [file EXCEPT ![d] = f]
          /\ th'[t].pc \in Critical \ {"write"}
          /\ th'[t].pc = "rewrite" => th'[t].doc = d /\ f = Absent
      BY <2>1, <2>3, <3>1, <3>2 DEF Critical
    <3> QED
      BY <1>5, <2>1, <3>2, <3>3
  <2> QED
    BY <1>11, <2>2, <2>3 DEF RewriteDefault, AtomicWriteJSON
<1>12. ASSUME NEW t \in Thread, Recovered(t) PROVE StoreInv'
  BY <1>a, <1>7, <1>12 DEF Recovered, Critical, TypeOK
<1>13. ASSUME NEW p \in Process, Kill(p) PROVE StoreInv'
  <2>1. /\ th' = [t \in Thread |-> IF ProcessOf[t] = p THEN Idle ELSE th[t]]
        /\ mutex' = [mutex EXCEPT ![p] = [k \in MutexKey |-> None]]
        /\ flock' = IF flock = p THEN None ELSE flock
        /\ ready' = ready \ {p}
        /\ UNCHANGED <<file, damages>>
    BY <1>13 DEF Kill
  <2>2. TypeOK'
    BY <1>a, <2>1, IdleType DEF TypeOK
  <2>3. LockOK'
    BY <1>a, <2>1 DEF LockOK, Idle, Critical, TypeOK
  <2>4. CopyOK'
    BY <2>1, CopyStays DEF Idle
  <2> QED
    BY <2>2, <2>3, <2>4 DEF StoreInv
<1>14. ASSUME NEW d \in Doc, PowerLoss(d) PROVE StoreInv'
  <2>1. TypeOK'
    <3>1. damages' \in 0 .. MaxDamages
      BY <1>a, <1>14, DamageBound DEF PowerLoss, TypeOK
    <3>2. file' \in [settings : RawSettings \cup {Absent, Damaged},
                     state : RawStates \cup {Absent, Damaged}]
      BY <1>a, <1>14, FileType DEF PowerLoss
    <3> QED
      BY <1>14, <3>1, <3>2, IdleType DEF PowerLoss, TypeOK
  <2>2. LockOK' /\ CopyOK'
    BY <1>14 DEF PowerLoss, LockOK, CopyOK, Idle, Critical
  <2> QED
    BY <2>1, <2>2 DEF StoreInv
<1>15. CASE UNCHANGED vars
  BY <1>a, <1>15 DEF vars, StoreInv, TypeOK, LockOK, CopyOK, Loadable, Load
<1> QED
  BY <1>1, <1>2, <1>3, <1>4, <1>6, <1>8, <1>9, <1>10, <1>11, <1>12, <1>13, <1>14, <1>15
     DEF Next, Step

-----------------------------------------------------------------------------
\* For every set of processes and threads and every old file: files hold documents,
\* the missing or the damaged mark, and threads hold locks and copies of their kind.
THEOREM TypeCorrect == Spec => []TypeOK
<1>1. StoreInv => TypeOK
  BY DEF StoreInv
<1> QED
  BY <1>1, StoreInit, StoreStep, PTL DEF Spec

\* The two-level lock of store_lock.go excludes: of all threads of all processes at
\* most one is inside WithWriteLock, although a record lock does not exclude threads
\* of one process and ends with the first descriptor that is closed.
THEOREM WriteLockExclusive == Spec => []Exclusive
<1>1. StoreInv => Exclusive
  BY LockExcludes DEF StoreInv
<1> QED
  BY <1>1, StoreInit, StoreStep, PTL DEF Spec

\* Whatever the firewall section of an installation before schema 7 holds, what it
\* routes after decodeSettings is what it routed before.
THEOREM UpgradeKeepsRoutingTheorem == Spec => []UpgradeKeepsRouting
<1>1. TypeOK => UpgradeKeepsRouting
  <2> DEFINE r == file["settings"]
             f == r.fw
  <2> SUFFICES ASSUME TypeOK, r \notin {Absent, Damaged}, Loadable("settings"),
                      f # Absent, f.mode = Absent, Or(f.hosts, {}) = {}
               PROVE  RoutedOf(Load("settings").fw) = LegacyRoutes(f)
    BY DEF UpgradeKeepsRouting
  <2> DEFINE hosts == Or(f.oldHosts, {})
             targets == Or(f.oldTargets, {})
             fw == DecodeFirewall(f, Or(r.schema, 0))
  <2>1. Load("settings").fw = fw
    BY DEF Load, Decode, DecodeSettings
  <2>2. f \in RawFirewalls /\ r.schema \in Maybe(Nat)
    BY DEF TypeOK, RawSettings, Maybe
  <2>3. Or(r.schema, 0) \in Nat
    BY <2>2 DEF Or, Maybe
  <2>4. /\ targets # {} => f.oldTargets = targets
        /\ hosts \in Names /\ targets \in Names
    <3>1. f.oldTargets \in Maybe(Names) /\ f.oldHosts \in Maybe(Names)
      BY <2>2 DEF RawFirewalls
    <3> QED
      BY <3>1 DEF Or, Maybe, Names
  <2>5. PICK now \in Firewalls : now.hosts = hosts /\ fw = LegacyFirewall(f, now)
    <3> DEFINE own == Or(f.hosts, {})
               now == [enabled |-> Or(f.enabled, TRUE),
                       mode |-> NormalizeFirewallMode(Or(f.mode, "split")),
                       hosts |-> Or(f.oldHosts, own), targets |-> Or(f.targets, {}),
                       proxy |-> Or(f.proxy, {}), bypass |-> Or(f.bypass, {}),
                       default |-> NormalizeFirewallDefaultAction(Or(f.default, "proxy")),
                       draft |-> Or(f.draft, Or(f.oldDraft, {})),
                       quic |-> DecodeQuic(f, Or(r.schema, 0))]
    <3>1. fw = LegacyFirewall(f, now)
      BY DEF DecodeFirewall
    <3>2. now.hosts = hosts
      OBVIOUS
    <3>3. now \in Firewalls
      BY <2>2, <2>3, <2>4, NowType
    <3> QED
      BY <3>1, <3>2, <3>3
  <2>6. /\ LegacyRoutes(f).hosts = hosts
        /\ LegacyRoutes(f) = [hosts |-> hosts,
                              dest |-> {x \in Selector : /\ hosts = {} /\ targets # {}
                                                         /\ (x \in targets) # (f.oldMode = "bypass")}]
    BY DEF LegacyRoutes
  <2> HIDE DEF hosts, targets, fw, f, r
  <2>7. RoutedOf(fw) = LegacyRoutes(f)
    <3>1. CASE hosts # {}
      <4>1. fw.mode = "hosts" /\ fw.hosts = hosts
        BY <2>5, <3>1 DEF LegacyFirewall, Firewalls
      <4> QED
        BY <2>6, <3>1, <4>1 DEF RoutedOf
    <3>2. CASE hosts = {} /\ targets # {} /\ f.oldMode = "bypass"
      <4>1. /\ fw.mode = "split" /\ fw.proxy = {} /\ fw.bypass = targets /\ fw.default = "proxy"
        BY <2>4, <2>5, <3>2 DEF LegacyFirewall, Firewalls, targets
      <4> QED
        BY <2>6, <3>2, <4>1 DEF RoutedOf
    <3>3. CASE hosts = {} /\ targets # {} /\ f.oldMode # "bypass"
      <4>1. fw.mode = "targets" /\ fw.targets = targets
        BY <2>4, <2>5, <3>3 DEF LegacyFirewall, Firewalls, targets
      <4> QED
        BY <2>6, <3>3, <4>1 DEF RoutedOf
    <3>4. CASE hosts = {} /\ targets = {}
      <4>1. fw.mode = "disabled"
        BY <2>5, <3>4 DEF LegacyFirewall, Firewalls, targets
      <4> QED
        BY <2>6, <3>4, <4>1 DEF RoutedOf
    <3> QED
      BY <3>1, <3>2, <3>3, <3>4
  <2> QED
    BY <2>1, <2>7
<1> QED
  BY <1>1, TypeCorrect, PTL

-----------------------------------------------------------------------------
(* The refinement *)

\* The value of a document is that of its file.
LEMMA ValueIs == Value = [d \in Doc |-> ValueOf(d, file[d])]
BY DEF Value, ValueOf, Load

\* Replacing a file replaces one value.
LEMMA ValueReplaced ==
    ASSUME TypeOK, NEW d \in Doc, NEW f, f \in RawDocs(d) \cup {Absent, Damaged},
           file' = [file EXCEPT ![d] = f]
    PROVE  Value' = [Value EXCEPT ![d] = ValueOf(d, f)]
<1>1. Value' = [x \in Doc |-> ValueOf(x, file'[x])]
  BY DEF Value, ValueOf, Load, Default, Decode, Corrupt, IsNewer
<1>2. file'[d] = f /\ \A x \in Doc \ {d} : file'[x] = file[x]
  BY FileType
<1> HIDE DEF ValueOf
<1> QED
  BY <1>1, <1>2, ValueIs

\* Every step is an update on the basis of the current value, a damage, a reset of a
\* damaged document, or nothing.
LEMMA StepImplements ==
    StoreInv /\ [Next]_vars => [Abstract!Next]_<<Value, damages>>
<1> SUFFICES ASSUME StoreInv, [Next]_vars PROVE [Abstract!Next]_<<Value, damages>>
  OBVIOUS
<1>a. TypeOK /\ LockOK /\ CopyOK /\ Exclusive
  BY LockExcludes DEF StoreInv
<1>b. \A d \in Doc : Value[d] = ValueOf(d, file[d])
  BY ValueIs
<1>1. CASE UNCHANGED <<file, damages>>
  BY <1>1, ValueIs DEF Value, Load, Default, Decode, Corrupt, IsNewer
<1>2. ASSUME NEW t \in Thread, SaveDocument(t) PROVE Abstract!Next
  <2> DEFINE d == th[t].doc
             f == Encode(d, th[t].copy)
  <2>1. th[t].pc = "write" /\ file' = [file EXCEPT ![d] = f] /\ UNCHANGED damages
    BY <1>2 DEF SaveDocument, AtomicWriteJSON
  <2>2. PICK e \in Edits(d) : d \in Doc /\ Loadable(d) /\ th[t].copy = Edited(d, e, Load(d))
    BY <1>a, <2>1 DEF CopyOK
  <2>3. Value[d] = Load(d) /\ Load(d) \in Loaded(d)
    BY <1>a, <1>b, <2>2, LoadLoaded DEF ValueOf, Loadable, Load
  <2>4. Readable(d, f) /\ Decode(d, f) = Promised(d, e, Load(d))
    BY <2>2, <2>3, UpdateKept
  <2>5. f # Absent /\ f \in RawDocs(d)
    BY <2>2, <2>4, Marks DEF Readable
  <2>6. ValueOf(d, f) = Promised(d, e, Load(d))
    BY <2>4, <2>5 DEF ValueOf, Readable
  <2>7. Value' = [Value EXCEPT ![d] = Promised(d, e, Value[d])]
    BY <1>a, <2>1, <2>2, <2>3, <2>5, <2>6, ValueReplaced
  <2>8. Value[d] \notin {Damaged, Foreign}
    BY <2>2, <2>3, Marks, LoadedCopies
  <2> HIDE DEF d, f
  <2>9. Abstract!Update(d)
    BY <2>1, <2>2, <2>7, <2>8 DEF Abstract!Update, Abstract!Readable
  <2> QED
    BY <2>2, <2>9 DEF Abstract!Next
<1>3. ASSUME NEW t \in Thread, SetAside(t), file' # file PROVE Abstract!Next
  <2> DEFINE d == FirstDamaged
  <2>1. d \in Doc /\ Corrupt(d, file[d]) /\ file' = [file EXCEPT ![d] = Absent] /\ UNCHANGED damages
    BY <1>3 DEF SetAside, FirstDamaged, NeedsRecovery, Doc
  <2> HIDE DEF d
  <2>2. Value[d] = Damaged
    BY <1>b, <2>1 DEF ValueOf
  <2>3. ValueOf(d, Absent) = Default(d)
    BY MarksAreNoDocuments DEF ValueOf, Corrupt
  <2>4. Value' = [Value EXCEPT ![d] = Default(d)]
    BY <1>a, <2>1, <2>3, ValueReplaced
  <2>5. Abstract!Reset(d)
    BY <2>1, <2>2, <2>4 DEF Abstract!Reset
  <2> QED
    BY <2>1, <2>5 DEF Abstract!Next
<1>4. ASSUME NEW t \in Thread, RewriteDefault(t), file' # file
      PROVE  UNCHANGED <<Value, damages>>
  <2> DEFINE d == th[t].doc
             f == Encode(d, Default(d))
  <2>1. /\ d \in Doc /\ file[d] = Absent
        /\ file' = [file EXCEPT ![d] = f] /\ UNCHANGED damages
    BY <1>a, <1>4 DEF RewriteDefault, AtomicWriteJSON, CopyOK
  <2>2. Readable(d, f) /\ Decode(d, f) = Default(d)
    BY <2>1, DefaultKept
  <2>3. f # Absent /\ f \in RawDocs(d)
    BY <2>1, <2>2, Marks DEF Readable
  <2>4. ValueOf(d, f) = Default(d)
    BY <2>2, <2>3 DEF ValueOf, Readable
  <2>5. Value[d] = Default(d)
    BY <1>b, <2>1, MarksAreNoDocuments DEF ValueOf, Corrupt
  <2>6. Value' = [Value EXCEPT ![d] = Value[d]]
    BY <1>a, <2>1, <2>3, <2>4, <2>5, ValueReplaced
  <2>7. Value' = Value
    BY <2>1, <2>6, ValueIs
  <2> QED
    BY <2>1, <2>7
<1>5. ASSUME NEW d \in Doc, PowerLoss(d) PROVE Abstract!Next
  <2>1. /\ file[d] \notin {Absent, Damaged} /\ ~IsNewer(d, file[d])
        /\ file' = [file EXCEPT ![d] = Damaged] /\ damages' = damages + 1
    BY <1>5 DEF PowerLoss
  <2>2. Value[d] # Foreign
    <3>1. CASE Corrupt(d, file[d])
      BY <1>b, <3>1, MarksAreNoDocuments DEF ValueOf
    <3>2. CASE ~Corrupt(d, file[d])
      <4>1. Loadable(d) /\ Value[d] = Load(d)
        BY <1>b, <2>1, <3>2 DEF ValueOf, Load, Loadable
      <4> QED
        BY <1>a, <4>1, LoadLoaded, LoadedCopies, Marks
    <3> QED
      BY <3>1, <3>2
  <2>3. ValueOf(d, Damaged) = Damaged
    BY DEF ValueOf, Corrupt
  <2>4. Value' = [Value EXCEPT ![d] = Damaged]
    BY <1>a, <2>1, <2>3, ValueReplaced
  <2>5. Abstract!Damage(d)
    BY <2>1, <2>2, <2>4 DEF Abstract!Damage
  <2> QED
    BY <2>5 DEF Abstract!Next
<1>6. ASSUME NEW t \in Thread,
             \/ BeginRecovery(t) \/ BeginUpdate(t) \/ LockMutex(t) \/ LockFile(t)
             \/ LoadDocument(t) \/ SaveFails(t) \/ Unlock(t) \/ Recovered(t)
      PROVE  UNCHANGED <<file, damages>>
  BY <1>6 DEF BeginRecovery, BeginUpdate, LockMutex, LockFile, LoadDocument, SaveFails,
              Unlock, Recovered
<1>7. ASSUME NEW t \in Thread, SetAside(t) \/ RewriteDefault(t) PROVE UNCHANGED damages
  BY <1>7 DEF SetAside, RewriteDefault
<1>8. ASSUME NEW p \in Process, Kill(p) PROVE UNCHANGED <<file, damages>>
  BY <1>8 DEF Kill
<1>9. CASE UNCHANGED vars
  BY <1>1, <1>9 DEF vars
<1> QED
  BY <1>1, <1>2, <1>3, <1>4, <1>5, <1>6, <1>7, <1>8, <1>9 DEF Next, Step

\* The store implements one value per document (DocumentStore), for any number of
\* threads and processes, whatever kills and failed writes happen and whatever old
\* files there are: an update is based on the value at the moment of its rename, and
\* nothing but an update, the medium and the reset of a damaged file changes a value.
THEOREM ImplementsTheorem == Spec => Implements
<1>1. Init => Abstract!Init
  BY DEF Init, Abstract!Init
<1> QED
  BY <1>1, StoreInit, StoreStep, StepImplements, PTL DEF Spec, Implements, Abstract!Spec
===============================================================================
