------------------------------- MODULE Routing -------------------------------
(***************************************************************************)
(* What the routing settings mean, and what is rendered from them: the     *)
(* services of the catalogue and their expansion (domain/firewall.go), the *)
(* nftables table and the dnsmasq snippet that capture LAN traffic         *)
(* (openwrt/firewall.go, openwrt/dnsmasq.go), and the Xray configuration   *)
(* that routes what was captured (xray/generator.go).  Two programs decide *)
(* the path of a flow, each from its own rendering; Policy is the single   *)
(* decision they are meant to make together.                               *)
(*                                                                         *)
(* Names and addresses are members of small sets, a selector list is a set *)
(* of them, and "all" sources is the set of all hosts.                     *)
(***************************************************************************)
EXTENDS Naturals, FiniteSets, Sequences, TLC, SequencesExt

CONSTANTS
    Host,      \* LAN clients
    Dom,       \* domain names
    Ip,        \* IPv4 addresses
    Svc,       \* names a custom service may have
    Presets,   \* the built-in services and their definitions
    Families,  \* root domains that stand for a built-in service
    AddrOf,    \* what a name resolves to
    Geo,       \* country code -> the names and addresses of the country
    LocalIp,   \* private addresses
    DnsIp,     \* the addresses of the DNS servers in the settings
    None       \* no name, no table, no country

SelectorSets == [svcs : SUBSET (Svc \cup DOMAIN Presets), doms : SUBSET Dom, cidrs : SUBSET Ip]
Catalogs == UNION {[names -> SelectorSets] : names \in SUBSET Svc}

\* A built-in service includes none but built-in ones, and so does a family of names.
ASSUME ServiceAssumption ==
    /\ IsFiniteSet(Svc) /\ IsFiniteSet(DOMAIN Presets)
    /\ Presets \in [DOMAIN Presets -> [svcs : SUBSET DOMAIN Presets, doms : SUBSET Dom, cidrs : SUBSET Ip]]
    /\ \A d \in DOMAIN Families : Families[d] \in DOMAIN Presets
ASSUME AddressAssumption ==
    /\ DnsIp \subseteq Ip
    /\ Geo \in [DOMAIN Geo -> [doms : SUBSET Dom, ips : SUBSET Ip]]

Net == {"tcp", "quic", "udp"}  \* quic is udp to port 443, udp any other
Flow == [src : Host, dom : Dom \cup {None}, ip : Ip, net : Net]

Empty == [svcs |-> {}, doms |-> {}, cidrs |-> {}]
\* FirewallSelectorSetHasEntries.
HasEntries(sel) == sel # Empty

DefaultSplit == [proxy |-> Empty, bypass |-> Empty, excluded |-> {}, default |-> "direct"]

-------------------------------------------------------------------------------
(* The catalogue of services. *)

\* mergeFirewallTargetRegistry: a preset wins over a custom entry of its name.
mergeFirewallTargetRegistry(catalog) ==
    [s \in DOMAIN Presets \cup DOMAIN catalog |-> IF s \in DOMAIN Presets THEN Presets[s] ELSE catalog[s]]

\* The catalogue in which a service is defined, anew or again.
WithService(catalog, name, def) == [s \in DOMAIN catalog \cup {name} |-> IF s = name THEN def ELSE catalog[s]]

\* The services that roots include, themselves too, through any chain.
Included(registry, roots) ==
    LET upto[n \in 0..Cardinality(DOMAIN registry)] ==
            IF n = 0 THEN roots \cap DOMAIN registry
            ELSE LET closer == upto[n - 1]
                 IN closer \cup UNION {registry[s].svcs \cap DOMAIN registry : s \in closer}
    IN upto[Cardinality(DOMAIN registry)]

\* ExpandFirewallTargetDomains: a root domain of a family stands for its service.
ExpandDomains(catalog, sel) ==
    LET registry == mergeFirewallTargetRegistry(catalog)
        roots == sel.doms \cap DOMAIN Families
    IN (sel.doms \ roots)
           \cup UNION {registry[s].doms : s \in Included(registry, sel.svcs \cup {Families[d] : d \in roots})}

\* ExpandFirewallTargetCIDRs: services only, a root domain adds no address.
ExpandCIDRs(catalog, sel) ==
    LET registry == mergeFirewallTargetRegistry(catalog)
    IN sel.cidrs \cup UNION {registry[s].cidrs : s \in Included(registry, sel.svcs)}

\* targetServiceDependencyMatches, from any of the roots.
ReferenceService(roots, catalog, target) == target \in roots \cup UNION {
    {r} \cup catalog[r].svcs : r \in Included(catalog, roots)}

\* ParseFirewallTargets: a name without a dot must be a known service.
ParseFirewallTargets(sel, catalog) == sel.svcs \subseteq DOMAIN mergeFirewallTargetRegistry(catalog)

\* validateFirewallTargetCatalog: every name is known and no service includes itself.
ValidCatalog(catalog) ==
    \A s \in DOMAIN catalog :
        /\ catalog[s].svcs \subseteq DOMAIN Presets \cup DOMAIN catalog
        /\ s \notin Included(catalog, catalog[s].svcs)

\* ParseFirewallTargetDefinition.
ParseFirewallTargetDefinition(def, name, catalog) ==
    /\ name \notin DOMAIN Presets
    /\ HasEntries(def)
    /\ def.svcs \subseteq DOMAIN mergeFirewallTargetRegistry(catalog) \ {name}
    /\ ValidCatalog(WithService(catalog, name, def))

-------------------------------------------------------------------------------
(* The effective mode. *)

SplitRoutes(split) == HasEntries(split.proxy) \/ HasEntries(split.bypass) \/ split.default = "proxy"

\* What a mode needs to be the one in force.
ModeHasSelectors(fw, mode) ==
    \/ mode = "hosts" /\ fw.hosts # {}
    \/ mode = "targets" /\ HasEntries(fw.targets)
    \/ mode = "split" /\ SplitRoutes(fw.split)

FirewallRoutingEnabled(fw) == fw.enabled /\ ModeHasSelectors(fw, fw.mode)

CanonicalFirewallMode(fw) ==
    CASE ~fw.enabled -> "disabled"
      [] fw.enabled /\ ModeHasSelectors(fw, fw.mode) -> fw.mode
      [] OTHER -> IF ModeHasSelectors(fw, "hosts") THEN "hosts"
                  ELSE IF ModeHasSelectors(fw, "targets") THEN "targets"
                  ELSE IF ModeHasSelectors(fw, "split") THEN "split" ELSE "disabled"

CanonicalFirewallSettings(fw) == [fw EXCEPT !.mode = CanonicalFirewallMode(fw)]

\* transparentSelectiveCapture: only the selected targets are captured.
transparentSelectiveCapture(fw) ==
    \/ CanonicalFirewallMode(fw) = "targets"
    \/ CanonicalFirewallMode(fw) = "split" /\ fw.split.default = "direct"

-------------------------------------------------------------------------------
(* The nftables table and the dnsmasq snippet. *)

\* resolveFirewallPolicy, of canonical settings.
PolicyOf(fw, mode) ==
    LET pol(capture, excluded, proxy, bypass, default) ==
            [capture |-> capture, excluded |-> excluded,
             proxyD |-> ExpandDomains(fw.catalog, proxy), proxyC |-> ExpandCIDRs(fw.catalog, proxy),
             bypassD |-> ExpandDomains(fw.catalog, bypass), bypassC |-> ExpandCIDRs(fw.catalog, bypass),
             default |-> default]
    IN CASE mode = "hosts" -> pol(fw.hosts, {}, Empty, Empty, "proxy")
         [] mode = "targets" -> pol(Host, {}, fw.targets, Empty, "direct")
         [] mode = "split" -> pol(Host, fw.split.excluded, fw.split.proxy, fw.split.bypass, fw.split.default)
resolveFirewallPolicy(fw) == PolicyOf(fw, CanonicalFirewallMode(fw))

\* FirewallManager.Validate: what resolveFirewallPolicy refuses.
Expands(catalog, sel) == ExpandDomains(catalog, sel) # {} \/ ExpandCIDRs(catalog, sel) # {}
Validate(fw) ==
    LET mode == CanonicalFirewallMode(fw)
    IN CASE mode = "hosts" -> TRUE
         [] mode = "targets" -> Expands(fw.catalog, fw.targets)
         [] mode = "split" -> \/ fw.split.default = "proxy"
                              \/ Expands(fw.catalog, fw.split.proxy) \/ Expands(fw.catalog, fw.split.bypass)
         [] OTHER -> FALSE

HasProxyOutput(p) == p.proxyC # {} \/ p.proxyD # {}

needsDNSMasqNFTSet(p) ==
    \/ p.proxyD # {}
    \/ p.bypassD # {} /\ (HasProxyOutput(p) \/ p.default = "proxy")

\* BuildNFTablesRules: the sets of the table and what its chains look at.
BuildNFTablesRules(p, quic, port) ==
    [capture |-> p.capture, excluded |-> p.excluded, selective |-> p.default = "direct",
     proxy |-> p.proxyC, proxySet |-> HasProxyOutput(p),
     bypass |-> p.bypassC, bypassSet |-> p.bypassC # {} \/ p.bypassD # {},
     quic |-> quic, port |-> port]

\* buildDNSMasqNFTSetConfig: the names whose addresses dnsmasq adds to the sets.
NoSnippet == [proxy |-> {}, bypass |-> {}]
buildDNSMasqNFTSetConfig(p) ==
    IF needsDNSMasqNFTSet(p) THEN [proxy |-> p.proxyD, bypass |-> p.bypassD] ELSE NoSnippet

\* The chains: a set holds its addresses and those of the names resolved for it.
InSet(present, cidrs, names, ip) == present /\ (ip \in cidrs \/ \E d \in names : AddrOf[d] = ip)
Captured(nft, snippet, f) ==
    /\ nft # None
    /\ f.src \in nft.capture \ nft.excluded
    /\ f.ip \notin LocalIp
    /\ ~InSet(nft.bypassSet, nft.bypass, snippet.bypass, f.ip)
    /\ nft.selective => InSet(nft.proxySet, nft.proxy, snippet.proxy, f.ip)
    /\ f.net = "udp" => ~nft.quic

-------------------------------------------------------------------------------
(* The Xray configuration. *)

\* backendConfigRequest: its selectors follow the stored mode, not the canonical one.
RequestOf(fw, split) ==
    [default |-> IF fw.mode = "targets" THEN "direct" ELSE IF fw.mode = "split" THEN split.default ELSE "proxy",
     proxyD |-> ExpandDomains(fw.catalog, split.proxy), proxyC |-> ExpandCIDRs(fw.catalog, split.proxy),
     bypassD |-> ExpandDomains(fw.catalog, split.bypass), bypassC |-> ExpandCIDRs(fw.catalog, split.bypass)]
backendConfigRequest(fw) ==
    RequestOf(fw, CASE fw.mode = "targets" -> [DefaultSplit EXCEPT !.proxy = fw.targets]
                    [] fw.mode = "split" -> fw.split
                    [] OTHER -> DefaultSplit)

\* A rule of the routing section: a pair of rules, one per network, in the code.
Rule(by, items, tcp, udp) == [by |-> by, items |-> items, tcp |-> tcp, udp |-> udp]
ProxiedUDP(quic) == IF quic THEN "block" ELSE "proxy"
\* transparentDomainRules and transparentIPRules: none for an empty list.
SelectorRules(doms, cidrs, tcp, udp) ==
    (IF doms = {} THEN <<>> ELSE <<Rule("name", doms, tcp, udp)>>)
        \o (IF cidrs = {} THEN <<>> ELSE <<Rule("ip", cidrs, tcp, udp)>>)

\* localDNSRuntimeEnabled: Xray answers the DNS of the LAN.
localDNSRuntimeEnabled(dns) == dns = "remote"

\* directDNSRouteRules: the DNS servers are reached directly, before any other rule.
directDNSRouteRules(dns) == IF localDNSRuntimeEnabled(dns) THEN <<Rule("ip", DnsIp, "direct", "direct")>> ELSE <<>>

\* countryDirectRules: names where the database has them, and addresses.
countryDirectRules(country) ==
    IF country.on THEN SelectorRules(Geo[country.code].doms, Geo[country.code].ips, "direct", "direct") ELSE <<>>

\* transparentFallbackRules: the default action.
transparentFallbackRules(default, quic) ==
    <<IF default = "proxy" THEN Rule("any", {}, "proxy", ProxiedUDP(quic)) ELSE Rule("any", {}, "direct", "direct")>>

\* transparentSelectiveRoutingRules: what was captured is what was selected.
transparentSelectiveRoutingRules(req, country, quic) ==
    countryDirectRules(country)
        \o SelectorRules(req.bypassD, req.bypassC, "direct", "direct")
        \o transparentFallbackRules("proxy", quic)

transparentRoutingRules(req, country, quic, selective) ==
    IF selective THEN transparentSelectiveRoutingRules(req, country, quic)
    ELSE countryDirectRules(country)
             \o SelectorRules(req.bypassD, req.bypassC, "direct", "direct")
             \o SelectorRules(req.proxyD, req.proxyC, "proxy", ProxiedUDP(quic))
             \o transparentFallbackRules(req.default, quic)

Rules == [by : {"name", "ip", "any"}, items : SUBSET (Dom \cup Ip),
          tcp : {"direct", "proxy"}, udp : {"direct", "proxy", "block"}]

\* Generate: the inbounds and the rules that decide about captured traffic.
Generate(s, quic) ==
    [port |-> IF FirewallRoutingEnabled(s.fw) THEN s.fw.port ELSE None,
     dns |-> localDNSRuntimeEnabled(s.dns),
     rules |-> directDNSRouteRules(s.dns)
                   \o transparentRoutingRules(backendConfigRequest(s.fw), s.country, quic, transparentSelectiveCapture(s.fw))]

\* Sniffing shows Xray the name in http, tls and quic.
Sniffed(f) == IF f.net = "udp" THEN None ELSE f.dom
Matches(r, f) ==
    \/ r.by = "any"
    \/ r.by = "name" /\ Sniffed(f) \in r.items
    \/ r.by = "ip" /\ f.ip \in r.items
\* Xray takes the first rule that matches.
XrayRoute(rules, f) ==
    LET r == rules[SelectInSeq(rules, LAMBDA x : Matches(x, f))]
    IN IF f.net = "tcp" THEN r.tcp ELSE r.udp

-------------------------------------------------------------------------------
(* The path of a flow, and the path the settings ask for. *)

\* A captured flow is lost when nothing listens on the port it is redirected to.
RouteOf(nft, snippet, xray, f) ==
    IF ~Captured(nft, snippet, f) THEN "direct"
    ELSE IF xray = None THEN "dead"
    ELSE IF xray.port # nft.port THEN "dead"
    ELSE XrayRoute(xray.rules, f)

\* The addresses a selector set selects: those listed and those of its names.
Addresses(catalog, sel) == ExpandCIDRs(catalog, sel) \cup {AddrOf[d] : d \in ExpandDomains(catalog, sel)}

\* What the selectors of the settings stand for.
Meaning(fw) ==
    [targets |-> Addresses(fw.catalog, fw.targets), proxy |-> Addresses(fw.catalog, fw.split.proxy),
     bypass |-> Addresses(fw.catalog, fw.split.bypass), names |-> ExpandDomains(fw.catalog, fw.split.bypass)]

\* Whether the settings ask for the VPN, exceptions aside.
Wanted(fw, means, f) ==
    \/ fw.mode = "hosts" /\ f.src \in fw.hosts
    \/ fw.mode = "targets" /\ f.ip \in means.targets
    \/ /\ fw.mode = "split"
       /\ f.src \notin fw.split.excluded
       /\ f.ip \notin means.bypass /\ Sniffed(f) \notin means.names
       /\ fw.split.default = "proxy" \/ f.ip \in means.proxy

\* What is never sent through the VPN, whatever the selectors say.
Exempt(s, f) ==
    \/ f.ip \in LocalIp
    \/ s.dns = "remote" /\ f.ip \in DnsIp
    \/ s.country.on /\ (f.ip \in Geo[s.country.code].ips \/ Sniffed(f) \in Geo[s.country.code].doms)

\* With QUIC blocked, other UDP is not captured at all.
Policy(s, means, quic, f) ==
    IF ~FirewallRoutingEnabled(s.fw) \/ ~Wanted(s.fw, means, f) \/ Exempt(s, f) \/ (quic /\ f.net = "udp") THEN "direct"
    ELSE IF quic /\ f.net = "quic" THEN "block" ELSE "proxy"
===============================================================================
