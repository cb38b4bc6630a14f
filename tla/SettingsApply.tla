---------------------------- MODULE SettingsApply ----------------------------
(***************************************************************************)
(* The operations that change routing, DNS and country settings: each      *)
(* loads, checks and saves the settings under the store lock and then, for *)
(* most of them, reapplies the current connection: IPv6, Xray, dnsmasq,    *)
(* nftables, one call after the other.  A call may fail and the process    *)
(* may be killed between two of them; only a change of the country routing *)
(* is taken back.                                                          *)
(*                                                                         *)
(* The panel reads the settings without the lock and writes them later.    *)
(* How a connection is made is module RouteSwitch; here Connect is one     *)
(* step and succeeds.                                                      *)
(***************************************************************************)
EXTENDS Routing

CONSTANTS
    Selections,  \* the selector sets users enter
    Sources,     \* the sets of LAN sources users enter
    Catalog,     \* the custom services the settings hold at the start
    Definitions, \* the definitions users give a custom service
    Ports,       \* transparent ports
    MaxOps,      \* operations begun
    MaxFaults    \* calls that fail and processes that are killed

ASSUME SettingsBounds == {MaxOps, MaxFaults} \subseteq Nat /\ Ports \subseteq Nat /\ Ports # {}
ASSUME InputAssumption ==
    /\ Selections \subseteq SelectorSets /\ Definitions \subseteq SelectorSets /\ Sources \subseteq SUBSET Host
    /\ Catalog \in Catalogs /\ ValidCatalog(Catalog)

Reasons == {"failed", "late quic", "unapplied patch", "ipv6 left off"}
Steps == {"save", "ipv6", "xray", "dns", "nft", "snippet", "nft off", "snippet off", "dns off", "xray off",
          "ipv6 on", "ipv6 off", "disconnected"}

\* The settings, the operation in progress, the configuration of Xray and the nftables table.
Splits == [proxy : SelectorSets, bypass : SelectorSets, excluded : SUBSET Host, default : {"proxy", "direct"}]
Firewalls ==
    [enabled : BOOLEAN, mode : {"disabled", "hosts", "targets", "split"}, hosts : SUBSET Host, targets : SelectorSets,
     split : Splits, catalog : Catalogs,
     drafts : [targets : SelectorSets, proxy : SelectorSets, bypass : SelectorSets],
     quic : BOOLEAN, noV6 : BOOLEAN, port : Ports]
Settings == [fw : Firewalls, country : [on : BOOLEAN, code : DOMAIN Geo \cup {None}], dns : {"system", "remote"}]
Ops == {"targets", "split", "bypass", "hosts", "port", "quic", "ipv6", "disable", "draft", "service", "country",
        "patch", "setting", "dns", "disconnect"}
Jobs == [op : Ops, new : Settings, todo : Seq(Steps), prev : Settings, back : BOOLEAN]
Configs == [port : Ports \cup {None}, dns : BOOLEAN, rules : Seq(Rules)]
Tables == [capture : SUBSET Host, excluded : SUBSET Host, selective : BOOLEAN, proxy : SUBSET Ip, proxySet : BOOLEAN,
           bypass : SUBSET Ip, bypassSet : BOOLEAN, quic : BOOLEAN, port : Ports]

\* An operation, a configuration and a table are something, and so is a country.
ASSUME NoneAssumption ==
    None \notin Jobs /\ None \notin Configs /\ None \notin Tables /\ None \notin DOMAIN Geo

VARIABLES
    cfg,        \* settings.json
    conn,       \* state.json: connected through a node
    vision,     \* some subscription has a Reality or Vision node
    xray,       \* the configuration Xray runs, or None
    nft,        \* the loaded nftables table, or None
    snippet,    \* the names in the dnsmasq nftset snippet
    dns,        \* dnsmasq forwards to the DNS inbound of Xray
    ipv6,       \* the router speaks IPv6
    job,        \* the operation that holds the store lock, or None
    panel,      \* the bypass lists the panel has read, or None
    unsettled,  \* history: why the runtime may not follow the settings
    faults, ops

vars == <<cfg, conn, vision, xray, nft, snippet, dns, ipv6, job, panel, unsettled, faults, ops>>
runtime == <<xray, nft, snippet, dns, ipv6>>

-------------------------------------------------------------------------------
(* Settings. *)

\* The firewall part of DefaultSettings.
DefaultFirewall ==
    [enabled |-> TRUE, mode |-> "split", hosts |-> {}, targets |-> Empty,
     split |-> [DefaultSplit EXCEPT !.default = "proxy"], catalog |-> Catalog,
     drafts |-> [targets |-> Empty, proxy |-> Empty, bypass |-> Empty],
     quic |-> FALSE, noV6 |-> FALSE, port |-> CHOOSE p \in Ports : TRUE]

Init ==
    /\ \E country \in {[on |-> FALSE, code |-> None]} \cup [on : {TRUE}, code : DOMAIN Geo] :
           cfg = [fw |-> DefaultFirewall, country |-> country, dns |-> "remote"]
    /\ conn = FALSE /\ vision = FALSE /\ job = None /\ panel = None
    /\ xray = None /\ nft = None /\ snippet = NoSnippet /\ dns = FALSE /\ ipv6 = TRUE
    /\ unsettled = {} /\ faults = 0 /\ ops = 0

\* managedTransparentBlockQUIC: asked for, or needed by a node of any subscription.
managedTransparentBlockQUIC(fw) == fw.quic \/ vision

-------------------------------------------------------------------------------
(* Operations: everything up to SaveSettings reads and checks only. *)

\* Mutant: dnsmasq is left alone when the settings use the system resolvers.
ApplyKeepsDNS(s) ==
    (IF s.fw.noV6 THEN <<"ipv6">> ELSE <<>>) \o (IF s.dns = "remote" THEN <<"xray", "dns">> ELSE <<"xray">>)
        \o (IF FirewallRoutingEnabled(s.fw) THEN <<"nft", "snippet">> ELSE <<"nft off", "snippet off">>)

\* The calls of applyNodeSelection with forceStaticReload.
applyNodeSelection(s) ==
    (IF s.fw.noV6 THEN <<"ipv6">> ELSE <<>>) \o <<"xray", "dns">>
        \o (IF FirewallRoutingEnabled(s.fw) THEN <<"nft", "snippet">> ELSE <<"nft off", "snippet off">>)

\* stopProxyTransport.
stopProxyTransport == <<"nft off", "snippet off", "dns off", "xray off">>

\* reapplyCurrentConnectionWithReload.
reapplyCurrentConnectionWithReload(s) == IF conn THEN applyNodeSelection(s) ELSE stopProxyTransport

Begin(op, new, then) ==
    /\ job = None /\ ops < MaxOps
    /\ job' = [op |-> op, new |-> new, todo |-> <<"save">> \o then, prev |-> cfg, back |-> FALSE]
    /\ ops' = ops + 1
    /\ UNCHANGED <<cfg, conn, vision, runtime, unsettled, faults>>

\* An operation on the firewall settings that is validated and reapplied.
Reconfigure(op, fw) ==
    \E new \in {[cfg EXCEPT !.fw = fw]} :
        Validate(new.fw) = TRUE /\ Begin(op, new, reapplyCurrentConnectionWithReload(new))

\* configureFirewallTargets; enabled is FALSE in no call Validate accepts.
ConfigureFirewall(sel) ==
    /\ ParseFirewallTargets(sel, cfg.fw.catalog)
    /\ Reconfigure("targets", [cfg.fw EXCEPT !.enabled = TRUE, !.mode = "targets", !.hosts = {}, !.targets = sel,
                                             !.split = DefaultSplit, !.drafts.targets = sel])
    /\ UNCHANGED panel

\* configureFirewallSplit.
configureFirewallSplit(op, proxy, bypass, excluded, default) ==
    /\ ParseFirewallTargets(proxy, cfg.fw.catalog) /\ ParseFirewallTargets(bypass, cfg.fw.catalog)
    /\ Reconfigure(op, [cfg.fw EXCEPT !.enabled = TRUE, !.mode = "split", !.hosts = {}, !.targets = Empty,
           !.split = [proxy |-> proxy, bypass |-> bypass, excluded |-> excluded, default |-> default],
           !.drafts.proxy = proxy, !.drafts.bypass = bypass])
ConfigureFirewallSplit(proxy, bypass, excluded) ==
    configureFirewallSplit("split", proxy, bypass, excluded, "direct") /\ UNCHANGED panel
ConfigureFirewallBypass(bypass, excluded) ==
    configureFirewallSplit("bypass", Empty, bypass, excluded, "proxy") /\ UNCHANGED panel

\* configureFirewallHosts.
ConfigureFirewallHosts(hosts) ==
    /\ Reconfigure("hosts", [cfg.fw EXCEPT !.enabled = TRUE, !.mode = "hosts", !.hosts = hosts, !.targets = Empty,
                                           !.split = DefaultSplit])
    /\ UNCHANGED panel

\* updateFirewallPort and updateFirewallBlockQUIC.
UpdateFirewallPort(p) ==
    Reconfigure("port", [CanonicalFirewallSettings(cfg.fw) EXCEPT !.port = p]) /\ UNCHANGED panel
UpdateFirewallBlockQUIC(on) ==
    Reconfigure("quic", [CanonicalFirewallSettings(cfg.fw) EXCEPT !.quic = on]) /\ UNCHANGED panel

\* updateFirewallDisableIPv6: saved first, then applied; no reload.
UpdateFirewallDisableIPv6(off) ==
    /\ Begin("ipv6", [cfg EXCEPT !.fw = [CanonicalFirewallSettings(cfg.fw) EXCEPT !.noV6 = off]],
             <<IF off THEN "ipv6 off" ELSE "ipv6 on">>)
    /\ UNCHANGED panel

\* disableFirewall: not validated.
DisableFirewall ==
    /\ LET new == [cfg EXCEPT !.fw = [cfg.fw EXCEPT !.enabled = FALSE, !.mode = "disabled", !.hosts = {},
                                                    !.targets = Empty, !.split = DefaultSplit]]
       IN Begin("disable", new, reapplyCurrentConnectionWithReload(new))
    /\ UNCHANGED panel

\* updateFirewallModeDraft, updateFirewallSplitDraft and clearFirewallModeDraft: saved, not applied.
UpdateDraft(field, sel) ==
    /\ ParseFirewallTargets(sel, cfg.fw.catalog)
    /\ Begin("draft", [cfg EXCEPT !.fw.drafts[field] = sel], <<>>)
    /\ UNCHANGED panel

\* activeFirewallReferencesService.
ActiveReferences(fw, name) ==
    LET roots == CASE CanonicalFirewallMode(fw) = "targets" -> fw.targets.svcs
                   [] CanonicalFirewallMode(fw) = "split" -> fw.split.proxy.svcs \cup fw.split.bypass.svcs
                   [] OTHER -> {}
    IN fw.enabled /\ ReferenceService(roots, fw.catalog, name)

\* Mutant: only a service the policy names itself is reapplied.
SetServiceNamed(name, def) ==
    /\ ParseFirewallTargetDefinition(def, name, cfg.fw.catalog)
    /\ LET new == [cfg EXCEPT !.fw.catalog = WithService(@, name, def)]
           named == name \in cfg.fw.targets.svcs \cup cfg.fw.split.proxy.svcs \cup cfg.fw.split.bypass.svcs
       IN /\ Validate(new.fw) = TRUE
          /\ Begin("service", new, IF named THEN reapplyCurrentConnectionWithReload(new) ELSE <<>>)

\* setFirewallTargetService: reapplied when the policy in force reaches the service.
SetFirewallTargetService(name, def) ==
    /\ ParseFirewallTargetDefinition(def, name, cfg.fw.catalog)
    /\ \E new \in {[cfg EXCEPT !.fw.catalog = WithService(@, name, def)]} :
           /\ Validate(new.fw) = TRUE
           /\ Begin("service", new, IF ActiveReferences(cfg.fw, name)
                                    THEN reapplyCurrentConnectionWithReload(new) ELSE <<>>)

\* The selector sets that name services: those in force and the saved drafts.
ReferringSets(fw) == {fw.targets, fw.split.proxy, fw.split.bypass, fw.drafts.targets, fw.drafts.proxy, fw.drafts.bypass}

\* Mutant: a service that another one includes may be deleted.
DeletableUnlessListed(fw, name) ==
    \A sel \in ReferringSets(fw) : ~ReferenceService(sel.svcs, fw.catalog, name)

\* The guards of deleteFirewallTargetService.
Deletable(fw, name) ==
    /\ \A sel \in ReferringSets(fw) : ~ReferenceService(sel.svcs, fw.catalog, name)
    /\ \A s \in DOMAIN fw.catalog \ {name} : ~ReferenceService({s}, fw.catalog, name)

\* deleteFirewallTargetService.
DeleteFirewallTargetService(name) ==
    /\ name \in DOMAIN cfg.fw.catalog
    /\ Deletable(cfg.fw, name)
    /\ \E new \in {[cfg EXCEPT !.fw.catalog = [s \in DOMAIN @ \ {name} |-> @[s]]]} :
           Validate(new.fw) = TRUE /\ Begin("service", new, <<>>)

\* Country routing is useless without interception: enabling it enables the
\* default policy where routing is disabled.
EnsureFirewall(s) ==
    IF s.country.on /\ ~s.fw.enabled
    THEN [s EXCEPT !.fw.enabled = TRUE, !.fw.mode = "split", !.fw.hosts = {}, !.fw.targets = Empty,
                   !.fw.split = [DefaultSplit EXCEPT !.default = "proxy"]]
    ELSE s

\* CanonicalCountryRouting: a country is required to enable it.
CanonicalCountryRouting(c) == c.on => c.code # None

\* PatchSettings with a country key, and setSetting country-routing.enabled.
PatchCountry(on, code) ==
    /\ CanonicalCountryRouting([on |-> on, code |-> code])
    /\ LET new == EnsureFirewall([cfg EXCEPT !.country = [on |-> on, code |-> code]])
       IN Begin("country", new, reapplyCurrentConnectionWithReload(new))
    /\ UNCHANGED panel

\* setSetting country-routing.country: reapplied while country routing is on.
SetCountry(code) ==
    /\ LET new == [cfg EXCEPT !.country.code = code]
       IN Begin("country", new, IF new.country.on THEN reapplyCurrentConnectionWithReload(new) ELSE <<>>)
    /\ UNCHANGED panel

\* PatchSettings without a country key: saved, never reapplied.
PatchSettings ==
    /\ Begin("patch", EnsureFirewall(cfg), <<>>)
    /\ UNCHANGED panel

\* setSetting of a key that does not route: saved, and for log-level and the lists of
\* DNS servers reapplied.
SetSetting ==
    /\ \E then \in {<<>>, reapplyCurrentConnectionWithReload(cfg)} : Begin("setting", cfg, then)
    /\ UNCHANGED panel

\* setSetting dns.mode, updateDNS and applyDefaultDNS.
UpdateDNS(mode) ==
    /\ LET new == [cfg EXCEPT !.dns = mode] IN Begin("dns", new, reapplyCurrentConnectionWithReload(new))
    /\ UNCHANGED panel

-------------------------------------------------------------------------------
(* The routing page of the panel. *)

\* routingGroupToggle reads the settings without the store lock (during an
\* operation it sees what it could have read before or after it) ...
PanelRead ==
    /\ panel = None /\ job = None /\ ops < MaxOps
    /\ panel' = [bypass |-> cfg.fw.split.bypass, excluded |-> cfg.fw.split.excluded]
    /\ UNCHANGED <<cfg, conn, vision, runtime, job, unsettled, faults, ops>>

\* ... and sends the whole list back, with the group added or removed.
routingGroupToggle(name, on) ==
    /\ panel # None
    /\ configureFirewallSplit("bypass", Empty, [panel.bypass EXCEPT !.svcs = IF on THEN @ \cup {name} ELSE @ \ {name}],
                              panel.excluded, "proxy")
    /\ panel' = None

-------------------------------------------------------------------------------
(* The calls of an operation. *)

\* What a call leaves behind when it succeeds: IPv6Manager.Apply,
ipv6Apply(step) ==
    ipv6' = IF step \in {"ipv6", "ipv6 off"} THEN FALSE ELSE IF step = "ipv6 on" THEN TRUE ELSE ipv6
\* ApplyConfig of the rendered configuration, or the end of Xray,
applyConfig(step) ==
    xray' = IF step = "xray" THEN Generate(cfg, managedTransparentBlockQUIC(cfg.fw))
            ELSE IF step = "xray off" THEN None ELSE xray
\* DNSRuntimeManager.Apply and Disable,
dnsApply(step) ==
    dns' = IF step = "dns" THEN localDNSRuntimeEnabled(cfg.dns) ELSE IF step = "dns off" THEN FALSE ELSE dns
\* FirewallManager.Apply and Disable, and their last step, the dnsmasq snippet.
firewallApply(step) ==
    nft' = IF step = "nft"
           THEN BuildNFTablesRules(resolveFirewallPolicy(cfg.fw), managedTransparentBlockQUIC(cfg.fw), cfg.fw.port)
           ELSE IF step = "nft off" THEN None ELSE nft
syncDNSMasqTargets(step) ==
    snippet' = IF step = "snippet" THEN buildDNSMasqNFTSetConfig(resolveFirewallPolicy(cfg.fw))
               ELSE IF step = "snippet off" THEN NoSnippet ELSE snippet

Do(step) ==
    /\ cfg' = IF step = "save" THEN job.new ELSE cfg
    /\ conn' = (conn /\ step # "disconnected")
    /\ ipv6Apply(step) /\ applyConfig(step) /\ dnsApply(step) /\ firewallApply(step) /\ syncDNSMasqTargets(step)

\* The last call of a reapply settles the runtime; the last save of an operation
\* without one settles nothing.
Settled(step) ==
    CASE step \in {"snippet", "xray off", "disconnected"} -> unsettled \cap {"ipv6 left off"}
      [] step = "snippet off" /\ Len(job.todo) = 1 -> unsettled \cap {"ipv6 left off"}
      [] step = "ipv6 on" -> unsettled \ {"ipv6 left off"}
      [] step = "save" /\ job.op = "patch" /\ conn /\ job.new.fw # cfg.fw -> unsettled \cup {"unapplied patch"}
      [] OTHER -> unsettled

Step ==
    /\ job # None
    /\ Do(Head(job.todo))
    /\ unsettled' = Settled(Head(job.todo))
    /\ job' = IF Len(job.todo) = 1 THEN None ELSE [job EXCEPT !.todo = Tail(@)]
    /\ UNCHANGED <<vision, panel, faults, ops>>

\* Why the runtime may differ from the settings once the operation stops here.
Broken == IF Head(job.todo) = "ipv6 on" THEN {"ipv6 left off"} ELSE {"failed"}

\* Mutant: the previous settings are reapplied without being saved.
ReapplyOnly(j) == [j EXCEPT !.new = j.prev, !.back = TRUE, !.todo = reapplyCurrentConnectionWithReload(j.prev)]

\* restoreSettingsRuntime.
restoreSettingsRuntime(j) ==
    [j EXCEPT !.new = j.prev, !.back = TRUE, !.todo = <<"save">> \o reapplyCurrentConnectionWithReload(j.prev)]

\* A call that fails had its effect, none of it, or (nft) removed the old
\* table; a failed save changes nothing.  A change of the country routing is taken back,
\* once it was saved.
StepFails ==
    /\ job # None /\ faults < MaxFaults
    /\ faults' = faults + 1
    /\ LET step == Head(job.todo)
       IN /\ \/ UNCHANGED <<cfg, conn, runtime>>
             \/ step \notin {"save", "disconnected"} /\ Do(step)
             \/ step = "nft" /\ nft' = None /\ UNCHANGED <<cfg, conn, xray, snippet, dns, ipv6>>
          /\ IF job.op = "country" /\ ~job.back /\ step # "save"
             THEN job' = restoreSettingsRuntime(job) /\ unsettled' = unsettled
             ELSE job' = None /\ unsettled' = unsettled \cup IF step = "save" /\ ~job.back THEN {} ELSE Broken
    /\ UNCHANGED <<vision, panel, ops>>

\* The process is killed; the lock goes with it.
Kill ==
    /\ job # None /\ faults < MaxFaults
    /\ faults' = faults + 1
    /\ job' = None
    /\ unsettled' = unsettled \cup IF Head(job.todo) = "save" /\ ~job.back THEN {} ELSE Broken
    /\ UNCHANGED <<cfg, conn, vision, runtime, panel, ops>>

-------------------------------------------------------------------------------
(* What else changes the runtime or what is rendered. *)

\* A connection is made: everything is rendered from the saved settings.
Connect ==
    /\ job = None /\ ~conn
    /\ conn' = TRUE
    /\ ipv6' = (ipv6 /\ ~cfg.fw.noV6)
    /\ xray' = Generate(cfg, managedTransparentBlockQUIC(cfg.fw))
    /\ dns' = localDNSRuntimeEnabled(cfg.dns)
    /\ IF FirewallRoutingEnabled(cfg.fw)
       THEN /\ nft' = BuildNFTablesRules(resolveFirewallPolicy(cfg.fw), managedTransparentBlockQUIC(cfg.fw), cfg.fw.port)
            /\ snippet' = buildDNSMasqNFTSetConfig(resolveFirewallPolicy(cfg.fw))
       ELSE nft' = None /\ snippet' = NoSnippet
    /\ unsettled' = unsettled \cap {"ipv6 left off"}
    /\ UNCHANGED <<cfg, vision, job, panel, faults, ops>>

\* disconnect: the transports are stopped before the state says so.
Disconnect ==
    /\ job = None /\ conn
    /\ job' = [op |-> "disconnect", new |-> cfg, todo |-> stopProxyTransport \o <<"disconnected">>, prev |-> cfg, back |-> FALSE]
    /\ UNCHANGED <<cfg, conn, vision, runtime, panel, unsettled, faults, ops>>

\* A subscription with a Reality or Vision node is added or removed.
SubscriptionChanges ==
    /\ job = None /\ ops < MaxOps
    /\ vision' = ~vision
    /\ unsettled' = IF conn THEN unsettled \cup {"late quic"} ELSE unsettled
    /\ ops' = ops + 1
    /\ UNCHANGED <<cfg, conn, runtime, job, panel, faults>>

Next ==
    \/ \E sel \in Selections : ConfigureFirewall(sel)
    \/ \E p, b \in Selections, x \in Sources : ConfigureFirewallSplit(p, b, x)
    \/ \E b \in Selections, x \in Sources : ConfigureFirewallBypass(b, x)
    \/ \E h \in Sources : ConfigureFirewallHosts(h)
    \/ \E p \in Ports : UpdateFirewallPort(p)
    \/ \E on \in BOOLEAN : UpdateFirewallBlockQUIC(on) \/ UpdateFirewallDisableIPv6(on)
    \/ DisableFirewall
    \/ \E field \in {"targets", "proxy", "bypass"}, sel \in Selections : UpdateDraft(field, sel)
    \/ \E s \in Svc, def \in Definitions : SetFirewallTargetService(s, def) /\ UNCHANGED panel
    \/ \E s \in Svc : DeleteFirewallTargetService(s) /\ UNCHANGED panel
    \/ \E on \in BOOLEAN, code \in DOMAIN Geo \cup {None} : PatchCountry(on, code)
    \/ \E code \in DOMAIN Geo : SetCountry(code)
    \/ PatchSettings \/ SetSetting
    \/ \E mode \in {"system", "remote"} : UpdateDNS(mode)
    \/ PanelRead
    \/ \E s \in Svc, on \in BOOLEAN : routingGroupToggle(s, on)
    \/ Step \/ StepFails \/ Kill
    \/ Connect \/ Disconnect \/ SubscriptionChanges

Spec == Init /\ [][Next]_vars

-------------------------------------------------------------------------------
(* Properties. *)

\* Types of the settings, of what is rendered from them and of the operation in progress,
\* which always has a call left; only a change of the country routing goes back, to the
\* settings it found (restoreSettingsRuntime, service.go:3066).
TypeOK ==
    /\ cfg \in Settings /\ {conn, vision, dns, ipv6} \subseteq BOOLEAN
    /\ xray \in Configs \cup {None} /\ nft \in Tables \cup {None}
    /\ snippet \in [proxy : SUBSET Dom, bypass : SUBSET Dom]
    /\ job # None => job \in Jobs /\ job.todo # <<>> /\ (job.back => job.op = "country" /\ job.new = job.prev)
    /\ panel # None => panel \in [bypass : SelectorSets, excluded : SUBSET Host]
    /\ unsettled \subseteq Reasons /\ faults \in 0..MaxFaults /\ ops \in 0..MaxOps

\* Between operations, nftables, dnsmasq and Xray together send every flow the
\* way the saved settings ask for, and directly while disconnected
\* (applyNodeSelection, service.go:4241-4281, and the operations that save without
\* reapplying, service.go:2135-2238), except after a failed call or a kill, a
\* subscription that changed the need to block QUIC (service.go:3826), or a
\* patch that enabled the firewall without applying it (service.go:2795).
RoutesAsSaved ==
    job = None /\ unsettled \subseteq {"ipv6 left off"} =>
        LET means == Meaning(cfg.fw)
        IN \A f \in Flow : RouteOf(nft, snippet, xray, f) =
               IF conn THEN Policy(cfg, means, managedTransparentBlockQUIC(cfg.fw), f) ELSE "direct"

\* Between operations dnsmasq forwards to Xray exactly when Xray answers DNS
\* (applyNodeSelection reloads Xray before dnsmasq, stopProxyTransport stops it
\* after dnsmasq: service.go:4241, 5257), and while connected IPv6 is off when the
\* settings say so and on when they do not; failed calls and kills aside, of which a
\* failure to turn IPv6 on is never repaired (ensureManagedIPv6State only turns it
\* off, service.go:5809).
RouterFollows ==
    job = None =>
        /\ "failed" \notin unsettled => (dns <=> xray # None /\ xray.dns)
        /\ conn /\ cfg.fw.noV6 /\ "failed" \notin unsettled => ~ipv6
        /\ conn /\ ~cfg.fw.noV6 /\ unsettled \cap {"failed", "ipv6 left off"} = {} => ipv6

\* Every service that the policy, a draft or another service names exists, and no
\* service includes itself: deleting and redefining services, also from a panel
\* that read the settings before another change, keeps the catalogue whole
\* (service.go:2180-2238, domain/firewall.go:558-604).
NoDanglingService ==
    /\ ValidCatalog(cfg.fw.catalog)
    /\ \A sel \in ReferringSets(cfg.fw) : ParseFirewallTargets(sel, cfg.fw.catalog)

\* A country change that failed once leaves the settings it found, and a runtime
\* reapplied from them (restoreSettingsRuntime, service.go:3066), unless the
\* process was killed.
CountryAllOrNothing ==
    [][job # None /\ job.back /\ job' = None /\ faults' = faults
           => cfg' = job.prev /\ "failed" \notin unsettled' /\ "unapplied patch" \notin unsettled']_vars
===============================================================================
