------------------------ MODULE SettingsApply_proofs ------------------------
(***************************************************************************)
(* Proofs about modules Routing and SettingsApply.                         *)
(*                                                                         *)
(* RenderingsAgree: for one set of settings, the table, the snippet and    *)
(* the Xray configuration rendered from it route every flow as the         *)
(* settings ask.  Alike: when settings that differ are rendered the same,  *)
(* which is what makes it right to save without a reapply.                 *)
(*                                                                         *)
(* The rest is induction over the steps.  Base says which calls the        *)
(* operation in progress has left (Left), that they fit the connection     *)
(* and what is saved (Shape), and that every saved policy is usable        *)
(* (Sane).  On it rest three independent invariants that follow the calls  *)
(* one by one: Forwarding (dnsmasq and Xray), Addressing (IPv6) and        *)
(* Rendering (what Xray, nftables and dnsmasq were given).                 *)
(***************************************************************************)
EXTENDS SettingsApply, FiniteSetTheorems, NaturalsInduction, WellFoundedInduction, SequenceTheorems, TLAPS

-------------------------------------------------------------------------------
(* What a service includes: the least set that is closed. *)

\* A set of naturals with 0 and every successor holds all of them.
LEMMA AllNaturals ==
  ASSUME NEW S, S \subseteq Nat, 0 \in S, \A n \in S : n + 1 \in S
  PROVE  S = Nat
  <1> DEFINE T == Nat \ S
             R == OpToRel(<, Nat)
  <1> SUFFICES ASSUME T # {} PROVE FALSE
    OBVIOUS
  <1>1. \E i \in T : \A j \in T : ~(<<j, i>> \in R)
    <2>1. T \subseteq Nat
      OBVIOUS
    <2> HIDE DEF T, R
    <2>2. IsWellFoundedOn(R, Nat)
      BY NatLessThanWellFounded DEF R
    <2> QED
      BY <2>1, <2>2, WFMin
  <1>2. PICK i \in T : \A j \in T : ~(<<j, i>> \in R)
    BY <1>1
  <1>3. \A j \in T : ~(j < i)
    BY <1>2 DEF OpToRel
  <1>4. i \in Nat /\ i # 0
    OBVIOUS
  <1>5. i - 1 \in Nat /\ i - 1 < i /\ (i - 1) + 1 = i
    BY <1>4
  <1>6. i - 1 \in S
    BY <1>3, <1>5
  <1> QED
    BY <1>5, <1>6

\* One round of inclusion, and k rounds of it.
Wider(registry, S) == S \cup UNION {registry[s].svcs \cap DOMAIN registry : s \in S}
Rounds(registry, roots, k, f) ==
    [n \in 0..k |-> IF n = 0 THEN roots \cap DOMAIN registry ELSE Wider(registry, f[n - 1])]
Closed(registry, S) == \A s \in S : registry[s].svcs \cap DOMAIN registry \subseteq S

LEMMA RoundsExist ==
  ASSUME NEW registry, NEW roots
  PROVE  \A k \in Nat : \E f : f = Rounds(registry, roots, k, f)
  <1> DEFINE S == {k \in Nat : \E f : f = Rounds(registry, roots, k, f)}
  <1>1. 0 \in S
    <2> DEFINE f == [n \in 0..0 |-> roots \cap DOMAIN registry]
    <2>1. f = Rounds(registry, roots, 0, f)
      BY DEF Rounds
    <2> QED
      BY <2>1
  <1>2. ASSUME NEW k \in S PROVE k + 1 \in S
    <2>1. PICK f : f = Rounds(registry, roots, k, f)
      OBVIOUS
    <2> DEFINE g == [n \in 0..(k + 1) |-> IF n = 0 THEN roots \cap DOMAIN registry ELSE Wider(registry, f[n - 1])]
    <2>2. \A n \in 0..k : f[n] = IF n = 0 THEN roots \cap DOMAIN registry ELSE Wider(registry, f[n - 1])
      BY <2>1 DEF Rounds
    <2>3. \A n \in 0..k : g[n] = f[n]
      <3>1. k \in Nat
        OBVIOUS
      <3>2. \A n \in 0..k : n \in 0..(k + 1)
        BY <3>1
      <3> QED
        BY <2>2, <3>2
    <2>4. \A n \in 0..(k + 1) : n # 0 => n - 1 \in 0..k
      OBVIOUS
    <2>5. g = Rounds(registry, roots, k + 1, g)
      <3> HIDE DEF g
      <3>1. g = [n \in 0..(k + 1) |-> IF n = 0 THEN roots \cap DOMAIN registry ELSE Wider(registry, f[n - 1])]
        BY DEF g
      <3> QED
        BY <3>1, <2>3, <2>4 DEF Rounds
    <2> QED
      BY <2>5
  <1> QED
    <2> HIDE DEF S
    <2>1. S \subseteq Nat
      BY DEF S
    <2>2. S = Nat
      BY <1>1, <1>2, <2>1, AllNaturals
    <2> QED
      BY <2>2 DEF S

\* The last of as many rounds as there are services.
LEMMA IncludedRounds ==
  ASSUME NEW registry, IsFiniteSet(DOMAIN registry), NEW roots
  PROVE  \E up : /\ Included(registry, roots) = up[Cardinality(DOMAIN registry)]
                 /\ up[0] = roots \cap DOMAIN registry
                 /\ \A n \in Nat : n < Cardinality(DOMAIN registry) => up[n + 1] = Wider(registry, up[n])
  <1> DEFINE N == Cardinality(DOMAIN registry)
             up == CHOOSE f : f = Rounds(registry, roots, N, f)
  <1>1. Included(registry, roots) = up[N]
    BY DEF Included, Rounds, Wider
  <1>2. N \in Nat
    BY FS_CardinalityType
  <1>3. up = Rounds(registry, roots, N, up)
    <2>1. \E f : f = Rounds(registry, roots, N, f)
      BY <1>2, RoundsExist
    <2> QED
      BY <2>1
  <1> HIDE DEF up, N
  <1>4. up[0] = roots \cap DOMAIN registry
    BY <1>2, <1>3 DEF Rounds
  <1>5. \A n \in Nat : n < N => up[n + 1] = Wider(registry, up[n])
    <2> TAKE n \in Nat
    <2> HAVE n < N
    <2>1. n + 1 \in 0..N /\ n + 1 # 0 /\ (n + 1) - 1 = n
      BY <1>2
    <2> QED
      BY <1>3, <2>1 DEF Rounds
  <1> QED
    BY <1>1, <1>4, <1>5 DEF N

\* Included is closed and is in every closed set that holds the roots.
LEMMA IncludedLeast ==
  ASSUME NEW registry, IsFiniteSet(DOMAIN registry), NEW roots
  PROVE  /\ roots \cap DOMAIN registry \subseteq Included(registry, roots)
         /\ Included(registry, roots) \subseteq DOMAIN registry
         /\ Closed(registry, Included(registry, roots))
         /\ \A C : roots \cap DOMAIN registry \subseteq C /\ Closed(registry, C) => Included(registry, roots) \subseteq C
  <1> DEFINE D == DOMAIN registry
             N == Cardinality(D)
  <1>1. PICK up : /\ Included(registry, roots) = up[N]
                  /\ up[0] = roots \cap D
                  /\ \A n \in Nat : n < N => up[n + 1] = Wider(registry, up[n])
    BY IncludedRounds
  <1>2. N \in Nat
    BY FS_CardinalityType
  <1> HIDE DEF N
  \* Every round holds the roots and only services.
  <1>3. \A k \in Nat : k <= N => roots \cap D \subseteq up[k] /\ up[k] \subseteq D
    <2> DEFINE S == {k \in Nat : k <= N => roots \cap D \subseteq up[k] /\ up[k] \subseteq D}
    <2>1. 0 \in S
      BY <1>1
    <2>2. ASSUME NEW k \in S PROVE k + 1 \in S
      <3> SUFFICES ASSUME k + 1 <= N PROVE roots \cap D \subseteq up[k + 1] /\ up[k + 1] \subseteq D
        OBVIOUS
      <3>1. k \in Nat /\ k <= N /\ k < N
        BY <1>2
      <3>2. roots \cap D \subseteq up[k] /\ up[k] \subseteq D
        BY <3>1
      <3>3. up[k + 1] = Wider(registry, up[k])
        BY <1>1, <3>1
      <3> QED
        BY <3>2, <3>3 DEF Wider
    <2> HIDE DEF S
    <2>3. S \subseteq Nat
      BY DEF S
    <2>4. S = Nat
      BY <2>1, <2>2, <2>3, AllNaturals
    <2> QED
      BY <2>4 DEF S
  \* As long as a round adds something there are more services than rounds.
  <1>4. \A k \in Nat : k <= N => Wider(registry, up[k]) = up[k] \/ Cardinality(up[k]) >= k + 1
    <2> DEFINE S == {k \in Nat : k <= N => Wider(registry, up[k]) = up[k] \/ Cardinality(up[k]) >= k + 1}
    <2>1. 0 \in S
      <3>1. up[0] \subseteq D /\ IsFiniteSet(up[0])
        BY <1>2, <1>3, FS_Subset
      <3>2. CASE up[0] = {}
        BY <3>2 DEF Wider
      <3>3. CASE up[0] # {}
        <4>1. Cardinality(up[0]) \in Nat /\ Cardinality(up[0]) # 0
          BY <3>1, <3>3, FS_CardinalityType, FS_EmptySet
        <4>2. Cardinality(up[0]) >= 0 + 1
          BY <4>1
        <4> QED
          BY <4>2
      <3> QED
        BY <3>2, <3>3
    <2>2. ASSUME NEW k \in S PROVE k + 1 \in S
      <3> SUFFICES ASSUME k + 1 <= N
                   PROVE  Wider(registry, up[k + 1]) = up[k + 1] \/ Cardinality(up[k + 1]) >= (k + 1) + 1
        OBVIOUS
      <3>1. k \in Nat /\ k + 1 \in Nat /\ k <= N /\ k < N
        BY <1>2
      <3>2. up[k + 1] = Wider(registry, up[k])
        BY <1>1, <3>1
      <3>3. CASE Wider(registry, up[k]) = up[k]
        BY <3>2, <3>3
      <3>4. CASE Wider(registry, up[k]) # up[k]
        <4>1. Cardinality(up[k]) >= k + 1
          BY <3>1, <3>4
        <4>2. up[k] \subseteq up[k + 1] /\ up[k] # up[k + 1]
          BY <3>2, <3>4 DEF Wider
        <4>3. IsFiniteSet(up[k + 1])
          BY <1>3, <3>1, FS_Subset
        <4>4. /\ IsFiniteSet(up[k]) /\ Cardinality(up[k]) <= Cardinality(up[k + 1])
              /\ Cardinality(up[k]) # Cardinality(up[k + 1])
          BY <4>2, <4>3, FS_Subset
        <4>5. Cardinality(up[k]) \in Nat /\ Cardinality(up[k + 1]) \in Nat
          BY <4>3, <4>4, FS_CardinalityType
        <4> DEFINE c == Cardinality(up[k])
                   e == Cardinality(up[k + 1])
        <4>6. c >= k + 1 /\ c <= e /\ c # e /\ c \in Nat /\ e \in Nat
          BY <4>1, <4>4, <4>5
        <4> HIDE DEF c, e
        <4>7. e >= (k + 1) + 1
          BY <3>1, <4>6
        <4> QED
          BY <4>7 DEF e
      <3> QED
        BY <3>3, <3>4
    <2> HIDE DEF S
    <2>3. S \subseteq Nat
      BY DEF S
    <2>4. S = Nat
      BY <2>1, <2>2, <2>3, AllNaturals
    <2> QED
      BY <2>4 DEF S
  <1>5. Wider(registry, up[N]) = up[N]
    <2>1. up[N] \subseteq D
      BY <1>2, <1>3
    <2>2. Cardinality(up[N]) <= N /\ IsFiniteSet(up[N])
      BY <2>1, FS_Subset DEF N
    <2>3. Cardinality(up[N]) \in Nat
      BY <2>2, FS_CardinalityType
    <2> DEFINE c == Cardinality(up[N])
    <2>4. c \in Nat /\ c <= N
      BY <2>2, <2>3
    <2> HIDE DEF c
    <2>5. ~(c >= N + 1)
      BY <1>2, <2>4
    <2> QED
      BY <1>2, <1>4, <2>5 DEF c
  <1>6. Closed(registry, up[N])
    BY <1>5 DEF Wider, Closed
  <1>7. ASSUME NEW C, roots \cap D \subseteq C, Closed(registry, C) PROVE up[N] \subseteq C
    <2> DEFINE S == {k \in Nat : k <= N => up[k] \subseteq C}
    <2>1. 0 \in S
      BY <1>1, <1>7
    <2>2. ASSUME NEW k \in S PROVE k + 1 \in S
      <3> SUFFICES ASSUME k + 1 <= N PROVE up[k + 1] \subseteq C
        OBVIOUS
      <3>1. k \in Nat /\ k <= N /\ k < N
        BY <1>2
      <3>2. up[k] \subseteq C
        BY <3>1
      <3>3. up[k + 1] = Wider(registry, up[k])
        BY <1>1, <3>1
      <3> QED
        BY <1>7, <3>2, <3>3 DEF Wider, Closed
    <2> HIDE DEF S
    <2>3. S \subseteq Nat
      BY DEF S
    <2>4. S = Nat
      BY <2>1, <2>2, <2>3, AllNaturals
    <2> QED
      BY <1>2, <2>4 DEF S
  <1> QED
    BY <1>1, <1>2, <1>3, <1>6, <1>7

-------------------------------------------------------------------------------
(* Settings and what they expand to. *)

LEMMA CatalogIs ==
  ASSUME NEW catalog \in Catalogs
  PROVE  /\ DOMAIN catalog \subseteq Svc /\ IsFiniteSet(DOMAIN catalog)
         /\ catalog \in [DOMAIN catalog -> SelectorSets]
  <1>1. PICK names \in SUBSET Svc : catalog \in [names -> SelectorSets]
    BY DEF Catalogs
  <1>2. DOMAIN catalog = names /\ DOMAIN catalog \subseteq Svc
    BY <1>1
  <1>3. IsFiniteSet(DOMAIN catalog)
    BY <1>2, ServiceAssumption, FS_Subset
  <1> QED
    BY <1>1, <1>2, <1>3

LEMMA RegistryIs ==
  ASSUME NEW catalog \in Catalogs
  PROVE  LET registry == mergeFirewallTargetRegistry(catalog)
         IN  /\ DOMAIN registry = DOMAIN Presets \cup DOMAIN catalog
             /\ IsFiniteSet(DOMAIN registry)
             /\ \A s \in DOMAIN Presets : registry[s] = Presets[s]
             /\ \A s \in DOMAIN catalog \ DOMAIN Presets : registry[s] = catalog[s]
             /\ \A s \in DOMAIN registry : registry[s].doms \subseteq Dom /\ registry[s].cidrs \subseteq Ip
  <1> DEFINE registry == mergeFirewallTargetRegistry(catalog)
  <1>1. DOMAIN registry = DOMAIN Presets \cup DOMAIN catalog
    BY DEF mergeFirewallTargetRegistry
  <1>2. IsFiniteSet(DOMAIN registry)
    <2>1. IsFiniteSet(DOMAIN Presets) /\ IsFiniteSet(DOMAIN catalog)
      BY CatalogIs, ServiceAssumption
    <2>2. IsFiniteSet(DOMAIN Presets \cup DOMAIN catalog)
      BY <2>1, FS_Union
    <2> QED
      BY <1>1, <2>2
  <1>3. \A s \in DOMAIN Presets : registry[s] = Presets[s]
    BY DEF mergeFirewallTargetRegistry
  <1>4. \A s \in DOMAIN catalog \ DOMAIN Presets : registry[s] = catalog[s]
    BY DEF mergeFirewallTargetRegistry
  <1>5. \A s \in DOMAIN Presets : Presets[s].doms \subseteq Dom /\ Presets[s].cidrs \subseteq Ip
    BY ServiceAssumption
  <1>6. \A s \in DOMAIN catalog : catalog[s].doms \subseteq Dom /\ catalog[s].cidrs \subseteq Ip
    BY CatalogIs DEF SelectorSets
  <1> HIDE DEF registry
  <1>7. \A s \in DOMAIN registry : registry[s].doms \subseteq Dom /\ registry[s].cidrs \subseteq Ip
    BY <1>1, <1>3, <1>4, <1>5, <1>6
  <1> QED
    BY <1>1, <1>2, <1>3, <1>4, <1>7 DEF registry

LEMMA ExpansionIs ==
  ASSUME NEW catalog \in Catalogs, NEW sel \in SelectorSets
  PROVE  ExpandDomains(catalog, sel) \subseteq Dom /\ ExpandCIDRs(catalog, sel) \subseteq Ip
  <1> DEFINE registry == mergeFirewallTargetRegistry(catalog)
             roots == sel.doms \cap DOMAIN Families
             named == sel.svcs \cup {Families[d] : d \in roots}
  <1>1. /\ IsFiniteSet(DOMAIN registry)
        /\ \A s \in DOMAIN registry : registry[s].doms \subseteq Dom /\ registry[s].cidrs \subseteq Ip
    BY RegistryIs
  <1> HIDE DEF registry, named
  <1>2. Included(registry, named) \subseteq DOMAIN registry /\ Included(registry, sel.svcs) \subseteq DOMAIN registry
    BY <1>1, IncludedLeast
  <1>3. sel.doms \subseteq Dom /\ sel.cidrs \subseteq Ip
    BY DEF SelectorSets
  <1>4. ExpandDomains(catalog, sel) = (sel.doms \ roots) \cup UNION {registry[s].doms : s \in Included(registry, named)}
    BY DEF ExpandDomains, registry, named
  <1>5. ExpandCIDRs(catalog, sel) = sel.cidrs \cup UNION {registry[s].cidrs : s \in Included(registry, sel.svcs)}
    BY DEF ExpandCIDRs, registry
  <1> QED
    BY <1>1, <1>2, <1>3, <1>4, <1>5

\* An empty selector set selects nothing.
LEMMA EmptyExpands ==
  ASSUME NEW catalog \in Catalogs
  PROVE  ExpandDomains(catalog, Empty) = {} /\ ExpandCIDRs(catalog, Empty) = {} /\ Empty \in SelectorSets
  <1> DEFINE registry == mergeFirewallTargetRegistry(catalog)
  <1>1. IsFiniteSet(DOMAIN registry)
    BY RegistryIs
  <1> HIDE DEF registry
  <1>2. Included(registry, {}) \subseteq {}
    <2>1. {} \cap DOMAIN registry \subseteq {} /\ Closed(registry, {})
      BY DEF Closed
    <2> QED
      BY <1>1, <2>1, IncludedLeast
  <1>3. Included(registry, {}) = {}
    BY <1>2
  <1>4. Empty.svcs = {} /\ Empty.doms = {} /\ Empty.cidrs = {} /\ Empty \in SelectorSets
    BY DEF Empty, SelectorSets
  <1>5. Empty.svcs \cup {Families[d] : d \in Empty.doms \cap DOMAIN Families} = {}
    BY <1>4
  <1>6. ExpandDomains(catalog, Empty) =
          (Empty.doms \ (Empty.doms \cap DOMAIN Families)) \cup UNION {registry[s].doms : s \in Included(registry, {})}
    BY <1>5 DEF ExpandDomains, registry
  <1>7. ExpandCIDRs(catalog, Empty) = Empty.cidrs \cup UNION {registry[s].cidrs : s \in Included(registry, {})}
    BY <1>4 DEF ExpandCIDRs, registry
  <1> QED
    BY <1>3, <1>4, <1>6, <1>7

-------------------------------------------------------------------------------
(* The first rule that matches. *)

Verdict(r, f) == IF f.net = "tcp" THEN r.tcp ELSE r.udp
Silent(rules, f) == \A i \in 1..Len(rules) : ~Matches(rules[i], f)
Says(rules, f, v) ==
    \E i \in 1..Len(rules) :
        Matches(rules[i], f) /\ v = Verdict(rules[i], f) /\ \A j \in 1..(i - 1) : ~Matches(rules[j], f)

LEMMA SaysRoute ==
  ASSUME NEW rules \in Seq(Rules), NEW f, NEW v, Says(rules, f, v)
  PROVE  XrayRoute(rules, f) = v
  <1>1. PICK i \in 1..Len(rules) :
            Matches(rules[i], f) /\ v = Verdict(rules[i], f) /\ \A j \in 1..(i - 1) : ~Matches(rules[j], f)
    BY DEF Says
  <1> DEFINE I == {k \in 1..Len(rules) : Matches(rules[k], f)}
  <1>2. i \in I /\ \A k \in I : i <= k
    <2>1. i \in I
      BY <1>1
    <2>2. ASSUME NEW k \in I, k < i PROVE FALSE
      <3>1. k \in 1..(i - 1)
        BY <2>2
      <3> QED
        BY <1>1, <3>1
    <2> QED
      BY <2>1, <2>2
  <1>3. \A k \in I : (\A m \in I : k <= m) => k = i
    BY <1>2
  <1>4. SelectInSeq(rules, LAMBDA x : Matches(x, f)) = IF I # {} THEN CHOOSE x \in I : \A y \in I : x <= y ELSE 0
    BY DEF SelectInSeq, Min
  <1> HIDE DEF I
  <1>5. SelectInSeq(rules, LAMBDA x : Matches(x, f)) = i
    BY <1>2, <1>3, <1>4
  <1> QED
    BY <1>1, <1>5 DEF XrayRoute, Verdict

LEMMA JoinedRules ==
  ASSUME NEW a \in Seq(Rules), NEW b \in Seq(Rules), NEW f
  PROVE  /\ a \o b \in Seq(Rules)
         /\ Silent(a, f) /\ Silent(b, f) => Silent(a \o b, f)
         /\ \A v : Says(a, f, v) => Says(a \o b, f, v)
         /\ \A v : Silent(a, f) /\ Says(b, f, v) => Says(a \o b, f, v)
  <1> DEFINE c == a \o b
  <1>1. c \in Seq(Rules) /\ Len(c) = Len(a) + Len(b) /\ Len(a) \in Nat /\ Len(b) \in Nat
    OBVIOUS
  <1>2. \A k \in 1..Len(a) : c[k] = a[k]
    OBVIOUS
  <1>3. \A k \in 1..Len(b) : c[Len(a) + k] = b[k]
    OBVIOUS
  <1> HIDE DEF c
  <1>4. ASSUME Silent(a, f), Silent(b, f) PROVE Silent(c, f)
    <2> SUFFICES ASSUME NEW i \in 1..Len(c) PROVE ~Matches(c[i], f)
      BY DEF Silent
    <2>1. CASE i <= Len(a)
      BY <1>1, <1>2, <1>4, <2>1 DEF Silent
    <2>2. CASE i > Len(a)
      <3>1. i - Len(a) \in 1..Len(b) /\ Len(a) + (i - Len(a)) = i
        BY <1>1, <2>2
      <3>2. c[i] = b[i - Len(a)]
        BY <1>3, <3>1
      <3> QED
        BY <1>4, <3>1, <3>2 DEF Silent
    <2> QED
      BY <1>1, <2>1, <2>2
  <1>5. ASSUME NEW v, Says(a, f, v) PROVE Says(c, f, v)
    <2>1. PICK i \in 1..Len(a) :
              Matches(a[i], f) /\ v = Verdict(a[i], f) /\ \A j \in 1..(i - 1) : ~Matches(a[j], f)
      BY <1>5 DEF Says
    <2>2. i \in 1..Len(c) /\ c[i] = a[i]
      BY <1>1, <1>2
    <2>3. \A j \in 1..(i - 1) : j \in 1..Len(a) /\ c[j] = a[j]
      BY <1>1, <1>2
    <2> QED
      BY <2>1, <2>2, <2>3 DEF Says
  <1>6. ASSUME NEW v, Silent(a, f), Says(b, f, v) PROVE Says(c, f, v)
    <2>1. PICK i \in 1..Len(b) :
              Matches(b[i], f) /\ v = Verdict(b[i], f) /\ \A j \in 1..(i - 1) : ~Matches(b[j], f)
      BY <1>6 DEF Says
    <2>2. Len(a) + i \in 1..Len(c) /\ c[Len(a) + i] = b[i]
      BY <1>1, <1>3
    <2>3. ASSUME NEW j \in 1..((Len(a) + i) - 1) PROVE ~Matches(c[j], f)
      <3>1. CASE j <= Len(a)
        BY <1>1, <1>2, <1>6, <3>1 DEF Silent
      <3>2. CASE j > Len(a)
        <4>1. j - Len(a) \in 1..Len(b) /\ j - Len(a) \in 1..(i - 1) /\ Len(a) + (j - Len(a)) = j
          BY <1>1, <3>2
        <4>2. c[j] = b[j - Len(a)]
          BY <1>3, <4>1
        <4> QED
          BY <2>1, <4>1, <4>2
      <3> QED
        BY <1>1, <3>1, <3>2
    <2> QED
      BY <2>1, <2>2, <2>3 DEF Says
  <1> QED
    BY <1>1, <1>4, <1>5, <1>6 DEF c

LEMMA OneRule ==
  ASSUME NEW r \in Rules, NEW f
  PROVE  /\ <<r>> \in Seq(Rules) /\ <<>> \in Seq(Rules) /\ Silent(<<>>, f)
         /\ Matches(r, f) => Says(<<r>>, f, Verdict(r, f))
         /\ ~Matches(r, f) => Silent(<<r>>, f)
  <1>1. <<r>> \in Seq(Rules) /\ <<>> \in Seq(Rules) /\ Len(<<r>>) = 1 /\ <<r>>[1] = r
    OBVIOUS
  <1>2. Silent(<<>>, f)
    BY DEF Silent
  <1>3. ASSUME Matches(r, f) PROVE Says(<<r>>, f, Verdict(r, f))
    BY <1>1, <1>3 DEF Says
  <1>4. ASSUME ~Matches(r, f) PROVE Silent(<<r>>, f)
    BY <1>1, <1>4 DEF Silent
  <1> QED
    BY <1>1, <1>2, <1>3, <1>4

\* A pair of rules for names and addresses speaks of what it lists.
LEMMA SelectorRulesSay ==
  ASSUME NEW doms \in SUBSET Dom, NEW cidrs \in SUBSET Ip,
         NEW tcp \in {"direct", "proxy"}, NEW udp \in {"direct", "proxy", "block"}, NEW f
  PROVE  LET rules == SelectorRules(doms, cidrs, tcp, udp)
         IN  /\ rules \in Seq(Rules)
             /\ Sniffed(f) \in doms \/ f.ip \in cidrs => Says(rules, f, IF f.net = "tcp" THEN tcp ELSE udp)
             /\ Sniffed(f) \notin doms /\ f.ip \notin cidrs => Silent(rules, f)
  <1> DEFINE n == Rule("name", doms, tcp, udp)
             i == Rule("ip", cidrs, tcp, udp)
             v == IF f.net = "tcp" THEN tcp ELSE udp
             a == IF doms = {} THEN <<>> ELSE <<n>>
             b == IF cidrs = {} THEN <<>> ELSE <<i>>
  <1>1. /\ n \in Rules /\ i \in Rules /\ Verdict(n, f) = v /\ Verdict(i, f) = v
        /\ Matches(n, f) <=> Sniffed(f) \in doms
        /\ Matches(i, f) <=> f.ip \in cidrs
    BY DEF Rule, Rules, Verdict, Matches
  <1> HIDE DEF n, i, v
  <1>2. /\ a \in Seq(Rules)
        /\ Sniffed(f) \in doms => Says(a, f, v)
        /\ Sniffed(f) \notin doms => Silent(a, f)
    BY <1>1, OneRule
  <1>3. /\ b \in Seq(Rules)
        /\ f.ip \in cidrs => Says(b, f, v)
        /\ f.ip \notin cidrs => Silent(b, f)
    BY <1>1, OneRule
  <1>4. SelectorRules(doms, cidrs, tcp, udp) = a \o b
    BY DEF SelectorRules, n, i
  <1> HIDE DEF a, b
  <1>5. /\ a \o b \in Seq(Rules)
        /\ Sniffed(f) \in doms \/ f.ip \in cidrs => Says(a \o b, f, v)
        /\ Sniffed(f) \notin doms /\ f.ip \notin cidrs => Silent(a \o b, f)
    BY <1>2, <1>3, JoinedRules
  <1> QED
    BY <1>4, <1>5 DEF v

LEMMA DNSRulesSay ==
  ASSUME NEW d \in {"system", "remote"}, NEW f
  PROVE  /\ directDNSRouteRules(d) \in Seq(Rules)
         /\ d = "remote" /\ f.ip \in DnsIp => Says(directDNSRouteRules(d), f, "direct")
         /\ ~(d = "remote" /\ f.ip \in DnsIp) => Silent(directDNSRouteRules(d), f)
  <1> DEFINE r == Rule("ip", DnsIp, "direct", "direct")
  <1>1. r \in Rules /\ Verdict(r, f) = "direct" /\ (Matches(r, f) <=> f.ip \in DnsIp)
    BY AddressAssumption DEF Rule, Rules, Verdict, Matches
  <1>2. directDNSRouteRules(d) = IF d = "remote" THEN <<r>> ELSE <<>>
    BY DEF directDNSRouteRules, localDNSRuntimeEnabled
  <1> HIDE DEF r
  <1> QED
    BY <1>1, <1>2, OneRule

\* Settings with a country have one.
Located(s) == s.country.on => s.country.code \in DOMAIN Geo
InCountry(s, f) ==
    s.country.on /\ (f.ip \in Geo[s.country.code].ips \/ Sniffed(f) \in Geo[s.country.code].doms)

LEMMA CountryRulesSay ==
  ASSUME NEW s \in Settings, Located(s), NEW f
  PROVE  /\ countryDirectRules(s.country) \in Seq(Rules)
         /\ InCountry(s, f) => Says(countryDirectRules(s.country), f, "direct")
         /\ ~InCountry(s, f) => Silent(countryDirectRules(s.country), f)
  <1>0. s.country.on \in BOOLEAN
    BY DEF Settings
  <1>1. CASE s.country.on
    <2> DEFINE g == Geo[s.country.code]
    <2>1. g.doms \in SUBSET Dom /\ g.ips \in SUBSET Ip
      BY <1>1, AddressAssumption DEF Located
    <2>2. countryDirectRules(s.country) = SelectorRules(g.doms, g.ips, "direct", "direct")
      BY <1>1 DEF countryDirectRules
    <2>3. InCountry(s, f) <=> f.ip \in g.ips \/ Sniffed(f) \in g.doms
      BY <1>1 DEF InCountry
    <2> HIDE DEF g
    <2>4. LET rules == SelectorRules(g.doms, g.ips, "direct", "direct")
          IN  /\ rules \in Seq(Rules)
              /\ Sniffed(f) \in g.doms \/ f.ip \in g.ips => Says(rules, f, IF f.net = "tcp" THEN "direct" ELSE "direct")
              /\ Sniffed(f) \notin g.doms /\ f.ip \notin g.ips => Silent(rules, f)
      BY <2>1, SelectorRulesSay
    <2> QED
      BY <2>2, <2>3, <2>4
  <1>2. CASE ~s.country.on
    <2>1. countryDirectRules(s.country) = <<>> /\ ~InCountry(s, f)
      BY <1>2 DEF countryDirectRules, InCountry
    <2>2. <<>> \in Seq(Rules) /\ Silent(<<>>, f)
      BY DEF Silent
    <2> QED
      BY <2>1, <2>2
  <1> QED
    BY <1>0, <1>1, <1>2

\* What leaves a router that sends traffic to the VPN and may block QUIC.
Proxied(quic, f) == IF f.net = "tcp" THEN "proxy" ELSE ProxiedUDP(quic)

LEMMA FallbackSays ==
  ASSUME NEW default \in {"proxy", "direct"}, NEW quic \in BOOLEAN, NEW f
  PROVE  /\ transparentFallbackRules(default, quic) \in Seq(Rules)
         /\ Says(transparentFallbackRules(default, quic), f, IF default = "proxy" THEN Proxied(quic, f) ELSE "direct")
  <1> DEFINE r == IF default = "proxy" THEN Rule("any", {}, "proxy", ProxiedUDP(quic)) ELSE Rule("any", {}, "direct", "direct")
  <1>1. /\ r \in Rules /\ Matches(r, f)
        /\ Verdict(r, f) = IF default = "proxy" THEN Proxied(quic, f) ELSE "direct"
    BY DEF Rule, Rules, Verdict, Matches, Proxied, ProxiedUDP
  <1>2. transparentFallbackRules(default, quic) = <<r>>
    BY DEF transparentFallbackRules
  <1> HIDE DEF r
  <1> QED
    BY <1>1, <1>2, OneRule

-------------------------------------------------------------------------------
(* What Xray decides about a captured flow. *)

Requests ==
    [default : {"proxy", "direct"}, proxyD : SUBSET Dom, proxyC : SUBSET Ip, bypassD : SUBSET Dom, bypassC : SUBSET Ip]
Bypassed(req, f) == Sniffed(f) \in req.bypassD \/ f.ip \in req.bypassC
Chosen(req, f) == Sniffed(f) \in req.proxyD \/ f.ip \in req.proxyC

LEMMA RulesSay ==
  ASSUME NEW s \in Settings, Located(s), NEW req \in Requests, NEW quic \in BOOLEAN, NEW selective \in BOOLEAN,
         NEW f
  PROVE  LET rules == directDNSRouteRules(s.dns) \o transparentRoutingRules(req, s.country, quic, selective)
         IN  /\ rules \in Seq(Rules)
             /\ XrayRoute(rules, f) =
                   IF (s.dns = "remote" /\ f.ip \in DnsIp) \/ InCountry(s, f) \/ Bypassed(req, f) THEN "direct"
                   ELSE IF selective \/ Chosen(req, f) \/ req.default = "proxy" THEN Proxied(quic, f) ELSE "direct"
  <1> DEFINE d == directDNSRouteRules(s.dns)
             c == countryDirectRules(s.country)
             b == SelectorRules(req.bypassD, req.bypassC, "direct", "direct")
             p == SelectorRules(req.proxyD, req.proxyC, "proxy", ProxiedUDP(quic))
             all == transparentFallbackRules("proxy", quic)
             rest == transparentFallbackRules(req.default, quic)
             local == s.dns = "remote" /\ f.ip \in DnsIp
  <1>1. /\ s.dns \in {"system", "remote"} /\ req.bypassD \in SUBSET Dom /\ req.bypassC \in SUBSET Ip
        /\ req.proxyD \in SUBSET Dom /\ req.proxyC \in SUBSET Ip /\ req.default \in {"proxy", "direct"}
        /\ ProxiedUDP(quic) \in {"direct", "proxy", "block"}
    BY DEF Settings, Requests, ProxiedUDP
  <1>2. d \in Seq(Rules) /\ (local => Says(d, f, "direct")) /\ (~local => Silent(d, f))
    BY <1>1, DNSRulesSay
  <1>3. c \in Seq(Rules) /\ (InCountry(s, f) => Says(c, f, "direct")) /\ (~InCountry(s, f) => Silent(c, f))
    BY CountryRulesSay
  <1>4. b \in Seq(Rules) /\ (Bypassed(req, f) => Says(b, f, "direct")) /\ (~Bypassed(req, f) => Silent(b, f))
    <2>1. LET rules == SelectorRules(req.bypassD, req.bypassC, "direct", "direct")
          IN  /\ rules \in Seq(Rules)
              /\ Sniffed(f) \in req.bypassD \/ f.ip \in req.bypassC
                    => Says(rules, f, IF f.net = "tcp" THEN "direct" ELSE "direct")
              /\ Sniffed(f) \notin req.bypassD /\ f.ip \notin req.bypassC => Silent(rules, f)
      BY <1>1, SelectorRulesSay
    <2> QED
      BY <2>1 DEF Bypassed
  <1>5. p \in Seq(Rules) /\ (Chosen(req, f) => Says(p, f, Proxied(quic, f))) /\ (~Chosen(req, f) => Silent(p, f))
    <2>1. LET rules == SelectorRules(req.proxyD, req.proxyC, "proxy", ProxiedUDP(quic))
          IN  /\ rules \in Seq(Rules)
              /\ Sniffed(f) \in req.proxyD \/ f.ip \in req.proxyC
                    => Says(rules, f, IF f.net = "tcp" THEN "proxy" ELSE ProxiedUDP(quic))
              /\ Sniffed(f) \notin req.proxyD /\ f.ip \notin req.proxyC => Silent(rules, f)
      BY <1>1, SelectorRulesSay
    <2> QED
      BY <2>1 DEF Chosen, Proxied
  <1>6. /\ all \in Seq(Rules) /\ Says(all, f, Proxied(quic, f))
        /\ rest \in Seq(Rules) /\ Says(rest, f, IF req.default = "proxy" THEN Proxied(quic, f) ELSE "direct")
    <2>1. all \in Seq(Rules) /\ Says(all, f, IF "proxy" = "proxy" THEN Proxied(quic, f) ELSE "direct")
      BY FallbackSays
    <2> QED
      BY <1>1, <2>1, FallbackSays
  <1>7. transparentRoutingRules(req, s.country, quic, selective) =
          IF selective THEN (c \o b) \o all ELSE ((c \o b) \o p) \o rest
    BY DEF transparentRoutingRules, transparentSelectiveRoutingRules
  <1> HIDE DEF d, c, b, p, all, rest
  <1> DEFINE direct == InCountry(s, f) \/ Bypassed(req, f)
  <1>8. c \o b \in Seq(Rules) /\ (direct => Says(c \o b, f, "direct")) /\ (~direct => Silent(c \o b, f))
    BY <1>3, <1>4, JoinedRules
  <1> DEFINE cb == c \o b
  <1>9. cb \in Seq(Rules) /\ (direct => Says(cb, f, "direct")) /\ (~direct => Silent(cb, f))
    BY <1>8
  <1> HIDE DEF cb, direct, local
  <1> DEFINE t == IF selective THEN cb \o all ELSE (cb \o p) \o rest
             v == IF direct THEN "direct"
                  ELSE IF selective \/ Chosen(req, f) \/ req.default = "proxy" THEN Proxied(quic, f) ELSE "direct"
  <1>10. t \in Seq(Rules) /\ Says(t, f, v)
    <2>1. CASE selective
      <3>1. cb \o all \in Seq(Rules) /\ Says(cb \o all, f, IF direct THEN "direct" ELSE Proxied(quic, f))
        BY <1>6, <1>9, JoinedRules
      <3> QED
        BY <2>1, <3>1
    <2>2. CASE ~selective
      <3> DEFINE w == IF direct THEN "direct" ELSE Proxied(quic, f)
                 cbp == cb \o p
      <3>1. /\ cbp \in Seq(Rules) /\ (direct \/ Chosen(req, f) => Says(cbp, f, w))
            /\ ~direct /\ ~Chosen(req, f) => Silent(cbp, f)
        BY <1>5, <1>9, JoinedRules
      <3>2. /\ cbp \o rest \in Seq(Rules)
            /\ direct \/ Chosen(req, f) => Says(cbp \o rest, f, w)
            /\ ~direct /\ ~Chosen(req, f) =>
                  Says(cbp \o rest, f, IF req.default = "proxy" THEN Proxied(quic, f) ELSE "direct")
        <4> HIDE DEF cbp, w
        <4> QED
          BY <1>6, <3>1, JoinedRules
      <3>3. CASE direct \/ Chosen(req, f)
        <4>1. w = v
          BY <2>2, <3>3
        <4> QED
          BY <2>2, <3>2, <3>3, <4>1
      <3>4. CASE ~direct /\ ~Chosen(req, f)
        <4>1. (IF req.default = "proxy" THEN Proxied(quic, f) ELSE "direct") = v
          BY <2>2, <3>4
        <4> QED
          BY <2>2, <3>2, <3>4, <4>1
      <3> QED
        BY <3>3, <3>4
    <2> QED
      BY <2>1, <2>2
  <1>11. transparentRoutingRules(req, s.country, quic, selective) = t
    BY <1>7 DEF cb
  <1> HIDE DEF t
  <1>12. d \o t \in Seq(Rules) /\ Says(d \o t, f, IF local THEN "direct" ELSE v)
    <2> HIDE DEF v
    <2> QED
      BY <1>2, <1>10, JoinedRules
  <1>13. XrayRoute(d \o t, f) = IF local THEN "direct" ELSE v
    <2> HIDE DEF v
    <2> QED
      BY <1>12, SaysRoute
  <1> QED
    BY <1>11, <1>12, <1>13 DEF d, local, direct

-------------------------------------------------------------------------------
(* What nftables and dnsmasq capture. *)

Policies ==
    [capture : SUBSET Host, excluded : SUBSET Host, proxyD : SUBSET Dom, proxyC : SUBSET Ip,
     bypassD : SUBSET Dom, bypassC : SUBSET Ip, default : {"proxy", "direct"}]
Reaches(cidrs, doms, ip) == ip \in cidrs \/ \E d \in doms : AddrOf[d] = ip

LEMMA TableIs ==
  ASSUME NEW p \in Policies, NEW quic \in BOOLEAN, NEW port \in Ports
  PROVE  BuildNFTablesRules(p, quic, port) \in Tables /\ BuildNFTablesRules(p, quic, port) # None
  <1>1. BuildNFTablesRules(p, quic, port) \in Tables
    BY DEF BuildNFTablesRules, Tables, Policies, HasProxyOutput
  <1> QED
    BY <1>1, NoneAssumption DEF Tables

LEMMA CapturedIs ==
  ASSUME NEW p \in Policies, NEW quic \in BOOLEAN, NEW port \in Ports, NEW f
  PROVE  Captured(BuildNFTablesRules(p, quic, port), buildDNSMasqNFTSetConfig(p), f) <=>
             /\ f.src \in p.capture \ p.excluded /\ f.ip \notin LocalIp
             /\ ~Reaches(p.bypassC, p.bypassD, f.ip)
             /\ p.default = "direct" => Reaches(p.proxyC, p.proxyD, f.ip)
             /\ f.net = "udp" => ~quic
  <1> DEFINE t == BuildNFTablesRules(p, quic, port)
             n == buildDNSMasqNFTSetConfig(p)
  <1>1. t # None
    BY TableIs
  <1>2. /\ t.capture = p.capture /\ t.excluded = p.excluded /\ (t.selective <=> p.default = "direct")
        /\ t.proxy = p.proxyC /\ (t.proxySet <=> p.proxyC # {} \/ p.proxyD # {})
        /\ t.bypass = p.bypassC /\ (t.bypassSet <=> p.bypassC # {} \/ p.bypassD # {}) /\ t.quic = quic
    BY DEF BuildNFTablesRules, HasProxyOutput
  <1>3. p.default \in {"proxy", "direct"}
    BY DEF Policies
  <1>4. CASE needsDNSMasqNFTSet(p)
    <2>1. n.proxy = p.proxyD /\ n.bypass = p.bypassD
      BY <1>4 DEF buildDNSMasqNFTSetConfig
    <2> HIDE DEF t, n
    <2>2. InSet(t.proxySet, t.proxy, n.proxy, f.ip) <=> Reaches(p.proxyC, p.proxyD, f.ip)
      BY <1>2, <2>1 DEF InSet, Reaches
    <2>3. InSet(t.bypassSet, t.bypass, n.bypass, f.ip) <=> Reaches(p.bypassC, p.bypassD, f.ip)
      BY <1>2, <2>1 DEF InSet, Reaches
    <2> QED
      BY <1>1, <1>2, <2>2, <2>3 DEF Captured, t, n
  <1>5. CASE ~needsDNSMasqNFTSet(p)
    <2>1. n.proxy = {} /\ n.bypass = {}
      BY <1>5 DEF buildDNSMasqNFTSetConfig, NoSnippet
    <2>2. p.proxyD = {} /\ (p.bypassD = {} \/ (p.proxyC = {} /\ p.default = "direct"))
      BY <1>3, <1>5 DEF needsDNSMasqNFTSet, HasProxyOutput
    <2> HIDE DEF t, n
    <2>3. InSet(t.proxySet, t.proxy, n.proxy, f.ip) <=> Reaches(p.proxyC, p.proxyD, f.ip)
      BY <1>2, <2>1, <2>2 DEF InSet, Reaches
    <2>4. CASE p.bypassD = {}
      <3>1. InSet(t.bypassSet, t.bypass, n.bypass, f.ip) <=> Reaches(p.bypassC, p.bypassD, f.ip)
        BY <1>2, <2>1, <2>4 DEF InSet, Reaches
      <3> QED
        BY <1>1, <1>2, <2>3, <3>1 DEF Captured, t, n
    <2>5. CASE p.proxyC = {} /\ p.default = "direct"
      <3>1. ~Reaches(p.proxyC, p.proxyD, f.ip)
        BY <2>2, <2>5 DEF Reaches
      <3> QED
        BY <1>1, <1>2, <2>3, <2>5, <3>1 DEF Captured, t, n
    <2> QED
      BY <2>2, <2>4, <2>5
  <1> QED
    BY <1>4, <1>5

-------------------------------------------------------------------------------
(* The two renderings. *)

\* The policy of a mode, field by field.
LEMMA PolicyIs ==
  ASSUME NEW fw \in Firewalls, FirewallRoutingEnabled(fw)
  PROVE  /\ fw.mode \in {"hosts", "targets", "split"} /\ CanonicalFirewallMode(fw) = fw.mode
         /\ resolveFirewallPolicy(fw) \in Policies
         /\ LET p == resolveFirewallPolicy(fw)
                proxy == IF fw.mode = "hosts" THEN Empty ELSE IF fw.mode = "targets" THEN fw.targets ELSE fw.split.proxy
                bypass == IF fw.mode = "split" THEN fw.split.bypass ELSE Empty
            IN  /\ proxy \in SelectorSets /\ bypass \in SelectorSets
                /\ p.capture = IF fw.mode = "hosts" THEN fw.hosts ELSE Host
                /\ p.excluded = IF fw.mode = "split" THEN fw.split.excluded ELSE {}
                /\ p.proxyD = ExpandDomains(fw.catalog, proxy) /\ p.proxyC = ExpandCIDRs(fw.catalog, proxy)
                /\ p.bypassD = ExpandDomains(fw.catalog, bypass) /\ p.bypassC = ExpandCIDRs(fw.catalog, bypass)
                /\ p.default = IF fw.mode = "hosts" THEN "proxy" ELSE IF fw.mode = "targets" THEN "direct"
                               ELSE fw.split.default
  <1> DEFINE proxy == IF fw.mode = "hosts" THEN Empty ELSE IF fw.mode = "targets" THEN fw.targets ELSE fw.split.proxy
             bypass == IF fw.mode = "split" THEN fw.split.bypass ELSE Empty
  <1>1. /\ fw.mode \in {"disabled", "hosts", "targets", "split"} /\ fw.hosts \in SUBSET Host
        /\ fw.targets \in SelectorSets /\ fw.split \in Splits /\ fw.catalog \in Catalogs
    BY DEF Firewalls
  <1>2. /\ fw.split.proxy \in SelectorSets /\ fw.split.bypass \in SelectorSets
        /\ fw.split.excluded \in SUBSET Host /\ fw.split.default \in {"proxy", "direct"}
    BY <1>1 DEF Splits
  <1>3. fw.mode \in {"hosts", "targets", "split"} /\ CanonicalFirewallMode(fw) = fw.mode
    BY <1>1 DEF FirewallRoutingEnabled, ModeHasSelectors, CanonicalFirewallMode
  <1>4. proxy \in SelectorSets /\ bypass \in SelectorSets
    BY <1>1, <1>2, EmptyExpands
  <1> HIDE DEF proxy, bypass
  <1> DEFINE pd == ExpandDomains(fw.catalog, proxy)
             pc == ExpandCIDRs(fw.catalog, proxy)
             bd == ExpandDomains(fw.catalog, bypass)
             bc == ExpandCIDRs(fw.catalog, bypass)
             p == [capture |-> IF fw.mode = "hosts" THEN fw.hosts ELSE Host,
                   excluded |-> IF fw.mode = "split" THEN fw.split.excluded ELSE {},
                   proxyD |-> pd, proxyC |-> pc, bypassD |-> bd, bypassC |-> bc,
                   default |-> IF fw.mode = "hosts" THEN "proxy" ELSE IF fw.mode = "targets" THEN "direct"
                               ELSE fw.split.default]
  <1>5. pd \subseteq Dom /\ pc \subseteq Ip /\ bd \subseteq Dom /\ bc \subseteq Ip
    BY <1>1, <1>4, ExpansionIs
  <1>6. resolveFirewallPolicy(fw) = p
    BY <1>3 DEF resolveFirewallPolicy, PolicyOf, proxy, bypass
  <1> HIDE DEF pd, pc, bd, bc
  <1>7. p \in Policies
    BY <1>1, <1>2, <1>3, <1>5 DEF Policies
  <1> QED
    BY <1>3, <1>4, <1>6, <1>7 DEF proxy, bypass, pd, pc, bd, bc

\* The request that the configuration is generated from.
LEMMA RequestIs ==
  ASSUME NEW fw \in Firewalls
  PROVE  /\ backendConfigRequest(fw) \in Requests
         /\ LET req == backendConfigRequest(fw)
                proxy == IF fw.mode = "targets" THEN fw.targets ELSE IF fw.mode = "split" THEN fw.split.proxy ELSE Empty
                bypass == IF fw.mode = "split" THEN fw.split.bypass ELSE Empty
            IN  /\ req.proxyD = ExpandDomains(fw.catalog, proxy) /\ req.proxyC = ExpandCIDRs(fw.catalog, proxy)
                /\ req.bypassD = ExpandDomains(fw.catalog, bypass) /\ req.bypassC = ExpandCIDRs(fw.catalog, bypass)
                /\ req.default = IF fw.mode = "targets" THEN "direct" ELSE IF fw.mode = "split" THEN fw.split.default
                                 ELSE "proxy"
  <1> DEFINE proxy == IF fw.mode = "targets" THEN fw.targets ELSE IF fw.mode = "split" THEN fw.split.proxy ELSE Empty
             bypass == IF fw.mode = "split" THEN fw.split.bypass ELSE Empty
             split == CASE fw.mode = "targets" -> [DefaultSplit EXCEPT !.proxy = fw.targets]
                        [] fw.mode = "split" -> fw.split
                        [] OTHER -> DefaultSplit
  <1>1. /\ fw.mode \in {"disabled", "hosts", "targets", "split"}
        /\ fw.targets \in SelectorSets /\ fw.split \in Splits /\ fw.catalog \in Catalogs
    BY DEF Firewalls
  <1>2. /\ fw.split.proxy \in SelectorSets /\ fw.split.bypass \in SelectorSets /\ fw.split.default \in {"proxy", "direct"}
    BY <1>1 DEF Splits
  <1>3. split.proxy = proxy /\ split.bypass = bypass /\ (fw.mode = "split" => split.default = fw.split.default)
    BY <1>1 DEF DefaultSplit
  <1>4. proxy \in SelectorSets /\ bypass \in SelectorSets
    BY <1>1, <1>2, EmptyExpands
  <1>5. backendConfigRequest(fw) = RequestOf(fw, split)
    BY DEF backendConfigRequest
  <1> HIDE DEF proxy, bypass, split
  <1> DEFINE pd == ExpandDomains(fw.catalog, proxy)
             pc == ExpandCIDRs(fw.catalog, proxy)
             bd == ExpandDomains(fw.catalog, bypass)
             bc == ExpandCIDRs(fw.catalog, bypass)
             r == [default |-> IF fw.mode = "targets" THEN "direct" ELSE IF fw.mode = "split" THEN split.default ELSE "proxy",
                   proxyD |-> pd, proxyC |-> pc, bypassD |-> bd, bypassC |-> bc]
  <1>6. pd \subseteq Dom /\ pc \subseteq Ip /\ bd \subseteq Dom /\ bc \subseteq Ip
    BY <1>1, <1>4, ExpansionIs
  <1>7. backendConfigRequest(fw) = r
    BY <1>3, <1>5 DEF RequestOf
  <1> HIDE DEF pd, pc, bd, bc
  <1>8. r \in Requests
    BY <1>2, <1>3, <1>6 DEF Requests
  <1> QED
    BY <1>3, <1>7, <1>8 DEF proxy, bypass, pd, pc, bd, bc

LEMMA ConfigIs ==
  ASSUME NEW s \in Settings, Located(s), NEW quic \in BOOLEAN
  PROVE  /\ Generate(s, quic) \in Configs /\ Generate(s, quic) # None
         /\ Generate(s, quic).dns = (s.dns = "remote")
         /\ Generate(s, quic).port = IF FirewallRoutingEnabled(s.fw) THEN s.fw.port ELSE None
         /\ Generate(s, quic).rules = directDNSRouteRules(s.dns)
               \o transparentRoutingRules(backendConfigRequest(s.fw), s.country, quic, transparentSelectiveCapture(s.fw))
  <1>1. s.fw \in Firewalls /\ s.fw.port \in Ports
    BY DEF Settings, Firewalls
  <1>2. backendConfigRequest(s.fw) \in Requests /\ transparentSelectiveCapture(s.fw) \in BOOLEAN
    BY <1>1, RequestIs DEF transparentSelectiveCapture
  <1> DEFINE rules == directDNSRouteRules(s.dns)
               \o transparentRoutingRules(backendConfigRequest(s.fw), s.country, quic, transparentSelectiveCapture(s.fw))
  <1>3. rules \in Seq(Rules)
    BY <1>2, RulesSay
  <1> HIDE DEF rules
  <1>4. Generate(s, quic) =
          [port |-> IF FirewallRoutingEnabled(s.fw) THEN s.fw.port ELSE None, dns |-> s.dns = "remote", rules |-> rules]
    BY DEF Generate, localDNSRuntimeEnabled, rules
  <1>5. Generate(s, quic) \in Configs
    BY <1>1, <1>3, <1>4 DEF Configs
  <1>6. Generate(s, quic) # None
    BY <1>5, NoneAssumption DEF Configs
  <1> QED
    BY <1>4, <1>5, <1>6 DEF rules

LEMMA AddressesReach ==
  ASSUME NEW catalog, NEW sel, NEW ip
  PROVE  ip \in Addresses(catalog, sel) <=> Reaches(ExpandCIDRs(catalog, sel), ExpandDomains(catalog, sel), ip)
  BY DEF Addresses, Reaches

\* What nftables, dnsmasq and Xray are given for the same settings sends every flow the way
\* the settings ask for: the three are rendered by different programs, from the canonical
\* mode (resolveFirewallPolicy) and from the stored one (backendConfigRequest).
LEMMA RenderingsAgree ==
  ASSUME NEW s \in Settings, Located(s), FirewallRoutingEnabled(s.fw), NEW quic \in BOOLEAN, NEW f \in Flow
  PROVE  LET p == resolveFirewallPolicy(s.fw)
         IN  RouteOf(BuildNFTablesRules(p, quic, s.fw.port), buildDNSMasqNFTSetConfig(p), Generate(s, quic), f)
                 = Policy(s, Meaning(s.fw), quic, f)
  <1> DEFINE fw == s.fw
             p == resolveFirewallPolicy(fw)
             t == BuildNFTablesRules(p, quic, fw.port)
             n == buildDNSMasqNFTSetConfig(p)
             x == Generate(s, quic)
             req == backendConfigRequest(fw)
             sel == transparentSelectiveCapture(fw)
             m == Meaning(fw)
             local == s.dns = "remote" /\ f.ip \in DnsIp
             free == f.src \in p.capture \ p.excluded /\ f.ip \notin LocalIp
  <1>1. fw \in Firewalls /\ fw.port \in Ports /\ fw.catalog \in Catalogs /\ fw.split.default \in {"proxy", "direct"}
    BY DEF Settings, Firewalls, Splits
  <1>2. f.src \in Host /\ f.net \in {"tcp", "quic", "udp"}
    BY DEF Flow, Net
  <1>3. fw.mode \in {"hosts", "targets", "split"} /\ CanonicalFirewallMode(fw) = fw.mode /\ p \in Policies
    BY <1>1, PolicyIs
  <1>4. /\ Captured(t, n, f) <=>
             /\ free
             /\ ~Reaches(p.bypassC, p.bypassD, f.ip)
             /\ p.default = "direct" => Reaches(p.proxyC, p.proxyD, f.ip)
             /\ f.net = "udp" => ~quic
    <2> HIDE DEF p, fw
    <2> QED
      BY <1>1, <1>3, CapturedIs
  <1>5. t # None /\ t.port = fw.port /\ x # None /\ x.port = fw.port
    <2>1. t # None
      BY <1>1, <1>3, TableIs
    <2>2. t.port = fw.port
      BY DEF BuildNFTablesRules
    <2> QED
      BY <2>1, <2>2, ConfigIs
  <1>6. sel \in BOOLEAN /\ (sel <=> fw.mode = "targets" \/ (fw.mode = "split" /\ fw.split.default = "direct"))
    BY <1>3 DEF transparentSelectiveCapture
  <1>7. XrayRoute(x.rules, f) =
          IF local \/ InCountry(s, f) \/ Bypassed(req, f) THEN "direct"
          ELSE IF sel \/ Chosen(req, f) \/ req.default = "proxy" THEN Proxied(quic, f) ELSE "direct"
    <2>1. req \in Requests
      BY <1>1, RequestIs
    <2>2. x.rules = directDNSRouteRules(s.dns) \o transparentRoutingRules(req, s.country, quic, sel)
      BY ConfigIs
    <2> HIDE DEF req, sel, x
    <2> QED
      BY <1>6, <2>1, <2>2, RulesSay
  <1>8. RouteOf(t, n, x, f) = IF Captured(t, n, f) THEN XrayRoute(x.rules, f) ELSE "direct"
    <2> HIDE DEF t, n, x
    <2> QED
      BY <1>5 DEF RouteOf
  <1>9. Exempt(s, f) <=> f.ip \in LocalIp \/ local \/ InCountry(s, f)
    BY DEF Exempt, InCountry
  <1>10. Policy(s, m, quic, f) =
           IF ~Wanted(fw, m, f) \/ Exempt(s, f) \/ (quic /\ f.net = "udp") THEN "direct"
           ELSE IF quic /\ f.net = "quic" THEN "block" ELSE "proxy"
    BY DEF Policy
  <1>11. ~(quic /\ f.net = "udp") => Proxied(quic, f) = IF quic /\ f.net = "quic" THEN "block" ELSE "proxy"
    BY <1>2 DEF Proxied, ProxiedUDP
  <1>12. CASE fw.mode = "hosts"
    <2>1. p.capture = fw.hosts /\ p.excluded = {} /\ p.default = "proxy" /\ ~Reaches(p.bypassC, p.bypassD, f.ip)
      <3>1. p.capture = fw.hosts /\ p.excluded = {} /\ p.default = "proxy"
        BY <1>1, <1>12, PolicyIs
      <3>2. p.bypassC = {} /\ p.bypassD = {}
        BY <1>1, <1>12, PolicyIs, EmptyExpands
      <3> QED
        BY <3>1, <3>2 DEF Reaches
    <2>2. ~Bypassed(req, f) /\ req.default = "proxy"
      BY <1>1, <1>12, RequestIs, EmptyExpands DEF Bypassed
    <2>3. Wanted(fw, m, f) <=> f.src \in fw.hosts
      BY <1>12 DEF Wanted
    <2> HIDE DEF fw, p, t, n, x, req, sel, m, local
    <2> QED
      BY <1>4, <1>7, <1>8, <1>9, <1>10, <1>11, <2>1, <2>2, <2>3 DEF fw, p, t, n, x, m
  <1>13. CASE fw.mode = "targets"
    <2>1. /\ p.capture = Host /\ p.excluded = {} /\ p.default = "direct" /\ ~Reaches(p.bypassC, p.bypassD, f.ip)
          /\ p.proxyC = ExpandCIDRs(fw.catalog, fw.targets) /\ p.proxyD = ExpandDomains(fw.catalog, fw.targets)
      <3>1. /\ p.capture = Host /\ p.excluded = {} /\ p.default = "direct"
            /\ p.proxyC = ExpandCIDRs(fw.catalog, fw.targets) /\ p.proxyD = ExpandDomains(fw.catalog, fw.targets)
        BY <1>1, <1>13, PolicyIs
      <3>2. p.bypassC = {} /\ p.bypassD = {}
        BY <1>1, <1>13, PolicyIs, EmptyExpands
      <3> QED
        BY <3>1, <3>2 DEF Reaches
    <2>2. ~Bypassed(req, f)
      BY <1>1, <1>13, RequestIs, EmptyExpands DEF Bypassed
    <2>3. Wanted(fw, m, f) <=> Reaches(p.proxyC, p.proxyD, f.ip)
      <3>1. Wanted(fw, m, f) <=> f.ip \in Addresses(fw.catalog, fw.targets)
        BY <1>13 DEF Wanted, Meaning
      <3> HIDE DEF fw, p, m
      <3> QED
        BY <2>1, <3>1, AddressesReach
    <2>4. sel
      BY <1>6, <1>13
    <2> HIDE DEF fw, p, t, n, x, req, sel, m, local
    <2> QED
      BY <1>2, <1>4, <1>7, <1>8, <1>9, <1>10, <1>11, <2>1, <2>2, <2>3, <2>4 DEF fw, p, t, n, x, m
  <1>14. CASE fw.mode = "split"
    <2>1. /\ p.capture = Host /\ p.excluded = fw.split.excluded /\ p.default = fw.split.default
          /\ p.proxyC = ExpandCIDRs(fw.catalog, fw.split.proxy) /\ p.proxyD = ExpandDomains(fw.catalog, fw.split.proxy)
          /\ p.bypassC = ExpandCIDRs(fw.catalog, fw.split.bypass) /\ p.bypassD = ExpandDomains(fw.catalog, fw.split.bypass)
      BY <1>1, <1>14, PolicyIs
    <2>2. /\ req.bypassC = p.bypassC /\ req.bypassD = p.bypassD /\ req.default = fw.split.default
      BY <1>1, <1>14, <2>1, RequestIs
    <2>3. Wanted(fw, m, f) <=>
             /\ f.src \notin fw.split.excluded
             /\ ~Reaches(p.bypassC, p.bypassD, f.ip) /\ Sniffed(f) \notin p.bypassD
             /\ fw.split.default = "proxy" \/ Reaches(p.proxyC, p.proxyD, f.ip)
      <3>1. Wanted(fw, m, f) <=>
              /\ f.src \notin fw.split.excluded
              /\ f.ip \notin Addresses(fw.catalog, fw.split.bypass)
              /\ Sniffed(f) \notin ExpandDomains(fw.catalog, fw.split.bypass)
              /\ fw.split.default = "proxy" \/ f.ip \in Addresses(fw.catalog, fw.split.proxy)
        BY <1>14 DEF Wanted, Meaning
      <3> HIDE DEF fw, p, m
      <3> QED
        BY <2>1, <3>1, AddressesReach
    <2>4. Bypassed(req, f) => Sniffed(f) \in p.bypassD \/ Reaches(p.bypassC, p.bypassD, f.ip)
      BY <2>2 DEF Bypassed, Reaches
    <2>5. Sniffed(f) \in p.bypassD => Bypassed(req, f)
      BY <2>2 DEF Bypassed
    <2>6. sel <=> fw.split.default = "direct"
      BY <1>6, <1>14
    <2> HIDE DEF fw, p, t, n, x, req, sel, m, local
    <2>7. RouteOf(t, n, x, f) = Policy(s, m, quic, f)
      <3>1. CASE Captured(t, n, f)
        <4>1. /\ f.src \notin fw.split.excluded /\ f.ip \notin LocalIp /\ ~Reaches(p.bypassC, p.bypassD, f.ip)
              /\ (fw.split.default = "direct" => Reaches(p.proxyC, p.proxyD, f.ip)) /\ ~(quic /\ f.net = "udp")
          BY <1>4, <2>1, <3>1
        <4>2. Wanted(fw, m, f) <=> ~Bypassed(req, f)
          BY <1>1, <2>3, <2>4, <2>5, <4>1
        <4>3. sel \/ req.default = "proxy"
          BY <1>1, <2>2, <2>6
        <4> QED
          BY <1>7, <1>8, <1>9, <1>10, <1>11, <3>1, <4>1, <4>2, <4>3
      <3>2. CASE ~Captured(t, n, f)
        <4>1. ~Wanted(fw, m, f) \/ Exempt(s, f) \/ (quic /\ f.net = "udp")
          BY <1>1, <1>2, <1>4, <1>9, <2>1, <2>3, <3>2
        <4> QED
          BY <1>8, <1>10, <3>2, <4>1
      <3> QED
        BY <3>1, <3>2
    <2> QED
      BY <2>7 DEF fw, p, t, n, x, m
  <1> QED
    BY <1>3, <1>12, <1>13, <1>14

-------------------------------------------------------------------------------
(* The calls that an operation has left. *)

\* What may follow a call, by the last call of the operation.
Finals == {"save", "ipv6 on", "ipv6 off", "snippet", "snippet off", "xray off", "disconnected"}
Applied == {<<"save", "ipv6">>, <<"save", "xray">>, <<"ipv6", "xray">>, <<"xray", "dns">>}
Stopped == {<<"nft off", "snippet off">>, <<"snippet off", "dns off">>, <<"dns off", "xray off">>}
After(last) ==
    CASE last = "snippet" -> Applied \cup {<<"dns", "nft">>, <<"nft", "snippet">>}
      [] last = "snippet off" -> Applied \cup {<<"dns", "nft off">>, <<"nft off", "snippet off">>}
      [] last = "xray off" -> Stopped \cup {<<"save", "nft off">>}
      [] last = "disconnected" -> Stopped \cup {<<"xray off", "disconnected">>}
      [] last = "ipv6 on" -> {<<"save", "ipv6 on">>}
      [] last = "ipv6 off" -> {<<"save", "ipv6 off">>}
      [] OTHER -> {}
Final(t) == t[Len(t)]
Left(t) ==
    /\ t \in Seq(Steps) /\ t # <<>> /\ Final(t) \in Finals
    /\ \A k \in 1..(Len(t) - 1) : <<t[k], t[k + 1]>> \in After(Final(t))

LEMMA AfterEnds ==
  \A last \in Finals : \A a, b : <<a, b>> \in After(last) => a # last /\ a \in Steps /\ b \in Steps
  BY ZenonT(60) DEF After, Applied, Stopped, Finals, Steps

LEMMA LeftMoves ==
  ASSUME NEW t, Left(t)
  PROVE  /\ Head(t) = t[1] /\ Head(t) \in Steps /\ (Len(t) = 1 <=> Head(t) = Final(t))
         /\ Len(t) # 1 => /\ Left(Tail(t)) /\ Final(Tail(t)) = Final(t) /\ Head(Tail(t)) = t[2]
                          /\ <<t[1], t[2]>> \in After(Final(t))
  <1>1. t \in Seq(Steps) /\ t # <<>> /\ Len(t) \in Nat /\ Len(t) >= 1 /\ Head(t) = t[1] /\ Head(t) \in Steps
    BY DEF Left
  <1>2. CASE Len(t) = 1
    BY <1>1, <1>2 DEF Final
  <1>3. CASE Len(t) # 1
    <2>1. Len(t) >= 2 /\ 1 \in 1..(Len(t) - 1)
      <3> DEFINE n == Len(t)
      <3>1. n \in Nat /\ n >= 1 /\ n # 1
        BY <1>1, <1>3
      <3> HIDE DEF n
      <3>2. n >= 2 /\ 1 \in 1..(n - 1)
        BY <3>1
      <3> QED
        BY <3>2 DEF n
    <2>2. <<t[1], t[1 + 1]>> \in After(Final(t))
      BY <2>1 DEF Left
    <2>3. <<t[1], t[2]>> \in After(Final(t))
      BY <2>2
    <2>4. t[1] # Final(t)
      BY <2>3, AfterEnds DEF Left
    <2> DEFINE u == Tail(t)
    <2>5. u \in Seq(Steps) /\ Len(u) = Len(t) - 1 /\ \A k \in 1..Len(u) : u[k] = t[k + 1]
      BY <1>1
    <2> HIDE DEF u
    <2>6. u # <<>> /\ Final(u) = Final(t) /\ u[1] = t[2]
      <3>1. Len(u) \in 1..Len(u) /\ 1 \in 1..Len(u) /\ Len(u) + 1 = Len(t)
        BY <1>1, <2>1, <2>5
      <3>2. u[Len(u)] = t[Len(t)] /\ u[1] = t[1 + 1]
        BY <2>5, <3>1
      <3>3. u # <<>>
        BY <3>1
      <3> QED
        BY <3>2, <3>3 DEF Final
    <2>7. \A k \in 1..(Len(u) - 1) : <<u[k], u[k + 1]>> \in After(Final(u))
      <3> TAKE k \in 1..(Len(u) - 1)
      <3>1. k \in 1..Len(u) /\ k + 1 \in 1..Len(u) /\ k + 1 \in 1..(Len(t) - 1)
        BY <1>1, <2>5
      <3>2. u[k] = t[k + 1] /\ u[k + 1] = t[(k + 1) + 1]
        BY <2>5, <3>1
      <3>3. <<t[k + 1], t[(k + 1) + 1]>> \in After(Final(t))
        BY <3>1 DEF Left
      <3> QED
        BY <2>6, <3>2, <3>3
    <2>8. Left(u)
      BY <2>5, <2>6, <2>7 DEF Left
    <2>9. Head(u) = u[1]
      BY <2>5, <2>6
    <2> QED
      BY <1>1, <1>3, <2>3, <2>4, <2>6, <2>8, <2>9 DEF u
  <1> QED
    BY <1>2, <1>3

\* A list of calls is one of an operation when its parts are.
Chain(t, last) == t \in Seq(Steps) /\ t # <<>> /\ \A k \in 1..(Len(t) - 1) : <<t[k], t[k + 1]>> \in After(last)
First(t) == t[1]
Second(t) == t[2]

LEMMA ChainJoins ==
  ASSUME NEW last, NEW a, NEW b, Chain(a, last), Chain(b, last), <<Final(a), First(b)>> \in After(last)
  PROVE  /\ Chain(a \o b, last) /\ First(a \o b) = First(a) /\ Final(a \o b) = Final(b)
         /\ Len(a) = 1 => Second(a \o b) = First(b)
  <1> DEFINE t == a \o b
             m == Len(a)
             n == Len(b)
  <1>1. a \in Seq(Steps) /\ b \in Seq(Steps) /\ m \in Nat /\ n \in Nat /\ m >= 1 /\ n >= 1
    BY DEF Chain
  <1>2. t \in Seq(Steps) /\ Len(t) = m + n
        /\ \A k \in 1..(m + n) : t[k] = IF k <= m THEN a[k] ELSE b[k - m]
    BY <1>1
  <1>3. /\ \A k \in 1..(m - 1) : <<a[k], a[k + 1]>> \in After(last)
        /\ \A k \in 1..(n - 1) : <<b[k], b[k + 1]>> \in After(last)
        /\ <<a[m], b[1]>> \in After(last)
    BY DEF Chain, Final, First
  <1> HIDE DEF t, m, n
  <1>4. t[1] = a[1] /\ t[m + n] = b[n] /\ (m = 1 => t[2] = b[1])
    <2>1. 1 \in 1..(m + n) /\ m + n \in 1..(m + n) /\ 2 \in 1..(m + n) /\ ~(m + n <= m) /\ 1 <= m /\ (m + n) - m = n
      BY <1>1
    <2>2. m = 1 => ~(2 <= m) /\ 2 - m = 1
      OBVIOUS
    <2> QED
      BY <1>2, <2>1, <2>2
  <1>5. ASSUME NEW k \in 1..((m + n) - 1) PROVE <<t[k], t[k + 1]>> \in After(last)
    <2>1. k \in 1..(m + n) /\ k + 1 \in 1..(m + n)
      BY <1>1
    <2>2. CASE k < m
      <3>1. k <= m /\ k + 1 <= m /\ k \in 1..(m - 1)
        BY <1>1, <2>2
      <3> QED
        BY <1>2, <1>3, <2>1, <3>1
    <2>3. CASE k = m
      <3>1. k <= m /\ ~(k + 1 <= m) /\ (k + 1) - m = 1
        BY <1>1, <2>3
      <3>2. t[k] = a[m] /\ t[k + 1] = b[1]
        BY <1>2, <2>1, <3>1, <2>3
      <3> QED
        BY <1>3, <3>2
    <2>4. CASE k > m
      <3>1. ~(k <= m) /\ ~(k + 1 <= m) /\ k - m \in 1..(n - 1) /\ (k + 1) - m = (k - m) + 1
        BY <1>1, <2>4
      <3>2. t[k] = b[k - m] /\ t[k + 1] = b[(k - m) + 1]
        BY <1>2, <2>1, <3>1
      <3> QED
        BY <1>3, <3>1, <3>2
    <2> QED
      BY <1>1, <2>2, <2>3, <2>4
  <1>6. t # <<>>
    BY <1>1, <1>2
  <1>7. Chain(t, last)
    BY <1>2, <1>5, <1>6 DEF Chain
  <1> QED
    BY <1>2, <1>4, <1>7 DEF t, m, n, Final, First, Second

LEMMA ChainIsLeft ==
  ASSUME NEW last \in Finals, NEW t, Chain(t, last), Final(t) = last
  PROVE  Left(t) /\ Head(t) = First(t)
  BY DEF Chain, Left, First

\* The short lists themselves.
LEMMA ShortChains ==
  ASSUME NEW last
  PROVE  /\ \A a \in Steps : Chain(<<a>>, last) /\ Len(<<a>>) = 1 /\ First(<<a>>) = a /\ Final(<<a>>) = a
         /\ \A a, b \in Steps : <<a, b>> \in After(last) =>
               Chain(<<a, b>>, last) /\ Len(<<a, b>>) = 2 /\ First(<<a, b>>) = a /\ Final(<<a, b>>) = b
  <1>1. ASSUME NEW a \in Steps PROVE Chain(<<a>>, last) /\ Len(<<a>>) = 1 /\ First(<<a>>) = a /\ Final(<<a>>) = a
    BY DEF Chain, First, Final
  <1>2. ASSUME NEW a \in Steps, NEW b \in Steps, <<a, b>> \in After(last)
        PROVE Chain(<<a, b>>, last) /\ Len(<<a, b>>) = 2 /\ First(<<a, b>>) = a /\ Final(<<a, b>>) = b
    <2> DEFINE t == <<a, b>>
    <2>1. t \in Seq(Steps) /\ Len(t) = 2 /\ t[1] = a /\ t[2] = b /\ t # <<>>
      OBVIOUS
    <2> HIDE DEF t
    <2>2. ASSUME NEW k \in 1..(Len(t) - 1) PROVE <<t[k], t[k + 1]>> \in After(last)
      <3>1. k = 1 /\ k + 1 = 2
        BY <2>1
      <3> QED
        BY <1>2, <2>1, <3>1
    <2>3. Chain(t, last)
      BY <2>1, <2>2 DEF Chain
    <2> QED
      BY <2>1, <2>3 DEF t, First, Final
  <1> QED
    BY <1>1, <1>2

LEMMA FourChain ==
  ASSUME NEW last, NEW a \in Steps, NEW b \in Steps, NEW c \in Steps, NEW d \in Steps,
         <<a, b>> \in After(last), <<b, c>> \in After(last), <<c, d>> \in After(last)
  PROVE  Chain(<<a, b, c, d>>, last) /\ First(<<a, b, c, d>>) = a /\ Final(<<a, b, c, d>>) = d
  <1> DEFINE t == <<a, b, c, d>>
  <1>1. t \in Seq(Steps) /\ Len(t) = 4 /\ t[1] = a /\ t[2] = b /\ t[3] = c /\ t[4] = d /\ t # <<>>
    OBVIOUS
  <1> HIDE DEF t
  <1>2. ASSUME NEW k \in 1..(Len(t) - 1) PROVE <<t[k], t[k + 1]>> \in After(last)
    <2>1. Len(t) - 1 = 3
      BY <1>1
    <2>2. k \in 1..3
      BY <2>1
    <2>3. (k = 1 /\ k + 1 = 2) \/ (k = 2 /\ k + 1 = 3) \/ (k = 3 /\ k + 1 = 4)
      BY <2>2
    <2> QED
      BY <1>1, <2>3
  <1>3. Chain(t, last)
    BY <1>1, <1>2 DEF Chain
  <1> QED
    BY <1>1, <1>3 DEF First, Final, t

LEMMA StopChain ==
  \A last : <<"nft off", "snippet off">> \in After(last) /\ <<"snippet off", "dns off">> \in After(last)
             /\ <<"dns off", "xray off">> \in After(last)
        => /\ Chain(stopProxyTransport, last) /\ First(stopProxyTransport) = "nft off"
           /\ Final(stopProxyTransport) = "xray off"
  <1> DEFINE a == "nft off"
             b == "snippet off"
             c == "dns off"
             d == "xray off"
             t == <<a, b, c, d>>
  <1>1. a \in Steps /\ b \in Steps /\ c \in Steps /\ d \in Steps
    BY DEF Steps
  <1> HIDE DEF a, b, c, d
  <1>2. ASSUME NEW last, <<a, b>> \in After(last), <<b, c>> \in After(last), <<c, d>> \in After(last)
        PROVE  Chain(t, last) /\ First(t) = a /\ Final(t) = d
    BY <1>1, <1>2, FourChain
  <1>3. \A last : <<a, b>> \in After(last) /\ <<b, c>> \in After(last) /\ <<c, d>> \in After(last) =>
            Chain(t, last) /\ First(t) = a /\ Final(t) = d
    BY <1>2
  <1>4. stopProxyTransport = t
    BY DEF stopProxyTransport, a, b, c, d
  <1> HIDE DEF t
  <1> QED
    BY <1>3, <1>4 DEF a, b, c, d

\* The calls of the operations.
LEMMA ShortPrograms ==
  /\ Left(<<"save">> \o <<>>) /\ Final(<<"save">> \o <<>>) = "save" /\ Head(<<"save">> \o <<>>) = "save"
  /\ \A v \in {"ipv6 on", "ipv6 off"} :
        Left(<<"save">> \o <<v>>) /\ Final(<<"save">> \o <<v>>) = v /\ Head(<<"save">> \o <<v>>) = "save"
  <1>1. "save" \in Steps /\ "save" \in Finals /\ "ipv6 on" \in Steps /\ "ipv6 off" \in Steps
    BY DEF Steps, Finals
  <1>2. <<"save">> \o <<>> = <<"save">>
    <2>1. <<"save">> \in Seq(Steps)
      BY <1>1, ShortChains DEF Chain
    <2> QED
      BY <2>1, ConcatEmptySeq
  <1>3. Left(<<"save">>) /\ Final(<<"save">>) = "save" /\ Head(<<"save">>) = "save"
    <2>1. Chain(<<"save">>, "save") /\ Final(<<"save">>) = "save" /\ First(<<"save">>) = "save"
      BY <1>1, ShortChains
    <2>2. Final(<<"save">>) = "save"
      BY <2>1
    <2> QED
      BY <1>1, <2>1, <2>2, ChainIsLeft
  <1>4. ASSUME NEW v, v \in Steps, v \in Finals, <<"save", v>> \in After(v)
        PROVE  Left(<<"save">> \o <<v>>) /\ Final(<<"save">> \o <<v>>) = v /\ Head(<<"save">> \o <<v>>) = "save"
    <2> DEFINE a == <<"save">>
               b == <<v>>
    <2>1. Chain(a, v) /\ Chain(b, v) /\ First(a) = "save" /\ Final(a) = "save" /\ First(b) = v /\ Final(b) = v
      BY <1>1, <1>4, ShortChains
    <2> HIDE DEF a, b
    <2>2. <<Final(a), First(b)>> \in After(v)
      BY <1>4, <2>1
    <2>3. Chain(a \o b, v) /\ First(a \o b) = First(a) /\ Final(a \o b) = Final(b)
      BY <2>1, <2>2, ChainJoins
    <2>4. Left(a \o b) /\ Final(a \o b) = v /\ Head(a \o b) = "save"
      BY <1>4, <2>1, <2>3, ChainIsLeft
    <2> QED
      BY <2>4 DEF a, b
  <1>5. \A v \in {"ipv6 on", "ipv6 off"} : v \in Steps /\ v \in Finals /\ <<"save", v>> \in After(v)
    BY DEF After, Finals, Steps
  <1> QED
    BY <1>2, <1>3, <1>4, <1>5, Zenon

LEMMA StopPrograms ==
  /\ Left(<<"save">> \o stopProxyTransport) /\ Final(<<"save">> \o stopProxyTransport) = "xray off"
  /\ Head(<<"save">> \o stopProxyTransport) = "save"
  /\ Left(stopProxyTransport \o <<"disconnected">>) /\ Final(stopProxyTransport \o <<"disconnected">>) = "disconnected"
  /\ Head(stopProxyTransport \o <<"disconnected">>) = "nft off"
  <1> DEFINE t == stopProxyTransport
             a == <<"save">>
             b == <<"disconnected">>
             x == "xray off"
             d == "disconnected"
  <1>1. \A l \in {x, d} : /\ <<"nft off", "snippet off">> \in After(l) /\ <<"snippet off", "dns off">> \in After(l)
                           /\ <<"dns off", "xray off">> \in After(l) /\ l \in Finals
    BY DEF After, Stopped, Finals
  <1>2. "save" \in Steps /\ d \in Steps /\ <<"save", "nft off">> \in After(x) /\ <<"xray off", d>> \in After(d)
    BY DEF Steps, After
  <1> HIDE DEF x, d
  <1>3. Chain(t, x) /\ Chain(t, d) /\ First(t) = "nft off" /\ Final(t) = "xray off"
    BY <1>1, StopChain
  <1>4. Chain(a, x) /\ First(a) = "save" /\ Final(a) = "save"
    BY <1>2, ShortChains
  <1>5. Chain(b, d) /\ First(b) = d /\ Final(b) = d
    BY <1>2, ShortChains DEF d
  <1> HIDE DEF t, a, b
  <1>6. Chain(a \o t, x) /\ First(a \o t) = First(a) /\ Final(a \o t) = Final(t)
    <2>1. <<Final(a), First(t)>> \in After(x)
      BY <1>2, <1>3, <1>4
    <2>2. Chain(a, x) /\ Chain(t, x)
      BY <1>3, <1>4
    <2> QED
      BY <2>1, <2>2, ChainJoins
  <1>7. Chain(t \o b, d) /\ First(t \o b) = First(t) /\ Final(t \o b) = Final(b)
    <2>1. <<Final(t), First(b)>> \in After(d)
      BY <1>2, <1>3, <1>5
    <2>2. Chain(t, d) /\ Chain(b, d)
      BY <1>3, <1>5
    <2> QED
      BY <2>1, <2>2, ChainJoins
  <1>8. Final(a \o t) = x /\ Final(t \o b) = d
    BY <1>3, <1>5, <1>6, <1>7 DEF x
  <1>9. Left(a \o t) /\ Head(a \o t) = "save" /\ Left(t \o b) /\ Head(t \o b) = "nft off"
    BY <1>1, <1>3, <1>4, <1>6, <1>7, <1>8, ChainIsLeft
  <1> QED
    BY <1>8, <1>9 DEF t, a, b, x, d

LEMMA ApplyPrograms ==
  ASSUME NEW s
  PROVE  LET t == <<"save">> \o applyNodeSelection(s)
         IN  /\ Left(t) /\ Head(t) = "save" /\ Final(t) \in {"snippet", "snippet off"}
             /\ Final(t) = "snippet" <=> FirewallRoutingEnabled(s.fw)
             /\ Second(t) = IF s.fw.noV6 THEN "ipv6" ELSE "xray"
  <1> DEFINE on == FirewallRoutingEnabled(s.fw)
             last == IF on THEN "snippet" ELSE "snippet off"
             first == IF on THEN "nft" ELSE "nft off"
             end == IF on THEN <<"nft", "snippet">> ELSE <<"nft off", "snippet off">>
             mid == <<"xray", "dns">>
             pre == IF s.fw.noV6 THEN <<"ipv6">> ELSE <<>>
             a == <<"save">>
  <1>1. /\ <<"save", "ipv6">> \in After(last) /\ <<"save", "xray">> \in After(last) /\ <<"ipv6", "xray">> \in After(last)
        /\ <<"xray", "dns">> \in After(last) /\ <<"dns", first>> \in After(last) /\ <<first, last>> \in After(last)
        /\ last \in Finals
    BY DEF After, Applied, Finals
  <1>2. {"save", "ipv6", "xray", "dns", first, last} \subseteq Steps
    BY DEF Steps
  <1>3. end = <<first, last>>
    OBVIOUS
  <1>4. applyNodeSelection(s) = (pre \o mid) \o end
    BY DEF applyNodeSelection
  <1>5. last \in {"snippet", "snippet off"} /\ (last = "snippet" <=> on)
    OBVIOUS
  <1> HIDE DEF last, first, end
  <1>6. Chain(end, last) /\ First(end) = first /\ Final(end) = last
    BY <1>1, <1>2, <1>3, ShortChains
  <1>7. Chain(mid, last) /\ First(mid) = "xray" /\ Final(mid) = "dns"
    BY <1>1, <1>2, ShortChains
  <1>8. Chain(a, last) /\ Len(a) = 1 /\ First(a) = "save" /\ Final(a) = "save"
    BY <1>2, ShortChains
  <1> DEFINE x == IF s.fw.noV6 THEN "ipv6" ELSE "xray"
  <1>9. Chain(pre \o mid, last) /\ First(pre \o mid) = x /\ Final(pre \o mid) = "dns"
    <2>1. CASE s.fw.noV6
      <3>1. pre = <<"ipv6">> /\ x = "ipv6"
        BY <2>1
      <3>2. Chain(pre, last) /\ First(pre) = "ipv6" /\ Final(pre) = "ipv6"
        BY <1>2, <3>1, ShortChains
      <3> HIDE DEF pre, mid
      <3>3. <<Final(pre), First(mid)>> \in After(last)
        BY <1>1, <1>7, <3>2
      <3>4. /\ Chain(pre \o mid, last) /\ First(pre \o mid) = First(pre)
            /\ Final(pre \o mid) = Final(mid)
        BY <1>7, <3>2, <3>3, ChainJoins
      <3> QED
        BY <1>7, <3>1, <3>2, <3>4
    <2>2. CASE ~s.fw.noV6
      <3>1. pre = <<>> /\ x = "xray"
        BY <2>2
      <3> HIDE DEF pre, mid
      <3>2. pre \o mid = mid
        BY <1>7, <3>1, ConcatEmptySeq DEF Chain
      <3> QED
        BY <1>7, <3>1, <3>2
    <2> QED
      BY <2>1, <2>2
  <1> DEFINE p == pre \o mid
             q == p \o end
             t == a \o q
  <1> HIDE DEF p
  <1>10. Chain(p, last) /\ First(p) = x /\ Final(p) = "dns"
    BY <1>9 DEF p
  <1>11. Chain(q, last) /\ First(q) = x /\ Final(q) = last
    <2>1. <<Final(p), First(end)>> \in After(last)
      BY <1>1, <1>6, <1>10
    <2>2. Chain(p \o end, last) /\ First(p \o end) = First(p) /\ Final(p \o end) = Final(end)
      BY <1>6, <1>10, <2>1, ChainJoins
    <2> QED
      BY <1>6, <1>10, <2>2
  <1> HIDE DEF q, a
  <1>12. <<"save", x>> \in After(last)
    BY <1>1
  <1> HIDE DEF x
  <1>13. Chain(t, last) /\ First(t) = "save" /\ Final(t) = last /\ Second(t) = x
    <2>1. <<Final(a), First(q)>> \in After(last)
      BY <1>8, <1>11, <1>12
    <2>2. /\ Chain(a \o q, last) /\ First(a \o q) = First(a) /\ Final(a \o q) = Final(q)
          /\ Len(a) = 1 => Second(a \o q) = First(q)
      BY <1>8, <1>11, <2>1, ChainJoins
    <2> QED
      BY <1>8, <1>11, <2>2
  <1> HIDE DEF t
  <1>14. Left(t) /\ Final(t) = last /\ Head(t) = "save"
    BY <1>1, <1>13, ChainIsLeft
  <1>15. t = <<"save">> \o applyNodeSelection(s)
    BY <1>4 DEF t, q, p, a
  <1> HIDE DEF on
  <1>16. Left(t) /\ Head(t) = "save" /\ Final(t) \in {"snippet", "snippet off"} /\ (Final(t) = "snippet" <=> on) /\ Second(t) = x
    BY <1>5, <1>13, <1>14
  <1> QED
    BY <1>15, <1>16 DEF x, on

-------------------------------------------------------------------------------
(* Redefining and deleting services. *)

\* The catalogue without a service.
Without(catalog, name) == [s \in DOMAIN catalog \ {name} |-> catalog[s]]

LEMMA WithoutIs ==
  ASSUME NEW catalog \in Catalogs, NEW name
  PROVE  /\ Without(catalog, name) \in Catalogs /\ DOMAIN Without(catalog, name) = DOMAIN catalog \ {name}
         /\ \A s \in DOMAIN catalog \ {name} : Without(catalog, name)[s] = catalog[s]
  <1>1. DOMAIN catalog \subseteq Svc /\ \A s \in DOMAIN catalog : catalog[s] \in SelectorSets
    BY CatalogIs
  <1>2. Without(catalog, name) \in [DOMAIN catalog \ {name} -> SelectorSets] /\ DOMAIN catalog \ {name} \in SUBSET Svc
    BY <1>1 DEF Without
  <1>3. Without(catalog, name) \in Catalogs
    BY <1>2 DEF Catalogs
  <1> QED
    BY <1>3 DEF Without

LEMMA WithServiceIs ==
  ASSUME NEW catalog \in Catalogs, NEW name \in Svc, NEW def \in SelectorSets
  PROVE  /\ WithService(catalog, name, def) \in Catalogs
         /\ DOMAIN WithService(catalog, name, def) = DOMAIN catalog \cup {name}
         /\ \A s \in DOMAIN catalog \ {name} : WithService(catalog, name, def)[s] = catalog[s]
  <1>1. DOMAIN catalog \subseteq Svc /\ \A s \in DOMAIN catalog : catalog[s] \in SelectorSets
    BY CatalogIs
  <1>2. /\ WithService(catalog, name, def) \in [DOMAIN catalog \cup {name} -> SelectorSets]
        /\ DOMAIN catalog \cup {name} \in SUBSET Svc
    BY <1>1 DEF WithService
  <1>3. WithService(catalog, name, def) \in Catalogs
    BY <1>2 DEF Catalogs
  <1> QED
    BY <1>3 DEF WithService

\* A service that no other one includes may go.
LEMMA DeletedIsValid ==
  ASSUME NEW catalog \in Catalogs, ValidCatalog(catalog), NEW name,
         \A s \in DOMAIN catalog \ {name} : ~ReferenceService({s}, catalog, name)
  PROVE  ValidCatalog(Without(catalog, name))
  <1> DEFINE less == Without(catalog, name)
  <1>1. /\ less \in Catalogs /\ DOMAIN less = DOMAIN catalog \ {name}
        /\ \A s \in DOMAIN less : less[s] = catalog[s]
    BY WithoutIs
  <1>2. IsFiniteSet(DOMAIN catalog) /\ IsFiniteSet(DOMAIN less)
    BY <1>1, CatalogIs
  <1> HIDE DEF less
  <1>3. ASSUME NEW s \in DOMAIN less PROVE name \notin catalog[s].svcs
    <2>1. s \in Included(catalog, {s})
      BY <1>1, <1>2, IncludedLeast
    <2>2. ~ReferenceService({s}, catalog, name)
      BY <1>1
    <2> DEFINE I == Included(catalog, {s})
    <2>3. name \notin {s} \cup UNION {{r} \cup catalog[r].svcs : r \in I}
      BY <2>2 DEF ReferenceService
    <2>4. s \in I
      BY <2>1
    <2> HIDE DEF I
    <2> QED
      BY <2>3, <2>4
  <1>4. ASSUME NEW s \in DOMAIN less PROVE s \notin Included(less, less[s].svcs)
    <2> DEFINE roots == catalog[s].svcs
               I == Included(catalog, roots)
               C == I \ {name}
    <2>1. roots \cap DOMAIN catalog \subseteq I /\ I \subseteq DOMAIN catalog /\ Closed(catalog, I)
      BY <1>2, IncludedLeast
    <2>2. s \notin I
      BY <1>1 DEF ValidCatalog
    <2>3. less[s].svcs = roots
      BY <1>1
    <2> HIDE DEF I, roots
    <2>4. roots \cap DOMAIN less \subseteq C
      BY <1>1, <2>1
    <2>5. Closed(less, C)
      BY <1>1, <2>1 DEF Closed
    <2>6. Included(less, roots) \subseteq C
      BY <1>2, <2>4, <2>5, IncludedLeast
    <2> QED
      BY <2>2, <2>3, <2>6
  <1>5. ASSUME NEW s \in DOMAIN less PROVE less[s].svcs \subseteq DOMAIN Presets \cup DOMAIN less
    <2>1. catalog[s].svcs \subseteq DOMAIN Presets \cup DOMAIN catalog
      BY <1>1 DEF ValidCatalog
    <2> QED
      BY <1>1, <1>3, <2>1
  <1>6. ValidCatalog(less)
    BY <1>4, <1>5 DEF ValidCatalog
  <1> QED
    BY <1>6 DEF less

\* A service that the roots do not reach does not show in what they include.
LEMMA SameIncluded ==
  ASSUME NEW cat \in Catalogs, NEW other \in Catalogs, NEW name, NEW named, NEW roots,
         DOMAIN cat \ {name} = DOMAIN other \ {name}, \A s \in DOMAIN cat \ {name} : other[s] = cat[s],
         name \notin DOMAIN Presets, ~ReferenceService(named, cat, name), roots \subseteq named \cup DOMAIN Presets
  PROVE  LET r == mergeFirewallTargetRegistry(cat)
             q == mergeFirewallTargetRegistry(other)
         IN  /\ Included(q, roots) = Included(r, roots)
             /\ \A s \in Included(r, roots) : q[s] = r[s]
  <1> DEFINE r == mergeFirewallTargetRegistry(cat)
             q == mergeFirewallTargetRegistry(other)
             P == DOMAIN Presets
             I == Included(cat, named)
             A == Included(r, roots)
             B == Included(q, roots)
  <1>1. /\ DOMAIN r = P \cup DOMAIN cat /\ IsFiniteSet(DOMAIN r)
        /\ \A s \in P : r[s] = Presets[s]
        /\ \A s \in DOMAIN cat \ P : r[s] = cat[s]
    BY RegistryIs
  <1>2. /\ DOMAIN q = P \cup DOMAIN other /\ IsFiniteSet(DOMAIN q)
        /\ \A s \in P : q[s] = Presets[s]
        /\ \A s \in DOMAIN other \ P : q[s] = other[s]
    BY RegistryIs
  <1>3. \A s \in P : Presets[s].svcs \subseteq P
    BY ServiceAssumption
  <1>4. IsFiniteSet(DOMAIN cat)
    BY CatalogIs
  <1>5. named \cap DOMAIN cat \subseteq I /\ I \subseteq DOMAIN cat /\ Closed(cat, I)
    BY <1>4, IncludedLeast
  <1>6. name \notin named /\ \A x \in I : name # x /\ name \notin cat[x].svcs
    BY DEF ReferenceService
  <1>7. /\ roots \cap DOMAIN r \subseteq A /\ A \subseteq DOMAIN r /\ Closed(r, A)
        /\ \A C : roots \cap DOMAIN r \subseteq C /\ Closed(r, C) => A \subseteq C
    BY <1>1, IncludedLeast
  <1>8. /\ roots \cap DOMAIN q \subseteq B /\ B \subseteq DOMAIN q /\ Closed(q, B)
        /\ \A C : roots \cap DOMAIN q \subseteq C /\ Closed(q, C) => B \subseteq C
    BY <1>2, IncludedLeast
  <1> HIDE DEF r, q, I, A, B
  <1>9. A \subseteq P \cup I
    <2>1. roots \cap DOMAIN r \subseteq P \cup I
      BY <1>1, <1>5
    <2>2. Closed(r, P \cup I)
      <3>1. ASSUME NEW s \in P PROVE r[s].svcs \subseteq P
        BY <1>1, <1>3
      <3>2. ASSUME NEW s \in I, s \notin P PROVE r[s].svcs \cap DOMAIN r \subseteq P \cup I
        <4>1. r[s] = cat[s] /\ cat[s].svcs \cap DOMAIN cat \subseteq I
          BY <1>1, <1>5, <3>2 DEF Closed
        <4> QED
          BY <1>1, <4>1
      <3> QED
        BY <3>1, <3>2 DEF Closed
    <2> QED
      BY <1>7, <2>1, <2>2
  <1>10. \A s \in A : s # name /\ name \notin r[s].svcs
    BY <1>1, <1>3, <1>5, <1>6, <1>9
  <1>11. \A s \in A : s \in DOMAIN q /\ q[s] = r[s]
    BY <1>1, <1>2, <1>7, <1>10
  <1>12. name \notin roots
    BY <1>6
  <1>13. DOMAIN q \ {name} = DOMAIN r \ {name}
    BY <1>1, <1>2
  <1>14. B \subseteq A
    <2>1. roots \cap DOMAIN q \subseteq A
      BY <1>7, <1>12, <1>13
    <2>2. Closed(q, A)
      <3>1. ASSUME NEW s \in A PROVE q[s].svcs \cap DOMAIN q \subseteq A
        <4>1. q[s] = r[s] /\ name \notin r[s].svcs /\ r[s].svcs \cap DOMAIN r \subseteq A
          BY <1>7, <1>10, <1>11 DEF Closed
        <4> QED
          BY <1>13, <4>1
      <3> QED
        BY <3>1 DEF Closed
    <2> QED
      BY <1>8, <2>1, <2>2
  <1>15. A \subseteq B
    <2>1. roots \cap DOMAIN r \subseteq B
      BY <1>8, <1>12, <1>13
    <2>2. Closed(r, B)
      <3>1. ASSUME NEW s \in B PROVE r[s].svcs \cap DOMAIN r \subseteq B
        <4>1. q[s] = r[s] /\ name \notin r[s].svcs /\ q[s].svcs \cap DOMAIN q \subseteq B
          BY <1>8, <1>10, <1>11, <1>14 DEF Closed
        <4> QED
          BY <1>13, <4>1
      <3> QED
        BY <3>1 DEF Closed
    <2> QED
      BY <1>7, <2>1, <2>2
  <1> QED
    BY <1>11, <1>14, <1>15 DEF A, B, r, q

LEMMA SameExpansion ==
  ASSUME NEW cat \in Catalogs, NEW other \in Catalogs, NEW name, NEW named, NEW sel \in SelectorSets,
         DOMAIN cat \ {name} = DOMAIN other \ {name}, \A s \in DOMAIN cat \ {name} : other[s] = cat[s],
         ~ReferenceService(named, cat, name), sel.svcs \subseteq named
  PROVE  ExpandDomains(other, sel) = ExpandDomains(cat, sel) /\ ExpandCIDRs(other, sel) = ExpandCIDRs(cat, sel)
  <1> DEFINE r == mergeFirewallTargetRegistry(cat)
             q == mergeFirewallTargetRegistry(other)
             fam == sel.doms \cap DOMAIN Families
             wide == sel.svcs \cup {Families[d] : d \in fam}
  <1>1. CASE name \in DOMAIN Presets
    <2>1. DOMAIN r = DOMAIN q
      BY <1>1, RegistryIs
    <2>2. q = r
      BY <1>1, <2>1 DEF mergeFirewallTargetRegistry
    <2> QED
      BY <2>2 DEF ExpandDomains, ExpandCIDRs
  <1>2. CASE name \notin DOMAIN Presets
    <2>1. sel.svcs \subseteq named \cup DOMAIN Presets /\ wide \subseteq named \cup DOMAIN Presets
      BY ServiceAssumption
    <2> HIDE DEF wide
    <2>2. Included(q, sel.svcs) = Included(r, sel.svcs) /\ \A s \in Included(r, sel.svcs) : q[s] = r[s]
      BY <1>2, <2>1, SameIncluded
    <2>3. Included(q, wide) = Included(r, wide) /\ \A s \in Included(r, wide) : q[s] = r[s]
      BY <1>2, <2>1, SameIncluded
    <2> HIDE DEF r, q
    <2> DEFINE A == Included(r, wide)
               B == Included(r, sel.svcs)
    <2>4. ExpandDomains(cat, sel) = (sel.doms \ fam) \cup UNION {r[s].doms : s \in A}
      BY DEF ExpandDomains, r, wide
    <2>5. ExpandDomains(other, sel) = (sel.doms \ fam) \cup UNION {q[s].doms : s \in A}
      BY <2>3 DEF ExpandDomains, q, wide
    <2>6. ExpandCIDRs(cat, sel) = sel.cidrs \cup UNION {r[s].cidrs : s \in B}
      BY DEF ExpandCIDRs, r
    <2>7. ExpandCIDRs(other, sel) = sel.cidrs \cup UNION {q[s].cidrs : s \in B}
      BY <2>2 DEF ExpandCIDRs, q
    <2>8. (\A s \in A : q[s] = r[s]) /\ (\A s \in B : q[s] = r[s])
      BY <2>2, <2>3
    <2> HIDE DEF A, B
    <2>9. {r[s].doms : s \in A} = {q[s].doms : s \in A} /\ {r[s].cidrs : s \in B} = {q[s].cidrs : s \in B}
      BY <2>8
    <2> QED
      BY <2>4, <2>5, <2>6, <2>7, <2>9
  <1> QED
    BY <1>1, <1>2

-------------------------------------------------------------------------------
(* Settings that are in use, and settings that mean the same. *)

\* The mode is the one in force, every service that is named exists, and a country is
\* chosen where country routing is on.
Formed(fw) == IF fw.enabled THEN FirewallRoutingEnabled(fw) ELSE fw.mode = "disabled"
Whole(fw) == ValidCatalog(fw.catalog) /\ \A sel \in ReferringSets(fw) : ParseFirewallTargets(sel, fw.catalog)
Sane(s) == s \in Settings /\ Located(s) /\ Formed(s.fw) /\ Whole(s.fw)

LEMMA Canonical ==
  ASSUME NEW fw \in Firewalls, Formed(fw)
  PROVE  CanonicalFirewallSettings(fw) = fw /\ CanonicalFirewallMode(fw) = fw.mode
  <1>1. fw.enabled \in BOOLEAN /\ fw.mode \in {"disabled", "hosts", "targets", "split"}
    BY DEF Firewalls
  <1>2. CanonicalFirewallMode(fw) = fw.mode
    BY <1>1 DEF CanonicalFirewallMode, Formed, FirewallRoutingEnabled
  <1> QED
    BY <1>2 DEF CanonicalFirewallSettings, Firewalls

\* What is rendered from settings depends on them only through this.
Alike(s, t) ==
    /\ s.dns = t.dns /\ s.fw.quic = t.fw.quic /\ s.fw.port = t.fw.port
    /\ FirewallRoutingEnabled(s.fw) <=> FirewallRoutingEnabled(t.fw)
    /\ FirewallRoutingEnabled(s.fw) => resolveFirewallPolicy(s.fw) = resolveFirewallPolicy(t.fw)
    /\ \A quic \in BOOLEAN : Generate(s, quic) = Generate(t, quic)

SameExpansions(fw, gw, sel) ==
    /\ ExpandDomains(gw.catalog, sel) = ExpandDomains(fw.catalog, sel)
    /\ ExpandCIDRs(gw.catalog, sel) = ExpandCIDRs(fw.catalog, sel)

LEMMA AlikeIf ==
  ASSUME NEW s \in Settings, NEW t \in Settings, s.dns = t.dns, s.fw.quic = t.fw.quic, s.fw.port = t.fw.port,
         s.fw.enabled = t.fw.enabled, s.fw.mode = t.fw.mode, s.fw.hosts = t.fw.hosts,
         s.fw.targets = t.fw.targets, s.fw.split = t.fw.split,
         s.country.on = t.country.on, s.country.on => s.country.code = t.country.code,
         s.fw.mode = "targets" => SameExpansions(s.fw, t.fw, s.fw.targets),
         s.fw.mode = "split" => SameExpansions(s.fw, t.fw, s.fw.split.proxy) /\ SameExpansions(s.fw, t.fw, s.fw.split.bypass)
  PROVE  Alike(s, t)
  <1> DEFINE fw == s.fw
             gw == t.fw
  <1>1. /\ fw \in Firewalls /\ gw \in Firewalls /\ fw.catalog \in Catalogs /\ gw.catalog \in Catalogs
        /\ fw.mode \in {"disabled", "hosts", "targets", "split"}
    BY DEF Settings, Firewalls
  <1>2. SameExpansions(fw, gw, Empty)
    BY <1>1, EmptyExpands DEF SameExpansions
  <1>3. FirewallRoutingEnabled(fw) <=> FirewallRoutingEnabled(gw)
    BY DEF FirewallRoutingEnabled, ModeHasSelectors
  <1>4. CanonicalFirewallMode(fw) = CanonicalFirewallMode(gw)
    BY DEF CanonicalFirewallMode, ModeHasSelectors
  <1>5. transparentSelectiveCapture(fw) = transparentSelectiveCapture(gw)
    BY <1>4 DEF transparentSelectiveCapture
  <1>6. backendConfigRequest(fw) = backendConfigRequest(gw)
    <2>1. CASE fw.mode = "targets"
      BY <1>2, <2>1 DEF backendConfigRequest, RequestOf, SameExpansions, DefaultSplit
    <2>2. CASE fw.mode = "split"
      BY <1>2, <2>2 DEF backendConfigRequest, RequestOf, SameExpansions
    <2>3. CASE fw.mode \notin {"targets", "split"}
      BY <1>2, <2>3 DEF backendConfigRequest, RequestOf, SameExpansions, DefaultSplit
    <2> QED
      BY <2>1, <2>2, <2>3
  <1>7. FirewallRoutingEnabled(fw) => resolveFirewallPolicy(fw) = resolveFirewallPolicy(gw)
    <2> SUFFICES ASSUME FirewallRoutingEnabled(fw) PROVE resolveFirewallPolicy(fw) = resolveFirewallPolicy(gw)
      OBVIOUS
    <2>1. fw.mode \in {"hosts", "targets", "split"} /\ CanonicalFirewallMode(fw) = fw.mode
      BY <1>1, PolicyIs
    <2>2. resolveFirewallPolicy(fw) = PolicyOf(fw, fw.mode) /\ resolveFirewallPolicy(gw) = PolicyOf(gw, fw.mode)
      BY <1>4, <2>1 DEF resolveFirewallPolicy
    <2>3. CASE fw.mode = "hosts"
      BY <1>2, <2>2, <2>3 DEF PolicyOf, SameExpansions
    <2>4. CASE fw.mode = "targets"
      BY <1>2, <2>2, <2>4 DEF PolicyOf, SameExpansions
    <2>5. CASE fw.mode = "split"
      BY <1>2, <2>2, <2>5 DEF PolicyOf, SameExpansions
    <2> QED
      BY <2>1, <2>3, <2>4, <2>5
  <1>8. countryDirectRules(s.country) = countryDirectRules(t.country)
    <2>1. CASE s.country.on
      <3>1. s.country.code = t.country.code /\ t.country.on
        BY <2>1
      <3> QED
        BY <2>1, <3>1 DEF countryDirectRules
    <2>2. CASE ~s.country.on
      BY <2>2 DEF countryDirectRules
    <2> QED
      BY <2>1, <2>2
  <1>9. ASSUME NEW quic \in BOOLEAN PROVE Generate(s, quic) = Generate(t, quic)
    <2> DEFINE R(u) == transparentRoutingRules(backendConfigRequest(u.fw), u.country, quic, transparentSelectiveCapture(u.fw))
    <2>1. R(s) = R(t)
      BY <1>5, <1>6, <1>8 DEF transparentRoutingRules, transparentSelectiveRoutingRules
    <2> HIDE DEF R
    <2> DEFINE port(u) == IF FirewallRoutingEnabled(u.fw) THEN u.fw.port ELSE None
               answers(u) == localDNSRuntimeEnabled(u.dns)
               rules(u) == directDNSRouteRules(u.dns) \o R(u)
    <2>2. /\ Generate(s, quic) = [port |-> port(s), dns |-> answers(s), rules |-> rules(s)]
          /\ Generate(t, quic) = [port |-> port(t), dns |-> answers(t), rules |-> rules(t)]
      BY DEF Generate, R
    <2>3. port(s) = port(t)
      BY <1>3
    <2>4. answers(s) = answers(t)
      OBVIOUS
    <2>5. rules(s) = rules(t)
      BY <2>1
    <2> HIDE DEF port, answers, rules
    <2> QED
      BY <2>2, <2>3, <2>4, <2>5
  <1> QED
    BY <1>3, <1>7, <1>9 DEF Alike

-------------------------------------------------------------------------------
(* What the operations save. *)

LEMMA NewFirewall ==
  ASSUME NEW s, Sane(s), NEW fw \in Firewalls, Formed(fw), Whole(fw)
  PROVE  LET t == [s EXCEPT !.fw = fw]
         IN  Sane(t) /\ t.fw = fw /\ t.country = s.country /\ t.dns = s.dns
  <1> DEFINE t == [s EXCEPT !.fw = fw]
  <1>1. s \in Settings
    BY DEF Sane
  <1>2. t \in Settings /\ t.fw = fw /\ t.country = s.country /\ t.dns = s.dns
    BY <1>1 DEF Settings
  <1> HIDE DEF t
  <1>3. Located(t)
    BY <1>2 DEF Sane, Located
  <1>4. Sane(t)
    BY <1>2, <1>3 DEF Sane
  <1> QED
    BY <1>2, <1>4 DEF t

\* Names that were known stay known, whatever the rest of the firewall settings.
LEMMA WholeIf ==
  ASSUME NEW fw, ValidCatalog(fw.catalog),
         \A sel \in ReferringSets(fw) : sel = Empty \/ ParseFirewallTargets(sel, fw.catalog)
  PROVE  Whole(fw)
  <1>1. ParseFirewallTargets(Empty, fw.catalog)
    BY DEF ParseFirewallTargets, Empty
  <1> QED
    BY <1>1 DEF Whole

LEMMA EmptyIs == Empty \in SelectorSets /\ DefaultSplit \in Splits
  BY DEF Empty, SelectorSets, DefaultSplit, Splits

LEMMA TargetsSaved ==
  ASSUME NEW fw \in Firewalls, Whole(fw), NEW sel \in SelectorSets, ParseFirewallTargets(sel, fw.catalog),
         NEW gw, gw = [fw EXCEPT !.enabled = TRUE, !.mode = "targets", !.hosts = {}, !.targets = sel,
                                 !.split = DefaultSplit, !.drafts.targets = sel],
         Validate(gw) = TRUE
  PROVE  gw \in Firewalls /\ Formed(gw) /\ Whole(gw) /\ gw.noV6 = fw.noV6
  <1>1. gw \in Firewalls
    BY EmptyIs DEF Firewalls
  <1>2. /\ gw.enabled /\ gw.mode = "targets" /\ gw.hosts = {} /\ gw.targets = sel /\ gw.split = DefaultSplit
        /\ gw.catalog = fw.catalog /\ gw.noV6 = fw.noV6
    BY DEF Firewalls
  <1>3. gw.drafts.targets = sel /\ gw.drafts.proxy = fw.drafts.proxy /\ gw.drafts.bypass = fw.drafts.bypass
    BY DEF Firewalls
  <1>4. Formed(gw)
    <2>1. CASE HasEntries(sel)
      BY <1>2, <2>1 DEF Formed, FirewallRoutingEnabled, ModeHasSelectors
    <2>2. CASE ~HasEntries(sel)
      <3>1. CanonicalFirewallMode(gw) = "disabled"
        BY <1>2, <2>2 DEF CanonicalFirewallMode, ModeHasSelectors, SplitRoutes, DefaultSplit, HasEntries
      <3> QED
        BY <3>1 DEF Validate
    <2> QED
      BY <2>1, <2>2
  <1>5. Whole(gw)
    <2>1. ReferringSets(gw) \subseteq {sel, Empty} \cup ReferringSets(fw)
      BY <1>2, <1>3 DEF ReferringSets, DefaultSplit
    <2>2. \A x \in ReferringSets(gw) : x = Empty \/ ParseFirewallTargets(x, gw.catalog)
      BY <1>2, <2>1 DEF Whole
    <2> QED
      BY <1>2, <2>2, WholeIf DEF Whole
  <1> QED
    BY <1>1, <1>2, <1>4, <1>5

\* The firewall settings configureFirewallSplit saves.
WithSplit(fw, split) ==
  [fw EXCEPT !.enabled = TRUE, !.mode = "split", !.hosts = {}, !.targets = Empty, !.split = split,
             !.drafts.proxy = split.proxy, !.drafts.bypass = split.bypass]

LEMMA SplitSaved ==
  ASSUME NEW fw \in Firewalls, Whole(fw), NEW split \in Splits, Validate(WithSplit(fw, split)) = TRUE,
         ParseFirewallTargets(split.proxy, fw.catalog), ParseFirewallTargets(split.bypass, fw.catalog)
  PROVE  LET gw == WithSplit(fw, split)
         IN  gw \in Firewalls /\ Formed(gw) /\ Whole(gw) /\ gw.noV6 = fw.noV6
  <1> DEFINE gw == WithSplit(fw, split)
             proxy == split.proxy
             bypass == split.bypass
  <1>1. split \in Splits /\ split.proxy = proxy /\ split.bypass = bypass
    OBVIOUS
  <1>2. gw = [fw EXCEPT !.enabled = TRUE, !.mode = "split", !.hosts = {}, !.targets = Empty, !.split = split,
                        !.drafts.proxy = proxy, !.drafts.bypass = bypass]
    BY DEF WithSplit
  <1>2t. proxy \in SelectorSets /\ bypass \in SelectorSets
    BY DEF Splits
  <1>2v. Validate(gw) = TRUE /\ ParseFirewallTargets(proxy, fw.catalog) /\ ParseFirewallTargets(bypass, fw.catalog)
    OBVIOUS
  <1> HIDE DEF gw, proxy, bypass
  <1> DEFINE aw == [fw EXCEPT !.enabled = TRUE, !.mode = "split", !.hosts = {}, !.targets = Empty, !.split = split]
             bw == [aw EXCEPT !.drafts.proxy = proxy]
             cw == [bw EXCEPT !.drafts.bypass = bypass]
  <1>2a. gw = cw
    BY ONLY <1>2
  <1>2b. /\ aw \in Firewalls /\ aw.enabled /\ aw.mode = "split" /\ aw.hosts = {} /\ aw.targets = Empty /\ aw.split = split
        /\ aw.catalog = fw.catalog /\ aw.noV6 = fw.noV6 /\ aw.drafts = fw.drafts
    BY <1>1, EmptyIs DEF Firewalls
  <1> HIDE DEF aw
  <1>2c. /\ bw \in Firewalls /\ bw.enabled = aw.enabled /\ bw.mode = aw.mode /\ bw.hosts = aw.hosts
        /\ bw.targets = aw.targets /\ bw.split = aw.split /\ bw.catalog = aw.catalog /\ bw.noV6 = aw.noV6
        /\ bw.drafts = [aw.drafts EXCEPT !.proxy = proxy]
    BY <1>2b, <1>2t DEF Firewalls
  <1> HIDE DEF bw
  <1>2d. /\ cw \in Firewalls /\ cw.enabled = bw.enabled /\ cw.mode = bw.mode /\ cw.hosts = bw.hosts
        /\ cw.targets = bw.targets /\ cw.split = bw.split /\ cw.catalog = bw.catalog /\ cw.noV6 = bw.noV6
        /\ cw.drafts = [bw.drafts EXCEPT !.bypass = bypass]
    BY <1>2c, <1>2t DEF Firewalls
  <1> HIDE DEF cw
  <1>3. gw \in Firewalls
    BY <1>2a, <1>2d
  <1>4. /\ gw.enabled /\ gw.mode = "split" /\ gw.hosts = {} /\ gw.targets = Empty /\ gw.split = split
        /\ gw.catalog = fw.catalog /\ gw.noV6 = fw.noV6
    BY ONLY <1>2a, <1>2b, <1>2c, <1>2d
  <1>5. gw.drafts.targets = fw.drafts.targets /\ gw.drafts.proxy = proxy /\ gw.drafts.bypass = bypass
    <2>1. aw.drafts \in [targets : SelectorSets, proxy : SelectorSets, bypass : SelectorSets]
      BY ONLY <1>2b DEF Firewalls
    <2> QED
      BY ONLY <1>2a, <1>2b, <1>2c, <1>2d, <2>1
  <1>6. Formed(gw)
    <2>1. CASE SplitRoutes(split)
      BY <1>4, <2>1 DEF Formed, FirewallRoutingEnabled, ModeHasSelectors
    <2>2. CASE ~SplitRoutes(split)
      <3>1. CanonicalFirewallMode(gw) = "disabled"
        BY <1>4, <2>2 DEF CanonicalFirewallMode, ModeHasSelectors, HasEntries
      <3> QED
        BY <1>2v, <3>1 DEF Validate
    <2> QED
      BY <2>1, <2>2
  <1>7. Whole(gw)
    <2>1. ReferringSets(gw) \subseteq {proxy, bypass, Empty} \cup ReferringSets(fw)
      BY <1>1, <1>4, <1>5 DEF ReferringSets
    <2>2. \A x \in ReferringSets(gw) : x = Empty \/ ParseFirewallTargets(x, gw.catalog)
      BY <1>2v, <1>4, <2>1 DEF Whole
    <2> QED
      BY <1>4, <2>2, WholeIf DEF Whole
  <1> QED
    BY <1>3, <1>4, <1>6, <1>7 DEF gw

LEMMA HostsSaved ==
  ASSUME NEW fw \in Firewalls, Whole(fw), NEW hosts \in SUBSET Host,
         NEW gw, gw = [fw EXCEPT !.enabled = TRUE, !.mode = "hosts", !.hosts = hosts, !.targets = Empty,
                                 !.split = DefaultSplit],
         Validate(gw) = TRUE
  PROVE  gw \in Firewalls /\ Formed(gw) /\ Whole(gw) /\ gw.noV6 = fw.noV6
  <1>1. gw \in Firewalls
    BY EmptyIs DEF Firewalls
  <1>2. /\ gw.enabled /\ gw.mode = "hosts" /\ gw.hosts = hosts /\ gw.targets = Empty /\ gw.split = DefaultSplit
        /\ gw.catalog = fw.catalog /\ gw.drafts = fw.drafts /\ gw.noV6 = fw.noV6
    BY DEF Firewalls
  <1>3. Formed(gw)
    <2>1. CASE hosts # {}
      BY <1>2, <2>1 DEF Formed, FirewallRoutingEnabled, ModeHasSelectors
    <2>2. CASE hosts = {}
      <3>1. CanonicalFirewallMode(gw) = "disabled"
        BY <1>2, <2>2 DEF CanonicalFirewallMode, ModeHasSelectors, SplitRoutes, DefaultSplit, HasEntries
      <3> QED
        BY <3>1 DEF Validate
    <2> QED
      BY <2>1, <2>2
  <1>4. Whole(gw)
    <2>1. ReferringSets(gw) \subseteq {Empty} \cup ReferringSets(fw)
      BY <1>2 DEF ReferringSets, DefaultSplit
    <2>2. \A x \in ReferringSets(gw) : x = Empty \/ ParseFirewallTargets(x, gw.catalog)
      BY <1>2, <2>1 DEF Whole
    <2> QED
      BY <1>2, <2>2, WholeIf DEF Whole
  <1> QED
    BY <1>1, <1>2, <1>3, <1>4

\* The fields that decide neither the mode nor the names.
LEMMA SwitchSaved ==
  ASSUME NEW fw \in Firewalls, Formed(fw), Whole(fw), NEW quic \in BOOLEAN, NEW noV6 \in BOOLEAN, NEW port \in Ports,
         NEW gw, gw = [fw EXCEPT !.quic = quic, !.noV6 = noV6, !.port = port]
  PROVE  gw \in Firewalls /\ Formed(gw) /\ Whole(gw)
  <1>1. gw \in Firewalls
    BY DEF Firewalls
  <1>2. /\ gw.enabled = fw.enabled /\ gw.mode = fw.mode /\ gw.hosts = fw.hosts /\ gw.targets = fw.targets
        /\ gw.split = fw.split /\ gw.catalog = fw.catalog /\ gw.drafts = fw.drafts
    BY DEF Firewalls
  <1>3. Formed(gw)
    BY <1>2 DEF Formed, FirewallRoutingEnabled, ModeHasSelectors
  <1>4. Whole(gw)
    BY <1>2 DEF Whole, ReferringSets
  <1> QED
    BY <1>1, <1>3, <1>4

LEMMA DisabledSaved ==
  ASSUME NEW fw \in Firewalls, Whole(fw),
         NEW gw, gw = [fw EXCEPT !.enabled = FALSE, !.mode = "disabled", !.hosts = {}, !.targets = Empty,
                                 !.split = DefaultSplit]
  PROVE  gw \in Firewalls /\ Formed(gw) /\ Whole(gw) /\ gw.noV6 = fw.noV6
  <1>1. gw \in Firewalls
    BY EmptyIs DEF Firewalls
  <1>2. /\ ~gw.enabled /\ gw.mode = "disabled" /\ gw.targets = Empty /\ gw.split = DefaultSplit
        /\ gw.catalog = fw.catalog /\ gw.drafts = fw.drafts /\ gw.noV6 = fw.noV6
    BY DEF Firewalls
  <1>3. Formed(gw)
    BY <1>2 DEF Formed
  <1>4. Whole(gw)
    <2>1. ReferringSets(gw) \subseteq {Empty} \cup ReferringSets(fw)
      BY <1>2 DEF ReferringSets, DefaultSplit
    <2>2. \A x \in ReferringSets(gw) : x = Empty \/ ParseFirewallTargets(x, gw.catalog)
      BY <1>2, <2>1 DEF Whole
    <2> QED
      BY <1>2, <2>2, WholeIf DEF Whole
  <1> QED
    BY <1>1, <1>2, <1>3, <1>4

\* Settings that differ where nothing is rendered from.
LEMMA FirewallAlike ==
  ASSUME NEW s, Sane(s), NEW gw \in Firewalls, NEW t, t = [s EXCEPT !.fw = gw],
         s.fw.quic = gw.quic, s.fw.port = gw.port, s.fw.enabled = gw.enabled, s.fw.mode = gw.mode, s.fw.hosts = gw.hosts,
         s.fw.targets = gw.targets, s.fw.split = gw.split,
         s.fw.mode = "targets" => SameExpansions(s.fw, gw, s.fw.targets),
         s.fw.mode = "split" => SameExpansions(s.fw, gw, s.fw.split.proxy) /\ SameExpansions(s.fw, gw, s.fw.split.bypass)
  PROVE  Alike(s, t)
  <1>1. s \in Settings
    BY DEF Sane
  <1>2. t \in Settings /\ t.fw = gw /\ t.country = s.country /\ t.dns = s.dns
    BY <1>1 DEF Settings
  <1>3. s.dns = t.dns /\ s.country.on = t.country.on /\ s.country.code = t.country.code
    BY <1>2
  <1> QED
    BY <1>1, <1>2, <1>3, AlikeIf

LEMMA DraftSaved ==
  ASSUME NEW fw \in Firewalls, Formed(fw), Whole(fw), NEW field \in {"targets", "proxy", "bypass"},
         NEW sel \in SelectorSets, ParseFirewallTargets(sel, fw.catalog), NEW gw, gw = [fw EXCEPT !.drafts[field] = sel]
  PROVE  /\ gw \in Firewalls /\ Formed(gw) /\ Whole(gw) /\ gw.noV6 = fw.noV6 /\ gw.quic = fw.quic /\ gw.port = fw.port
         /\ gw.enabled = fw.enabled /\ gw.mode = fw.mode /\ gw.hosts = fw.hosts /\ gw.targets = fw.targets
         /\ gw.split = fw.split /\ gw.catalog = fw.catalog
  <1> DEFINE D == [targets : SelectorSets, proxy : SelectorSets, bypass : SelectorSets]
  <1>1. fw.drafts \in D
    BY DEF Firewalls
  <1> DEFINE drafts == [fw.drafts EXCEPT ![field] = sel]
  <1>2. drafts \in D /\ {drafts.targets, drafts.proxy, drafts.bypass} \subseteq
                             {sel, fw.drafts.targets, fw.drafts.proxy, fw.drafts.bypass}
    <2>1. CASE field = "targets"
      BY <1>1, <2>1
    <2>2. CASE field = "proxy"
      BY <1>1, <2>2
    <2>3. CASE field = "bypass"
      BY <1>1, <2>3
    <2> QED
      BY <2>1, <2>2, <2>3
  <1>3. gw = [fw EXCEPT !.drafts = drafts]
    BY DEF Firewalls
  <1> HIDE DEF drafts
  <1>4. gw \in Firewalls
    BY ONLY fw \in Firewalls, <1>2, <1>3 DEF Firewalls
  <1>5. /\ gw.noV6 = fw.noV6 /\ gw.quic = fw.quic /\ gw.port = fw.port /\ gw.enabled = fw.enabled /\ gw.mode = fw.mode
        /\ gw.hosts = fw.hosts /\ gw.targets = fw.targets /\ gw.split = fw.split /\ gw.catalog = fw.catalog
        /\ gw.drafts = drafts
    BY ONLY fw \in Firewalls, <1>3 DEF Firewalls
  <1>6. Formed(gw)
    BY <1>5 DEF Formed, FirewallRoutingEnabled, ModeHasSelectors
  <1>7. Whole(gw)
    <2>1. ReferringSets(gw) \subseteq {sel} \cup ReferringSets(fw)
      BY <1>2, <1>5 DEF ReferringSets
    <2>2. \A x \in ReferringSets(gw) : ParseFirewallTargets(x, gw.catalog)
      BY <1>5, <2>1 DEF Whole
    <2> QED
      BY <1>5, <2>2 DEF Whole
  <1> QED
    BY <1>4, <1>5, <1>6, <1>7

\* The firewall settings with another catalogue.
LEMMA CatalogSaved ==
  ASSUME NEW fw \in Firewalls, Formed(fw), NEW catalog \in Catalogs, ValidCatalog(catalog),
         \A sel \in ReferringSets(fw) : ParseFirewallTargets(sel, catalog), NEW gw, gw = [fw EXCEPT !.catalog = catalog]
  PROVE  /\ gw \in Firewalls /\ Formed(gw) /\ Whole(gw) /\ gw.noV6 = fw.noV6 /\ gw.quic = fw.quic /\ gw.port = fw.port
         /\ gw.enabled = fw.enabled /\ gw.mode = fw.mode /\ gw.hosts = fw.hosts /\ gw.targets = fw.targets
         /\ gw.split = fw.split /\ gw.catalog = catalog
  <1>1. gw \in Firewalls
    BY DEF Firewalls
  <1>2. /\ gw.noV6 = fw.noV6 /\ gw.quic = fw.quic /\ gw.port = fw.port /\ gw.enabled = fw.enabled /\ gw.mode = fw.mode
        /\ gw.hosts = fw.hosts /\ gw.targets = fw.targets /\ gw.split = fw.split /\ gw.catalog = catalog
        /\ gw.drafts = fw.drafts
    BY DEF Firewalls
  <1>3. Formed(gw)
    BY <1>2 DEF Formed, FirewallRoutingEnabled, ModeHasSelectors
  <1>4. Whole(gw)
    BY <1>2 DEF Whole, ReferringSets
  <1> QED
    BY <1>1, <1>2, <1>3, <1>4

LEMMA ServiceSaved ==
  ASSUME NEW s, Sane(s), NEW name \in Svc, NEW def \in SelectorSets,
         ParseFirewallTargetDefinition(def, name, s.fw.catalog),
         NEW t, t = [s EXCEPT !.fw.catalog = WithService(@, name, def)]
  PROVE  Sane(t) /\ t.fw.noV6 = s.fw.noV6 /\ (~ActiveReferences(s.fw, name) => Alike(s, t))
  <1> DEFINE fw == s.fw
             cat == fw.catalog
             more == WithService(cat, name, def)
             gw == [fw EXCEPT !.catalog = more]
  <1>1. s \in Settings /\ fw \in Firewalls /\ cat \in Catalogs /\ Formed(fw) /\ Whole(fw)
    BY DEF Sane, Settings, Firewalls
  <1>2. /\ more \in Catalogs /\ DOMAIN more = DOMAIN cat \cup {name}
        /\ \A x \in DOMAIN cat \ {name} : more[x] = cat[x]
    BY <1>1, WithServiceIs
  <1>3. ValidCatalog(more) /\ name \notin DOMAIN Presets
    BY DEF ParseFirewallTargetDefinition
  <1>4. t = [s EXCEPT !.fw = gw]
    BY <1>1 DEF Settings, Firewalls
  <1> HIDE DEF more
  <1>5. \A sel \in ReferringSets(fw) : ParseFirewallTargets(sel, more)
    BY <1>1, <1>2, RegistryIs DEF Whole, ParseFirewallTargets
  <1>6. /\ gw \in Firewalls /\ Formed(gw) /\ Whole(gw) /\ gw.noV6 = fw.noV6 /\ gw.quic = fw.quic /\ gw.port = fw.port
        /\ gw.enabled = fw.enabled /\ gw.mode = fw.mode /\ gw.hosts = fw.hosts /\ gw.targets = fw.targets
        /\ gw.split = fw.split /\ gw.catalog = more
    BY <1>1, <1>2, <1>3, <1>5, CatalogSaved
  <1> HIDE DEF gw
  <1>7. Sane(t) /\ t.fw = gw
    <2>1. Sane([s EXCEPT !.fw = gw]) /\ [s EXCEPT !.fw = gw].fw = gw
      BY ONLY <1>6, Sane(s), NewFirewall
    <2> QED
      BY ONLY <1>4, <2>1
  <1>8. ASSUME ~ActiveReferences(fw, name) PROVE Alike(s, t)
    <2> DEFINE roots == CASE CanonicalFirewallMode(fw) = "targets" -> fw.targets.svcs
                          [] CanonicalFirewallMode(fw) = "split" -> fw.split.proxy.svcs \cup fw.split.bypass.svcs
                          [] OTHER -> {}
    <2>1. CanonicalFirewallMode(fw) = fw.mode
      BY <1>1, Canonical
    <2>2. fw.mode # "disabled" => ~ReferenceService(roots, cat, name)
      BY <1>1, <1>8 DEF ActiveReferences, Formed
    <2>3. /\ fw.mode = "targets" => fw.targets.svcs \subseteq roots
          /\ fw.mode = "split" => fw.split.proxy.svcs \subseteq roots /\ fw.split.bypass.svcs \subseteq roots
      BY <2>1
    <2> HIDE DEF roots
    <2>4. fw.targets \in SelectorSets /\ fw.split.proxy \in SelectorSets /\ fw.split.bypass \in SelectorSets
      BY <1>1 DEF Firewalls, Splits
    <2>5. DOMAIN cat \ {name} = DOMAIN more \ {name}
      BY <1>2
    <2>6. ASSUME NEW sel \in SelectorSets, sel.svcs \subseteq roots, fw.mode # "disabled"
          PROVE  SameExpansions(fw, gw, sel)
      <3>1. ~ReferenceService(roots, cat, name)
        BY <2>2, <2>6
      <3> QED
        BY <1>1, <1>2, <1>6, <2>5, <2>6, <3>1, SameExpansion DEF SameExpansions
    <2>7. /\ fw.mode = "targets" => SameExpansions(fw, gw, fw.targets)
          /\ fw.mode = "split" => SameExpansions(fw, gw, fw.split.proxy) /\ SameExpansions(fw, gw, fw.split.bypass)
      BY <2>3, <2>4, <2>6
    <2> QED
      BY <1>4, <1>6, <2>7, FirewallAlike
  <1> QED
    BY <1>6, <1>7, <1>8

LEMMA DeletionSaved ==
  ASSUME NEW s, Sane(s), NEW name, name \in DOMAIN s.fw.catalog, Deletable(s.fw, name),
         NEW t, t = [s EXCEPT !.fw.catalog = [x \in DOMAIN @ \ {name} |-> @[x]]]
  PROVE  Sane(t) /\ t.fw.noV6 = s.fw.noV6 /\ Alike(s, t)
  <1> DEFINE fw == s.fw
             cat == fw.catalog
             less == Without(cat, name)
             gw == [fw EXCEPT !.catalog = less]
  <1>1. s \in Settings /\ fw \in Firewalls /\ cat \in Catalogs /\ Formed(fw) /\ Whole(fw)
    BY DEF Sane, Settings, Firewalls
  <1>2. /\ less \in Catalogs /\ DOMAIN less = DOMAIN cat \ {name}
        /\ \A x \in DOMAIN cat \ {name} : less[x] = cat[x]
    BY <1>1, WithoutIs
  <1>3. ValidCatalog(less)
    BY <1>1, DeletedIsValid DEF Deletable, Whole
  <1>4. t = [s EXCEPT !.fw = gw]
    BY <1>1 DEF Settings, Firewalls, Without
  <1> HIDE DEF less
  <1>5. \A sel \in ReferringSets(fw) : ~ReferenceService(sel.svcs, cat, name) /\ name \notin sel.svcs
    BY DEF Deletable, ReferenceService
  <1>6. \A sel \in ReferringSets(fw) : ParseFirewallTargets(sel, less)
    BY <1>1, <1>2, <1>5, RegistryIs DEF Whole, ParseFirewallTargets
  <1>7. /\ gw \in Firewalls /\ Formed(gw) /\ Whole(gw) /\ gw.noV6 = fw.noV6 /\ gw.quic = fw.quic /\ gw.port = fw.port
        /\ gw.enabled = fw.enabled /\ gw.mode = fw.mode /\ gw.hosts = fw.hosts /\ gw.targets = fw.targets
        /\ gw.split = fw.split /\ gw.catalog = less
    BY <1>1, <1>2, <1>3, <1>6, CatalogSaved
  <1> HIDE DEF gw
  <1>8. Sane(t) /\ t.fw = gw
    <2>1. Sane([s EXCEPT !.fw = gw]) /\ [s EXCEPT !.fw = gw].fw = gw
      BY ONLY <1>7, Sane(s), NewFirewall
    <2> QED
      BY ONLY <1>4, <2>1
  <1>9. Alike(s, t)
    <2>1. {fw.targets, fw.split.proxy, fw.split.bypass} \subseteq SelectorSets \cap ReferringSets(fw)
      BY <1>1 DEF Firewalls, Splits, ReferringSets
    <2>2. DOMAIN cat \ {name} = DOMAIN less \ {name}
      BY <1>2
    <2>3. ASSUME NEW sel \in SelectorSets \cap ReferringSets(fw) PROVE SameExpansions(fw, gw, sel)
      <3>1. ~ReferenceService(sel.svcs, cat, name) /\ sel.svcs \subseteq sel.svcs
        BY <1>5
      <3> QED
        BY <1>1, <1>2, <1>7, <2>2, <3>1, SameExpansion DEF SameExpansions
    <2>4. SameExpansions(fw, gw, fw.targets) /\ SameExpansions(fw, gw, fw.split.proxy) /\ SameExpansions(fw, gw, fw.split.bypass)
      BY <2>1, <2>3
    <2> QED
      BY <1>4, <1>7, <2>4, FirewallAlike
  <1> QED
    BY <1>7, <1>8, <1>9

LEMMA Ensured ==
  ASSUME NEW s \in Settings, Located(s), Formed(s.fw), Whole(s.fw)
  PROVE  Sane(EnsureFirewall(s)) /\ EnsureFirewall(s).fw.noV6 = s.fw.noV6
  <1>1. CASE ~(s.country.on /\ ~s.fw.enabled)
    BY <1>1 DEF EnsureFirewall, Sane
  <1>2. CASE s.country.on /\ ~s.fw.enabled
    <2> DEFINE fw == s.fw
               split == [DefaultSplit EXCEPT !.default = "proxy"]
               gw == [fw EXCEPT !.enabled = TRUE, !.mode = "split", !.hosts = {}, !.targets = Empty, !.split = split]
    <2>1. fw \in Firewalls /\ Sane(s)
      BY DEF Settings, Sane
    <2>2. split \in Splits /\ split.proxy = Empty /\ split.bypass = Empty /\ split.default = "proxy"
      BY EmptyIs DEF DefaultSplit, Splits
    <2> HIDE DEF split
    <2>3. gw \in Firewalls
      BY <2>1, <2>2, EmptyIs DEF Firewalls
    <2>4. /\ gw.enabled /\ gw.mode = "split" /\ gw.targets = Empty /\ gw.split = split
          /\ gw.catalog = fw.catalog /\ gw.drafts = fw.drafts /\ gw.noV6 = fw.noV6
      BY <2>1 DEF Firewalls
    <2>5. EnsureFirewall(s) = [s EXCEPT !.fw = gw]
      BY <1>2, <2>1 DEF EnsureFirewall, Settings, Firewalls, split
    <2> HIDE DEF gw
    <2>6. Formed(gw)
      BY <2>2, <2>4 DEF Formed, FirewallRoutingEnabled, ModeHasSelectors, SplitRoutes
    <2>7. Whole(gw)
      <3>1. ReferringSets(gw) \subseteq {Empty} \cup ReferringSets(fw)
        BY <2>2, <2>4 DEF ReferringSets
      <3>2. \A x \in ReferringSets(gw) : x = Empty \/ ParseFirewallTargets(x, gw.catalog)
        BY <2>4, <3>1 DEF Whole
      <3> QED
        BY <2>4, <3>2, WholeIf DEF Whole
    <2> QED
      BY <2>1, <2>3, <2>4, <2>5, <2>6, <2>7, NewFirewall
  <1> QED
    BY <1>1, <1>2

-------------------------------------------------------------------------------
(* How the operations begin. *)

\* Three kinds of operation: one that reapplies the connection, one that saves what is
\* rendered the same (or is a patch), and the IPv6 switch.
Starts(op, new, then) ==
    /\ op \in Ops /\ Sane(new)
    /\ \/ then = reapplyCurrentConnectionWithReload(new) /\ new.fw.noV6 = cfg.fw.noV6
       \/ then = <<>> /\ new.fw.noV6 = cfg.fw.noV6 /\ (Alike(cfg, new) \/ (op = "patch" /\ new.fw # cfg.fw))
       \/ op # "country" /\ then = <<IF new.fw.noV6 THEN "ipv6 off" ELSE "ipv6 on">> /\ Alike(cfg, new)
Opens == \E op, new, then : Begin(op, new, then) /\ Starts(op, new, then)

Panels == [bypass : SelectorSets, excluded : SUBSET Host]

LEMMA AlikeItself == \A s : Alike(s, s)
  BY DEF Alike

LEMMA OpsAre ==
  /\ "targets" \in Ops /\ "split" \in Ops /\ "bypass" \in Ops /\ "hosts" \in Ops /\ "port" \in Ops /\ "quic" \in Ops
  /\ "ipv6" \in Ops /\ "disable" \in Ops /\ "draft" \in Ops /\ "service" \in Ops /\ "country" \in Ops
  /\ "patch" \in Ops /\ "setting" \in Ops /\ "dns" \in Ops /\ "disconnect" \in Ops
  BY DEF Ops

LEMMA Reconfigured ==
  ASSUME NEW op \in Ops, NEW fw, Sane(cfg), Reconfigure(op, fw),
         Validate(fw) = TRUE => fw \in Firewalls /\ Formed(fw) /\ Whole(fw) /\ fw.noV6 = cfg.fw.noV6
  PROVE  Opens
  <1> DEFINE new == [cfg EXCEPT !.fw = fw]
  <1>1. cfg \in Settings
    BY DEF Sane
  <1>2. new.fw = fw
    BY <1>1 DEF Settings
  <1>3. Validate(new.fw) = TRUE /\ Begin(op, new, reapplyCurrentConnectionWithReload(new))
    BY DEF Reconfigure
  <1>4. fw \in Firewalls /\ Formed(fw) /\ Whole(fw) /\ fw.noV6 = cfg.fw.noV6
    BY <1>2, <1>3
  <1>5. Sane(new) /\ new.fw.noV6 = cfg.fw.noV6
    BY <1>2, <1>4, NewFirewall
  <1> HIDE DEF new
  <1>6. Starts(op, new, reapplyCurrentConnectionWithReload(new))
    BY <1>5 DEF Starts
  <1> QED
    BY <1>3, <1>6 DEF Opens

LEMMA FirewallOpens ==
  ASSUME Sane(cfg)
  PROVE  /\ \A sel \in SelectorSets : ConfigureFirewall(sel) => Opens
         /\ \A op \in Ops, proxy \in SelectorSets, bypass \in SelectorSets, excluded \in SUBSET Host,
               default \in {"proxy", "direct"} : configureFirewallSplit(op, proxy, bypass, excluded, default) => Opens
         /\ \A hosts \in SUBSET Host : ConfigureFirewallHosts(hosts) => Opens
         /\ \A p \in Ports : UpdateFirewallPort(p) => Opens
         /\ \A on \in BOOLEAN : UpdateFirewallBlockQUIC(on) => Opens
         /\ \A off \in BOOLEAN : UpdateFirewallDisableIPv6(off) => Opens
         /\ DisableFirewall => Opens
  <1> DEFINE fw == cfg.fw
  <1>1. fw \in Firewalls /\ Formed(fw) /\ Whole(fw) /\ cfg \in Settings
    BY DEF Sane, Settings
  <1>2. ASSUME NEW sel \in SelectorSets, ConfigureFirewall(sel) PROVE Opens
    <2> DEFINE gw == [fw EXCEPT !.enabled = TRUE, !.mode = "targets", !.hosts = {}, !.targets = sel,
                                !.split = DefaultSplit, !.drafts.targets = sel]
    <2>1. ParseFirewallTargets(sel, fw.catalog) /\ Reconfigure("targets", gw)
      BY <1>2 DEF ConfigureFirewall
    <2>2. Validate(gw) = TRUE => gw \in Firewalls /\ Formed(gw) /\ Whole(gw) /\ gw.noV6 = fw.noV6
      BY <1>1, <2>1, TargetsSaved
    <2> HIDE DEF gw
    <2> QED
      BY <2>1, <2>2, Reconfigured, OpsAre
  <1>3. ASSUME NEW op \in Ops, NEW proxy \in SelectorSets, NEW bypass \in SelectorSets, NEW excluded \in SUBSET Host,
               NEW default \in {"proxy", "direct"}, configureFirewallSplit(op, proxy, bypass, excluded, default)
        PROVE  Opens
    <2> DEFINE split == [proxy |-> proxy, bypass |-> bypass, excluded |-> excluded, default |-> default]
               gw == [fw EXCEPT !.enabled = TRUE, !.mode = "split", !.hosts = {}, !.targets = Empty, !.split = split,
                                !.drafts.proxy = proxy, !.drafts.bypass = bypass]
    <2>1. ParseFirewallTargets(proxy, fw.catalog) /\ ParseFirewallTargets(bypass, fw.catalog) /\ Reconfigure(op, gw)
      BY <1>3 DEF configureFirewallSplit
    <2>2. Validate(gw) = TRUE => gw \in Firewalls /\ Formed(gw) /\ Whole(gw) /\ gw.noV6 = fw.noV6
      <3>1. split \in Splits /\ split.proxy = proxy /\ split.bypass = bypass
        BY DEF Splits
      <3> HIDE DEF split
      <3>2. gw = WithSplit(fw, split)
        BY <3>1 DEF WithSplit
      <3> HIDE DEF gw, fw
      <3> QED
        BY <1>1, <2>1, <3>1, <3>2, SplitSaved
    <2> HIDE DEF gw
    <2> QED
      BY <2>1, <2>2, Reconfigured, OpsAre
  <1>4. ASSUME NEW hosts \in SUBSET Host, ConfigureFirewallHosts(hosts) PROVE Opens
    <2> DEFINE gw == [fw EXCEPT !.enabled = TRUE, !.mode = "hosts", !.hosts = hosts, !.targets = Empty,
                                !.split = DefaultSplit]
    <2>1. Reconfigure("hosts", gw)
      BY <1>4 DEF ConfigureFirewallHosts
    <2>2. Validate(gw) = TRUE => gw \in Firewalls /\ Formed(gw) /\ Whole(gw) /\ gw.noV6 = fw.noV6
      BY <1>1, HostsSaved
    <2> HIDE DEF gw
    <2> QED
      BY <2>1, <2>2, Reconfigured, OpsAre
  <1>5. CanonicalFirewallSettings(fw) = fw
    BY <1>1, Canonical
  <1>6. ASSUME NEW quic \in BOOLEAN, NEW noV6 \in BOOLEAN, NEW port \in Ports
        PROVE  LET gw == [fw EXCEPT !.quic = quic, !.noV6 = noV6, !.port = port]
               IN  gw \in Firewalls /\ Formed(gw) /\ Whole(gw)
    BY <1>1, SwitchSaved
  <1>7. fw.quic \in BOOLEAN /\ fw.noV6 \in BOOLEAN /\ fw.port \in Ports
    BY <1>1 DEF Firewalls
  <1>8. ASSUME NEW p \in Ports, UpdateFirewallPort(p) PROVE Opens
    <2> DEFINE gw == [fw EXCEPT !.port = p]
    <2>1. Reconfigure("port", gw)
      BY <1>5, <1>8 DEF UpdateFirewallPort
    <2>2. gw = [fw EXCEPT !.quic = fw.quic, !.noV6 = fw.noV6, !.port = p] /\ gw.noV6 = fw.noV6
      BY <1>1 DEF Firewalls
    <2> HIDE DEF gw
    <2>3. gw \in Firewalls /\ Formed(gw) /\ Whole(gw)
      BY <1>6, <1>7, <2>2
    <2> QED
      BY <2>1, <2>2, <2>3, Reconfigured, OpsAre
  <1>9. ASSUME NEW on \in BOOLEAN, UpdateFirewallBlockQUIC(on) PROVE Opens
    <2> DEFINE gw == [fw EXCEPT !.quic = on]
    <2>1. Reconfigure("quic", gw)
      BY <1>5, <1>9 DEF UpdateFirewallBlockQUIC
    <2>2. gw = [fw EXCEPT !.quic = on, !.noV6 = fw.noV6, !.port = fw.port] /\ gw.noV6 = fw.noV6
      BY <1>1 DEF Firewalls
    <2> HIDE DEF gw
    <2>3. gw \in Firewalls /\ Formed(gw) /\ Whole(gw)
      BY <1>6, <1>7, <2>2
    <2> QED
      BY <2>1, <2>2, <2>3, Reconfigured, OpsAre
  <1>10. ASSUME NEW off \in BOOLEAN, UpdateFirewallDisableIPv6(off) PROVE Opens
    <2> DEFINE gw == [fw EXCEPT !.noV6 = off]
               new == [cfg EXCEPT !.fw = gw]
    <2>1. Begin("ipv6", new, <<IF off THEN "ipv6 off" ELSE "ipv6 on">>)
      BY <1>5, <1>10 DEF UpdateFirewallDisableIPv6
    <2>2. /\ gw = [fw EXCEPT !.quic = fw.quic, !.noV6 = off, !.port = fw.port] /\ gw.noV6 = off
          /\ gw.quic = fw.quic /\ gw.port = fw.port /\ gw.enabled = fw.enabled /\ gw.mode = fw.mode
          /\ gw.hosts = fw.hosts /\ gw.targets = fw.targets /\ gw.split = fw.split /\ gw.catalog = fw.catalog
      BY <1>1 DEF Firewalls
    <2> HIDE DEF gw
    <2>3. gw \in Firewalls /\ Formed(gw) /\ Whole(gw)
      BY <1>6, <1>7, <2>2
    <2>4. Sane(new) /\ new.fw = gw
      BY <2>3, NewFirewall
    <2>5. \A sel : SameExpansions(fw, gw, sel)
      BY <2>2 DEF SameExpansions
    <2>6. Alike(cfg, new)
      BY <2>2, <2>3, <2>5, FirewallAlike
    <2>7. new.fw.noV6 = off
      BY <2>2, <2>4
    <2> HIDE DEF new
    <2>8. Starts("ipv6", new, <<IF off THEN "ipv6 off" ELSE "ipv6 on">>)
      BY <2>4, <2>6, <2>7, OpsAre DEF Starts
    <2> QED
      BY <2>1, <2>8 DEF Opens
  <1>11. ASSUME DisableFirewall PROVE Opens
    <2> DEFINE gw == [fw EXCEPT !.enabled = FALSE, !.mode = "disabled", !.hosts = {}, !.targets = Empty,
                                !.split = DefaultSplit]
               new == [cfg EXCEPT !.fw = gw]
    <2>1. Begin("disable", new, reapplyCurrentConnectionWithReload(new))
      BY <1>11 DEF DisableFirewall
    <2>2. gw \in Firewalls /\ Formed(gw) /\ Whole(gw) /\ gw.noV6 = fw.noV6
      BY <1>1, DisabledSaved
    <2> HIDE DEF gw
    <2>3. Sane(new) /\ new.fw.noV6 = fw.noV6
      BY <2>2, NewFirewall
    <2> HIDE DEF new
    <2>4. Starts("disable", new, reapplyCurrentConnectionWithReload(new))
      BY <2>3, OpsAre DEF Starts
    <2> QED
      BY <2>1, <2>4 DEF Opens
  <1> QED
    BY <1>2, <1>3, <1>4, <1>8, <1>9, <1>10, <1>11

LEMMA CatalogOpens ==
  ASSUME Sane(cfg)
  PROVE  /\ \A field \in {"targets", "proxy", "bypass"}, sel \in SelectorSets : UpdateDraft(field, sel) => Opens
         /\ \A name \in Svc, def \in SelectorSets : SetFirewallTargetService(name, def) => Opens
         /\ \A name : DeleteFirewallTargetService(name) => Opens
  <1> DEFINE fw == cfg.fw
  <1>1. fw \in Firewalls /\ Formed(fw) /\ Whole(fw) /\ cfg \in Settings
    BY DEF Sane, Settings
  <1>2. ASSUME NEW field \in {"targets", "proxy", "bypass"}, NEW sel \in SelectorSets, UpdateDraft(field, sel) PROVE Opens
    <2> DEFINE gw == [fw EXCEPT !.drafts[field] = sel]
               new == [cfg EXCEPT !.fw.drafts[field] = sel]
    <2>1. ParseFirewallTargets(sel, fw.catalog) /\ Begin("draft", new, <<>>)
      BY <1>2 DEF UpdateDraft
    <2>2. new = [cfg EXCEPT !.fw = gw]
      BY <1>1 DEF Settings
    <2>3. /\ gw \in Firewalls /\ Formed(gw) /\ Whole(gw) /\ gw.noV6 = fw.noV6 /\ gw.quic = fw.quic /\ gw.port = fw.port
          /\ gw.enabled = fw.enabled /\ gw.mode = fw.mode /\ gw.hosts = fw.hosts /\ gw.targets = fw.targets
          /\ gw.split = fw.split /\ gw.catalog = fw.catalog
      BY <1>1, <2>1, DraftSaved
    <2> HIDE DEF gw, new
    <2>4. Sane(new) /\ new.fw = gw
      BY <2>2, <2>3, NewFirewall
    <2>5. \A x : SameExpansions(fw, gw, x)
      BY <2>3 DEF SameExpansions
    <2>6. Alike(cfg, new)
      BY <2>2, <2>3, <2>5, FirewallAlike
    <2>7. Starts("draft", new, <<>>)
      BY <2>3, <2>4, <2>6, OpsAre DEF Starts
    <2> QED
      BY <2>1, <2>7 DEF Opens
  <1>3. ASSUME NEW name \in Svc, NEW def \in SelectorSets, SetFirewallTargetService(name, def) PROVE Opens
    <2> DEFINE new == [cfg EXCEPT !.fw.catalog = WithService(@, name, def)]
               then == IF ActiveReferences(cfg.fw, name) THEN reapplyCurrentConnectionWithReload(new) ELSE <<>>
    <2>1. ParseFirewallTargetDefinition(def, name, fw.catalog) /\ Begin("service", new, then)
      BY <1>3 DEF SetFirewallTargetService
    <2>2. Sane(new) /\ new.fw.noV6 = fw.noV6 /\ (~ActiveReferences(fw, name) => Alike(cfg, new))
      BY <2>1, ServiceSaved
    <2> HIDE DEF new
    <2>3. Starts("service", new, then)
      BY <2>2, OpsAre DEF Starts
    <2> QED
      BY <2>1, <2>3 DEF Opens
  <1>4. ASSUME NEW name, DeleteFirewallTargetService(name) PROVE Opens
    <2> DEFINE new == [cfg EXCEPT !.fw.catalog = [s \in DOMAIN @ \ {name} |-> @[s]]]
    <2>1. name \in DOMAIN fw.catalog /\ Deletable(fw, name) /\ Begin("service", new, <<>>)
      BY <1>4 DEF DeleteFirewallTargetService
    <2>2. Sane(new) /\ new.fw.noV6 = fw.noV6 /\ Alike(cfg, new)
      BY <2>1, DeletionSaved
    <2> HIDE DEF new
    <2>3. Starts("service", new, <<>>)
      BY <2>2, OpsAre DEF Starts
    <2> QED
      BY <2>1, <2>3 DEF Opens
  <1> QED
    BY <1>2, <1>3, <1>4

LEMMA SettingsOpen ==
  ASSUME Sane(cfg)
  PROVE  /\ \A on \in BOOLEAN, code \in DOMAIN Geo \cup {None} : PatchCountry(on, code) => Opens
         /\ \A code \in DOMAIN Geo : SetCountry(code) => Opens
         /\ PatchSettings => Opens
         /\ SetSetting => Opens
         /\ \A mode \in {"system", "remote"} : UpdateDNS(mode) => Opens
  <1>1. cfg \in Settings /\ Located(cfg) /\ Formed(cfg.fw) /\ Whole(cfg.fw)
    BY DEF Sane
  <1>2. ASSUME NEW on \in BOOLEAN, NEW code \in DOMAIN Geo \cup {None}, PatchCountry(on, code) PROVE Opens
    <2> DEFINE s == [cfg EXCEPT !.country = [on |-> on, code |-> code]]
               new == EnsureFirewall(s)
    <2>1. (on => code # None) /\ Begin("country", new, reapplyCurrentConnectionWithReload(new))
      BY <1>2 DEF PatchCountry, CanonicalCountryRouting
    <2>2. s \in Settings /\ s.fw = cfg.fw /\ s.country.on = on /\ s.country.code = code
      BY <1>1 DEF Settings
    <2> HIDE DEF s
    <2>3. Sane(new) /\ new.fw.noV6 = cfg.fw.noV6
      BY <1>1, <2>1, <2>2, Ensured DEF Located
    <2> HIDE DEF new
    <2>4. Starts("country", new, reapplyCurrentConnectionWithReload(new))
      BY <2>3, OpsAre DEF Starts
    <2> QED
      BY <2>1, <2>4 DEF Opens
  <1>3. ASSUME NEW code \in DOMAIN Geo, SetCountry(code) PROVE Opens
    <2> DEFINE new == [cfg EXCEPT !.country.code = code]
               then == IF new.country.on THEN reapplyCurrentConnectionWithReload(new) ELSE <<>>
    <2>1. Begin("country", new, then)
      BY <1>3 DEF SetCountry
    <2>2. /\ new \in Settings /\ new.fw = cfg.fw /\ new.dns = cfg.dns
          /\ new.country.on = cfg.country.on /\ new.country.code = code
      BY <1>1 DEF Settings
    <2> HIDE DEF new
    <2>3. Sane(new)
      BY <1>1, <2>2 DEF Sane, Located
    <2>4. \A sel : SameExpansions(cfg.fw, new.fw, sel)
      BY <2>2 DEF SameExpansions
    <2>5. ~new.country.on => Alike(cfg, new)
      BY <1>1, <2>2, <2>4, AlikeIf
    <2>6. Starts("country", new, then)
      BY <2>2, <2>3, <2>5, OpsAre DEF Starts
    <2> QED
      BY <2>1, <2>6 DEF Opens
  <1>4. ASSUME PatchSettings PROVE Opens
    <2> DEFINE new == EnsureFirewall(cfg)
    <2>1. Begin("patch", new, <<>>)
      BY <1>4 DEF PatchSettings
    <2>2. Sane(new) /\ new.fw.noV6 = cfg.fw.noV6
      BY <1>1, Ensured
    <2>3. new = cfg \/ new.fw # cfg.fw
      <3>1. CASE cfg.country.on /\ ~cfg.fw.enabled
        <4>1. new.fw.enabled
          BY <1>1, <3>1 DEF EnsureFirewall, Settings, Firewalls
        <4> QED
          BY <3>1, <4>1
      <3>2. CASE ~(cfg.country.on /\ ~cfg.fw.enabled)
        BY <3>2 DEF EnsureFirewall
      <3> QED
        BY <3>1, <3>2
    <2> HIDE DEF new
    <2>4. Starts("patch", new, <<>>)
      BY <2>2, <2>3, AlikeItself, OpsAre DEF Starts
    <2> QED
      BY <2>1, <2>4 DEF Opens
  <1>5. ASSUME SetSetting PROVE Opens
    <2>1. PICK then \in {<<>>, reapplyCurrentConnectionWithReload(cfg)} : Begin("setting", cfg, then)
      BY <1>5 DEF SetSetting
    <2>2. Starts("setting", cfg, then)
      BY AlikeItself, OpsAre DEF Starts
    <2> QED
      BY <2>1, <2>2 DEF Opens
  <1>6. ASSUME NEW mode \in {"system", "remote"}, UpdateDNS(mode) PROVE Opens
    <2> DEFINE new == [cfg EXCEPT !.dns = mode]
    <2>1. Begin("dns", new, reapplyCurrentConnectionWithReload(new))
      BY <1>6 DEF UpdateDNS
    <2>2. new \in Settings /\ new.fw = cfg.fw /\ new.country = cfg.country
      BY <1>1 DEF Settings
    <2> HIDE DEF new
    <2>3. Sane(new)
      BY <1>1, <2>2 DEF Sane, Located
    <2>4. Starts("dns", new, reapplyCurrentConnectionWithReload(new))
      BY <2>2, <2>3, OpsAre DEF Starts
    <2> QED
      BY <2>1, <2>4 DEF Opens
  <1> QED
    BY <1>2, <1>3, <1>4, <1>5, <1>6

\* Every step opens an operation or is one of the others.
LEMMA Kinds ==
  ASSUME Sane(cfg), panel # None => panel \in Panels, Next
  PROVE  \/ Opens /\ panel' \in {panel, None}
         \/ PanelRead \/ Step \/ StepFails \/ Kill \/ Connect \/ Disconnect \/ SubscriptionChanges
  <1>1. Selections \subseteq SelectorSets /\ Definitions \subseteq SelectorSets /\ Sources \subseteq SUBSET Host
    BY InputAssumption
  <1>2. ASSUME NEW sel \in Selections, ConfigureFirewall(sel) PROVE Opens /\ panel' = panel
    BY <1>1, <1>2, FirewallOpens DEF ConfigureFirewall
  <1>3. ASSUME NEW p \in Selections, NEW b \in Selections, NEW x \in Sources, ConfigureFirewallSplit(p, b, x)
        PROVE  Opens /\ panel' = panel
    BY <1>1, <1>3, FirewallOpens, OpsAre DEF ConfigureFirewallSplit
  <1>4. ASSUME NEW b \in Selections, NEW x \in Sources, ConfigureFirewallBypass(b, x) PROVE Opens /\ panel' = panel
    BY <1>1, <1>4, FirewallOpens, EmptyIs, OpsAre DEF ConfigureFirewallBypass
  <1>5. ASSUME NEW h \in Sources, ConfigureFirewallHosts(h) PROVE Opens /\ panel' = panel
    BY <1>1, <1>5, FirewallOpens DEF ConfigureFirewallHosts
  <1>6. ASSUME NEW p \in Ports, UpdateFirewallPort(p) PROVE Opens /\ panel' = panel
    BY <1>6, FirewallOpens DEF UpdateFirewallPort
  <1>7. ASSUME NEW on \in BOOLEAN, UpdateFirewallBlockQUIC(on) \/ UpdateFirewallDisableIPv6(on) PROVE Opens /\ panel' = panel
    BY <1>7, FirewallOpens DEF UpdateFirewallBlockQUIC, UpdateFirewallDisableIPv6
  <1>8. ASSUME DisableFirewall PROVE Opens /\ panel' = panel
    BY <1>8, FirewallOpens DEF DisableFirewall
  <1>9. ASSUME NEW field \in {"targets", "proxy", "bypass"}, NEW sel \in Selections, UpdateDraft(field, sel)
        PROVE  Opens /\ panel' = panel
    BY <1>1, <1>9, CatalogOpens DEF UpdateDraft
  <1>10. ASSUME NEW s \in Svc, NEW def \in Definitions, SetFirewallTargetService(s, def) PROVE Opens
    BY <1>1, <1>10, CatalogOpens
  <1>11. ASSUME NEW s \in Svc, DeleteFirewallTargetService(s) PROVE Opens
    BY <1>11, CatalogOpens
  <1>12. ASSUME NEW on \in BOOLEAN, NEW code \in DOMAIN Geo \cup {None}, PatchCountry(on, code) PROVE Opens /\ panel' = panel
    BY <1>12, SettingsOpen DEF PatchCountry
  <1>13. ASSUME NEW code \in DOMAIN Geo, SetCountry(code) PROVE Opens /\ panel' = panel
    BY <1>13, SettingsOpen DEF SetCountry
  <1>14. ASSUME PatchSettings \/ SetSetting PROVE Opens /\ panel' = panel
    BY <1>14, SettingsOpen DEF PatchSettings, SetSetting
  <1>15. ASSUME NEW mode \in {"system", "remote"}, UpdateDNS(mode) PROVE Opens /\ panel' = panel
    BY <1>15, SettingsOpen DEF UpdateDNS
  <1>16. ASSUME NEW s \in Svc, NEW on \in BOOLEAN, routingGroupToggle(s, on) PROVE Opens /\ panel' = None
    <2> DEFINE bypass == [panel.bypass EXCEPT !.svcs = IF on THEN @ \cup {s} ELSE @ \ {s}]
    <2>1. panel \in Panels
      BY <1>16 DEF routingGroupToggle
    <2>2. panel.bypass \in SelectorSets /\ panel.excluded \in SUBSET Host
      BY <2>1 DEF Panels
    <2>3. bypass \in SelectorSets
      BY <2>2 DEF SelectorSets
    <2>4. configureFirewallSplit("bypass", Empty, bypass, panel.excluded, "proxy") /\ panel' = None
      BY <1>16 DEF routingGroupToggle
    <2> HIDE DEF bypass
    <2> QED
      BY <2>2, <2>3, <2>4, FirewallOpens, EmptyIs, OpsAre
  <1> QED
    BY <1>2, <1>3, <1>4, <1>5, <1>6, <1>7, <1>8, <1>9, <1>10, <1>11, <1>12, <1>13, <1>14, <1>15, <1>16 DEF Next

-------------------------------------------------------------------------------
(* The operation in progress. *)

Now(j) == Head(j.todo)
End(j) == Final(j.todo)
NoV6(s) == s.fw.noV6
Routing(s) == FirewallRoutingEnabled(s.fw)
Reapplied == {"snippet", "snippet off"}
IPv6Calls == {"ipv6 on", "ipv6 off"}

\* What operation j saves, what it has left to do while the settings are s and the
\* connection is c, and that its last call fits both.
Shape(j, s, c) ==
    /\ j \in Jobs /\ Left(j.todo) /\ Sane(j.new) /\ Sane(j.prev)
    /\ Now(j) # "save" => s = j.new
    /\ End(j) \in Reapplied \cup {"disconnected"} => c
    /\ End(j) = "xray off" => ~c
    /\ End(j) \in Reapplied => (End(j) = "snippet" <=> Routing(j.new))
    /\ j.back => j.op = "country" /\ j.new = j.prev /\ End(j) \in Reapplied \cup {"xray off"}
    /\ j.op = "country" => End(j) \in Reapplied \cup {"save", "xray off"} /\ (NoV6(j.prev) <=> NoV6(s))
    /\ End(j) = "ipv6 off" => NoV6(j.new)
    /\ End(j) = "ipv6 on" => ~NoV6(j.new)
    /\ Now(j) = "save" /\ End(j) \in Reapplied => (Second(j.todo) = "ipv6" <=> NoV6(j.new))
    /\ Now(j) = "ipv6" => NoV6(j.new)
    /\ Now(j) = "save" /\ End(j) \notin IPv6Calls => (NoV6(j.new) <=> NoV6(s))
    /\ Now(j) = "save" /\ End(j) \in IPv6Calls => Alike(s, j.new)
    /\ Now(j) = "save" /\ End(j) = "save" => Alike(s, j.new) \/ (j.op = "patch" /\ j.new.fw # s.fw)

\* The call g that follows call h of an operation whose last call is l.
Follows(l, h, g) ==
    /\ h \notin {"snippet", "disconnected", "ipv6 on", "ipv6 off"} /\ g # "save"
    /\ h = "save" => \/ l \in Reapplied /\ g \in {"ipv6", "xray"}
                     \/ l = "xray off" /\ g = "nft off"
                     \/ l \in IPv6Calls /\ g = l
    /\ h = "ipv6" => l \in Reapplied /\ g = "xray"
    /\ h = "xray" => l \in Reapplied /\ g = "dns"
    /\ h = "dns" => l \in Reapplied /\ g = (IF l = "snippet" THEN "nft" ELSE "nft off")
    /\ h = "nft" => l = "snippet" /\ g = "snippet"
    /\ h = "nft off" => l \in {"snippet off", "xray off", "disconnected"} /\ g = "snippet off"
    /\ h = "snippet off" => l \in {"xray off", "disconnected"} /\ g = "dns off"
    /\ h = "dns off" => l \in {"xray off", "disconnected"} /\ g = "xray off"
    /\ h = "xray off" => l = "disconnected" /\ g = "disconnected"
    /\ h \in {"save", "ipv6", "xray", "dns", "nft", "nft off", "snippet off", "dns off", "xray off"}

LEMMA AfterIs ==
  ASSUME NEW l \in Finals, NEW h, NEW g, <<h, g>> \in After(l)
  PROVE  Follows(l, h, g)
  BY DEF Follows, After, Applied, Stopped, Finals, Reapplied, IPv6Calls

\* The operation moves on to its next call.
LEMMA ShapeMoves ==
  ASSUME NEW j, NEW s, NEW c, Shape(j, s, c), Now(j) # End(j), NEW k, k = [j EXCEPT !.todo = Tail(@)]
  PROVE  /\ Shape(k, IF Now(j) = "save" THEN j.new ELSE s, c)
         /\ k \in Jobs /\ k.op = j.op /\ k.new = j.new /\ k.prev = j.prev /\ k.back = j.back
         /\ Now(k) = Second(j.todo) /\ End(k) = End(j) /\ End(j) \in Finals /\ <<Now(j), Now(k)>> \in After(End(j))
  <1> DEFINE t == j.todo
             u == Tail(t)
             h == Now(j)
             g == Now(k)
             l == End(j)
             r == IF h = "save" THEN j.new ELSE s
  <1>0. Shape(j, s, c)
    OBVIOUS
  <1>1. j \in Jobs /\ Left(t) /\ t \in Seq(Steps)
    BY DEF Shape, Jobs
  <1>2. Len(t) # 1
    BY <1>1, LeftMoves DEF Now, End
  <1>3. Left(u) /\ Final(u) = Final(t) /\ Head(u) = t[2] /\ <<t[1], t[2]>> \in After(Final(t)) /\ Head(t) = t[1]
    BY <1>1, <1>2, LeftMoves
  <1>4. u \in Seq(Steps)
    BY <1>3 DEF Left
  <1> HIDE DEF u
  <1>5. k = [j EXCEPT !.todo = u]
    BY DEF u
  <1>6. k \in Jobs /\ k.op = j.op /\ k.new = j.new /\ k.prev = j.prev /\ k.back = j.back /\ k.todo = u
    BY <1>1, <1>4, <1>5 DEF Jobs
  <1>7. g = Second(t) /\ End(k) = l /\ l \in Finals /\ <<h, g>> \in After(l) /\ Left(k.todo)
    BY <1>1, <1>3, <1>6 DEF Now, End, Second, Left
  <1> HIDE DEF h, g, l, t
  <1>8. Follows(l, h, g)
    BY ONLY <1>7, AfterIs
  <1>8a. g # "save" /\ (h = "save" /\ g = "ipv6" => l \in Reapplied) /\ (g = "ipv6" => h = "save")
    BY <1>8 DEF Follows, IPv6Calls
  <1>9. Shape(k, r, c)
    <2>1. h = Now(j) /\ g = Now(k) /\ l = End(j) /\ t = j.todo
      BY DEF h, g, l, t
    <2>2. h # "save" => r = s /\ s = j.new
      BY <2>1 DEF Shape
    <2>3. r = j.new
      BY <2>2
    <2>4. j.op = "country" => l \in Reapplied \cup {"save", "xray off"} /\ (NoV6(j.prev) <=> NoV6(r))
      BY <2>1, <2>2 DEF Shape, IPv6Calls, Reapplied
    <2>5. g = "ipv6" => NoV6(j.new)
      BY <1>7, <1>8, <1>8a, <2>1 DEF Shape, IPv6Calls
    <2> QED
      BY ONLY <1>0, <1>6, <1>7, <1>8a, <2>1, <2>3, <2>4, <2>5 DEF Shape
  <1> QED
    BY <1>6, <1>7, <1>9 DEF h, g, l, t

\* A change of the country routing goes back.
Returned(j, c) ==
    [j EXCEPT !.new = j.prev, !.back = TRUE,
              !.todo = <<"save">> \o (IF c THEN applyNodeSelection(j.prev) ELSE stopProxyTransport)]

LEMMA ShapeReturns ==
  ASSUME NEW j, NEW s, NEW c, Shape(j, s, c), j.op = "country"
  PROVE  LET k == Returned(j, c) IN Shape(k, s, c) /\ Now(k) = "save" /\ k.back /\ k # None
  <1> DEFINE k == Returned(j, c)
             then == IF c THEN applyNodeSelection(j.prev) ELSE stopProxyTransport
             t == <<"save">> \o then
  <1>0. k = [j EXCEPT !.new = j.prev, !.back = TRUE, !.todo = t]
    BY DEF Returned
  <1> HIDE DEF k, then
  <1>1. /\ j \in Jobs /\ Sane(j.prev) /\ (NoV6(j.prev) <=> NoV6(s)) /\ j.prev \in Settings
    BY DEF Shape, Sane
  <1>2. CASE c
    <2>1. then = applyNodeSelection(j.prev)
      BY <1>2 DEF then
    <2>2. /\ Left(t) /\ Head(t) = "save" /\ Final(t) \in Reapplied /\ (Final(t) = "snippet" <=> Routing(j.prev))
          /\ Second(t) = IF NoV6(j.prev) THEN "ipv6" ELSE "xray"
      BY <2>1, ApplyPrograms DEF Reapplied, Routing, NoV6
    <2> HIDE DEF t
    <2>4. t \in Seq(Steps)
      BY <2>2 DEF Left
    <2>5. /\ k \in Jobs /\ k.op = j.op /\ k.new = j.prev /\ k.prev = j.prev /\ k.back /\ k.todo = t
      BY <1>0, <1>1, <2>4 DEF Jobs
    <2>6. Now(k) = "save" /\ End(k) = Final(t) /\ End(k) \in Reapplied
      BY <2>2, <2>5 DEF Now, End
    <2>7. Shape(k, s, c)
      BY ONLY <1>1, <1>2, <2>2, <2>5, <2>6, j.op = "country" DEF Shape, Reapplied, IPv6Calls
    <2> QED
      BY <2>5, <2>6, <2>7, NoneAssumption DEF k
  <1>3. CASE ~c
    <2>1. then = stopProxyTransport
      BY <1>3 DEF then
    <2>2. Left(t) /\ Head(t) = "save" /\ Final(t) = "xray off"
      BY <2>1, StopPrograms
    <2> HIDE DEF t
    <2>4. t \in Seq(Steps)
      BY <2>2 DEF Left
    <2>5. /\ k \in Jobs /\ k.op = j.op /\ k.new = j.prev /\ k.prev = j.prev /\ k.back /\ k.todo = t
      BY <1>0, <1>1, <2>4 DEF Jobs
    <2>6. Now(k) = "save" /\ End(k) = "xray off"
      BY <2>2, <2>5 DEF Now, End
    <2>7. Shape(k, s, c)
      BY ONLY <1>1, <1>3, <2>2, <2>5, <2>6, j.op = "country" DEF Shape, Reapplied, IPv6Calls
    <2> QED
      BY <2>5, <2>6, <2>7, NoneAssumption DEF k
  <1> QED
    BY <1>2, <1>3

LEMMA JobIs ==
  ASSUME NEW op \in Ops, NEW new \in Settings, NEW t \in Seq(Steps), NEW prev \in Settings,
         NEW k, k = [op |-> op, new |-> new, todo |-> t, prev |-> prev, back |-> FALSE]
  PROVE  k \in Jobs /\ k.op = op /\ k.new = new /\ k.prev = prev /\ ~k.back /\ k.todo = t
  BY DEF Jobs

\* An operation begins.
LEMMA ShapeOpens ==
  ASSUME Sane(cfg), NEW op, NEW new, NEW then, Starts(op, new, then),
         NEW k, k = [op |-> op, new |-> new, todo |-> <<"save">> \o then, prev |-> cfg, back |-> FALSE]
  PROVE  Shape(k, cfg, conn) /\ Now(k) = "save" /\ ~k.back /\ k # None
  <1> DEFINE t == <<"save">> \o then
  <1>1. op \in Ops /\ Sane(new) /\ new \in Settings /\ cfg \in Settings
    BY DEF Starts, Sane
  <1>2. ASSUME Left(t), Head(t) = "save"
        PROVE  /\ k \in Jobs /\ k.op = op /\ k.new = new /\ k.prev = cfg /\ ~k.back /\ k.todo = t
               /\ Now(k) = "save" /\ End(k) = Final(t) /\ k # None
    <2> HIDE DEF t
    <2>1. k = [op |-> op, new |-> new, todo |-> t, prev |-> cfg, back |-> FALSE]
      BY DEF t
    <2>2. t \in Seq(Steps)
      BY <1>2 DEF Left
    <2>3. k \in Jobs /\ k.op = op /\ k.new = new /\ k.prev = cfg /\ ~k.back /\ k.todo = t
      BY ONLY <1>1, <2>1, <2>2, JobIs
    <2> QED
      BY <1>2, <2>3, NoneAssumption DEF Now, End
  <1>3. CASE then = reapplyCurrentConnectionWithReload(new) /\ new.fw.noV6 = cfg.fw.noV6
    <2>1. NoV6(new) <=> NoV6(cfg)
      BY <1>3 DEF NoV6
    <2>2. CASE conn
      <3>1. then = applyNodeSelection(new)
        BY <1>3, <2>2 DEF reapplyCurrentConnectionWithReload
      <3>2. /\ Left(t) /\ Head(t) = "save" /\ Final(t) \in Reapplied /\ (Final(t) = "snippet" <=> Routing(new))
            /\ Second(t) = IF NoV6(new) THEN "ipv6" ELSE "xray"
        BY <3>1, ApplyPrograms DEF Reapplied, Routing, NoV6
      <3>3. Shape(k, cfg, conn)
        <4> HIDE DEF t
        <4> QED
          BY <1>1, <1>2, <2>1, <2>2, <3>2 DEF Shape, Reapplied, IPv6Calls
      <3> QED
        BY <1>2, <3>2, <3>3
    <2>3. CASE ~conn
      <3>1. then = stopProxyTransport
        BY <1>3, <2>3 DEF reapplyCurrentConnectionWithReload
      <3>2. Left(t) /\ Head(t) = "save" /\ Final(t) = "xray off"
        BY <3>1, StopPrograms
      <3>3. Shape(k, cfg, conn)
        <4> HIDE DEF t
        <4> QED
          BY <1>1, <1>2, <2>1, <2>3, <3>2 DEF Shape, Reapplied, IPv6Calls
      <3> QED
        BY <1>2, <3>2, <3>3
    <2> QED
      BY <2>2, <2>3
  <1>4. CASE then = <<>> /\ new.fw.noV6 = cfg.fw.noV6 /\ (Alike(cfg, new) \/ (op = "patch" /\ new.fw # cfg.fw))
    <2>1. NoV6(new) <=> NoV6(cfg)
      BY <1>4 DEF NoV6
    <2>2. Left(t) /\ Head(t) = "save" /\ Final(t) = "save"
      BY <1>4, ShortPrograms
    <2>3. Shape(k, cfg, conn)
      <3> HIDE DEF t
      <3> QED
        BY <1>1, <1>2, <1>4, <2>1, <2>2 DEF Shape, Reapplied, IPv6Calls
    <2> QED
      BY <1>2, <2>2, <2>3
  <1>5. CASE op # "country" /\ then = <<IF new.fw.noV6 THEN "ipv6 off" ELSE "ipv6 on">> /\ Alike(cfg, new)
    <2> DEFINE v == IF NoV6(new) THEN "ipv6 off" ELSE "ipv6 on"
    <2>1. then = <<v>>
      BY <1>5 DEF NoV6
    <2>2. v \in {"ipv6 on", "ipv6 off"}
      OBVIOUS
    <2>3. Left(t) /\ Head(t) = "save" /\ Final(t) = v
      <3> HIDE DEF v
      <3> QED
        BY <2>1, <2>2, ShortPrograms
    <2>4. Shape(k, cfg, conn)
      <3> HIDE DEF t
      <3> QED
        BY <1>1, <1>2, <1>5, <2>3 DEF Shape, Reapplied, IPv6Calls
    <2> QED
      BY <1>2, <2>3, <2>4
  <1> QED
    BY <1>3, <1>4, <1>5 DEF Starts

\* A disconnect begins.
LEMMA ShapeDisconnects ==
  ASSUME Sane(cfg), conn,
         NEW k, k = [op |-> "disconnect", new |-> cfg, todo |-> stopProxyTransport \o <<"disconnected">>, prev |-> cfg, back |-> FALSE]
  PROVE  Shape(k, cfg, conn) /\ Now(k) = "nft off" /\ End(k) = "disconnected" /\ k # None
  <1> DEFINE t == stopProxyTransport \o <<"disconnected">>
  <1>1. Left(t) /\ Head(t) = "nft off" /\ Final(t) = "disconnected"
    BY StopPrograms
  <1> HIDE DEF t
  <1>2. k = [op |-> "disconnect", new |-> cfg, todo |-> t, prev |-> cfg, back |-> FALSE]
    BY DEF t
  <1>3. t \in Seq(Steps) /\ cfg \in Settings
    BY <1>1 DEF Left, Sane
  <1>4. k \in Jobs /\ k.op = "disconnect" /\ k.new = cfg /\ k.prev = cfg /\ ~k.back /\ k.todo = t
    BY <1>2, <1>3, OpsAre, JobIs
  <1>5. Now(k) = "nft off" /\ End(k) = "disconnected" /\ k # None
    BY <1>1, <1>4, NoneAssumption DEF Now, End
  <1>6. Shape(k, cfg, conn)
    BY <1>1, <1>4, <1>5 DEF Shape, Reapplied, IPv6Calls
  <1> QED
    BY <1>5, <1>6

-------------------------------------------------------------------------------
(* Types, and the operation in progress, step by step. *)

Snippets == [proxy : SUBSET Dom, bypass : SUBSET Dom]
QUIC(s, v) == s.fw.quic \/ v
Table(s, quic) == BuildNFTablesRules(resolveFirewallPolicy(s.fw), quic, s.fw.port)
Names(s) == buildDNSMasqNFTSetConfig(resolveFirewallPolicy(s.fw))

LEMMA RenderedTypes ==
  ASSUME NEW s, Sane(s), NEW v \in BOOLEAN
  PROVE  /\ QUIC(s, v) \in BOOLEAN
         /\ Generate(s, QUIC(s, v)) \in Configs /\ Generate(s, QUIC(s, v)) # None
         /\ Generate(s, QUIC(s, v)).dns = (s.dns = "remote")
         /\ Routing(s) => Table(s, QUIC(s, v)) \in Tables /\ Names(s) \in Snippets
         /\ NoSnippet \in Snippets
  <1>1. s \in Settings /\ Located(s) /\ s.fw \in Firewalls /\ s.fw.port \in Ports /\ s.fw.quic \in BOOLEAN
    BY DEF Sane, Settings, Firewalls
  <1>2. QUIC(s, v) \in BOOLEAN
    BY <1>1 DEF QUIC
  <1>3. /\ Generate(s, QUIC(s, v)) \in Configs /\ Generate(s, QUIC(s, v)) # None
        /\ Generate(s, QUIC(s, v)).dns = (s.dns = "remote")
    BY <1>1, <1>2, ConfigIs
  <1>4. NoSnippet \in Snippets
    BY DEF NoSnippet, Snippets
  <1>5. ASSUME Routing(s) PROVE Table(s, QUIC(s, v)) \in Tables /\ Names(s) \in Snippets
    <2> DEFINE p == resolveFirewallPolicy(s.fw)
    <2>1. p \in Policies
      BY <1>1, <1>5, PolicyIs DEF Routing
    <2> HIDE DEF p
    <2>2. BuildNFTablesRules(p, QUIC(s, v), s.fw.port) \in Tables
      BY <1>1, <1>2, <2>1, TableIs
    <2>3. buildDNSMasqNFTSetConfig(p) \in Snippets
      BY <1>4, <2>1 DEF buildDNSMasqNFTSetConfig, Policies, Snippets
    <2> QED
      BY <2>2, <2>3 DEF Table, Names, p
  <1> QED
    BY <1>2, <1>3, <1>4, <1>5

Typed ==
    /\ Sane(cfg) /\ conn \in BOOLEAN /\ vision \in BOOLEAN /\ dns \in BOOLEAN /\ ipv6 \in BOOLEAN
    /\ xray \in Configs \cup {None} /\ nft \in Tables \cup {None} /\ snippet \in Snippets
    /\ panel # None => panel \in Panels
    /\ unsettled \subseteq Reasons /\ faults \in 0..MaxFaults /\ ops \in 0..MaxOps
JobOK == job # None => Shape(job, cfg, conn)
Base == Typed /\ JobOK

\* What a call does.
LEMMA DoIs ==
  ASSUME NEW h, Do(h)
  PROVE  /\ cfg' = (IF h = "save" THEN job.new ELSE cfg) /\ conn' = (conn /\ h # "disconnected")
         /\ ipv6' = IF h \in {"ipv6", "ipv6 off"} THEN FALSE ELSE IF h = "ipv6 on" THEN TRUE ELSE ipv6
         /\ dns' = IF h = "dns" THEN cfg.dns = "remote" ELSE IF h = "dns off" THEN FALSE ELSE dns
         /\ xray' = IF h = "xray" THEN Generate(cfg, QUIC(cfg, vision)) ELSE IF h = "xray off" THEN None ELSE xray
         /\ nft' = IF h = "nft" THEN Table(cfg, QUIC(cfg, vision)) ELSE IF h = "nft off" THEN None ELSE nft
         /\ snippet' = IF h = "snippet" THEN Names(cfg) ELSE IF h = "snippet off" THEN NoSnippet ELSE snippet
  <1>1. managedTransparentBlockQUIC(cfg.fw) = QUIC(cfg, vision)
    BY DEF managedTransparentBlockQUIC, QUIC
  <1> QED
    BY <1>1 DEF Do, ipv6Apply, dnsApply, applyConfig, firewallApply, syncDNSMasqTargets, Table, Names, localDNSRuntimeEnabled

\* The calls leave a runtime of the right type.
LEMMA DoTyped ==
  ASSUME Base, job # None, Do(Now(job))
  PROVE  /\ Sane(cfg') /\ conn' \in BOOLEAN /\ dns' \in BOOLEAN /\ ipv6' \in BOOLEAN
         /\ xray' \in Configs \cup {None} /\ nft' \in Tables \cup {None} /\ snippet' \in Snippets
  <1> DEFINE h == Now(job)
             q == QUIC(cfg, vision)
  <1>1. /\ Sane(cfg) /\ conn \in BOOLEAN /\ vision \in BOOLEAN /\ dns \in BOOLEAN /\ ipv6 \in BOOLEAN
        /\ xray \in Configs \cup {None} /\ nft \in Tables \cup {None} /\ snippet \in Snippets
        /\ Shape(job, cfg, conn)
    BY DEF Base, Typed, JobOK
  <1>2. /\ Generate(cfg, q) \in Configs /\ NoSnippet \in Snippets
        /\ Routing(cfg) => Table(cfg, q) \in Tables /\ Names(cfg) \in Snippets
    BY <1>1, RenderedTypes
  <1>3. Sane(job.new) /\ (h # "save" => cfg = job.new) /\ Left(job.todo)
    BY <1>1 DEF Shape
  <1>4. h \in {"nft", "snippet"} => Routing(cfg)
    <2> SUFFICES ASSUME h \in {"nft", "snippet"} PROVE Routing(cfg)
      OBVIOUS
    <2>1. End(job) = "snippet"
      <3>1. CASE h = End(job)
        BY <1>3, <3>1 DEF Finals, Left, End
      <3>2. CASE h # End(job)
        <4>1. End(job) \in Finals /\ <<h, Second(job.todo)>> \in After(End(job))
          BY <1>3, <3>2, LeftMoves DEF Left, End, Now, Second
        <4>2. Follows(End(job), h, Second(job.todo))
          BY <4>1, AfterIs
        <4> QED
          BY <4>2 DEF Follows
      <3> QED
        BY <3>1, <3>2
    <2> QED
      BY <1>1, <1>3, <2>1 DEF Shape, Reapplied
  <1>5. Do(h)
    OBVIOUS
  <1> HIDE DEF h, q
  <1>6. /\ cfg' = (IF h = "save" THEN job.new ELSE cfg) /\ conn' = (conn /\ h # "disconnected")
        /\ ipv6' = IF h \in {"ipv6", "ipv6 off"} THEN FALSE ELSE IF h = "ipv6 on" THEN TRUE ELSE ipv6
        /\ dns' = IF h = "dns" THEN cfg.dns = "remote" ELSE IF h = "dns off" THEN FALSE ELSE dns
        /\ xray' = IF h = "xray" THEN Generate(cfg, q) ELSE IF h = "xray off" THEN None ELSE xray
        /\ nft' = IF h = "nft" THEN Table(cfg, q) ELSE IF h = "nft off" THEN None ELSE nft
        /\ snippet' = IF h = "snippet" THEN Names(cfg) ELSE IF h = "snippet off" THEN NoSnippet ELSE snippet
    BY <1>5, DoIs DEF q
  <1>10. Sane(cfg') /\ conn' \in BOOLEAN
    BY <1>1, <1>3, <1>6
  <1>11. dns' \in BOOLEAN /\ ipv6' \in BOOLEAN
    BY <1>1, <1>6
  <1>12. xray' \in Configs \cup {None} /\ nft' \in Tables \cup {None} /\ snippet' \in Snippets
    BY <1>1, <1>2, <1>4, <1>6
  <1> QED
    BY <1>10, <1>11, <1>12

LEMMA BaseInit == Init => Base
  <1> SUFFICES ASSUME Init PROVE Typed /\ JobOK
    BY DEF Base
  <1>1. Sane(cfg)
    <2> DEFINE fw == DefaultFirewall
               port == CHOOSE p \in Ports : TRUE
               split == [DefaultSplit EXCEPT !.default = "proxy"]
    <2>1. PICK country \in {[on |-> FALSE, code |-> None]} \cup [on : {TRUE}, code : DOMAIN Geo] :
             cfg = [fw |-> DefaultFirewall, country |-> country, dns |-> "remote"]
      BY DEF Init
    <2>2. country \in [on : BOOLEAN, code : DOMAIN Geo \cup {None}] /\ (country.on => country.code \in DOMAIN Geo)
      <3>1. CASE country = [on |-> FALSE, code |-> None]
        BY <3>1
      <3>2. CASE country \in [on : {TRUE}, code : DOMAIN Geo]
        <4>1. country.on = TRUE /\ country.code \in DOMAIN Geo /\ country = [on |-> country.on, code |-> country.code]
          BY <3>2
        <4> QED
          BY <4>1
      <3> QED
        BY <3>1, <3>2
    <2>3. port \in Ports
      BY SettingsBounds
    <2>4. split \in Splits /\ split.default = "proxy" /\ split.proxy = Empty /\ split.bypass = Empty
      BY EmptyIs DEF Splits, DefaultSplit
    <2>5. Catalog \in Catalogs /\ ValidCatalog(Catalog)
      BY InputAssumption
    <2> HIDE DEF port, split
    <2>6. fw = [enabled |-> TRUE, mode |-> "split", hosts |-> {}, targets |-> Empty, split |-> split, catalog |-> Catalog,
                drafts |-> [targets |-> Empty, proxy |-> Empty, bypass |-> Empty],
                quic |-> FALSE, noV6 |-> FALSE, port |-> port]
      BY DEF DefaultFirewall, port, split
    <2>7. fw \in Firewalls
      BY <2>3, <2>4, <2>5, <2>6, EmptyIs DEF Firewalls
    <2>8. Formed(fw)
      BY <2>4, <2>6 DEF Formed, FirewallRoutingEnabled, ModeHasSelectors, SplitRoutes
    <2>9. Whole(fw)
      <3>1. \A x \in ReferringSets(fw) : x = Empty
        BY <2>4, <2>6 DEF ReferringSets
      <3>2. fw.catalog = Catalog
        BY <2>6
      <3> QED
        BY <2>5, <3>1, <3>2, WholeIf
    <2> HIDE DEF fw
    <2>10. cfg \in Settings /\ cfg.fw = fw /\ cfg.country = country
      BY <2>1, <2>2, <2>7 DEF Settings, fw
    <2> QED
      BY <2>2, <2>8, <2>9, <2>10 DEF Sane, Located
  <1>2. /\ conn = FALSE /\ vision = FALSE /\ job = None /\ panel = None
        /\ xray = None /\ nft = None /\ snippet = NoSnippet /\ dns = FALSE /\ ipv6 = TRUE
        /\ unsettled = {} /\ faults = 0 /\ ops = 0
    BY DEF Init
  <1>3. NoSnippet \in Snippets
    BY DEF NoSnippet, Snippets
  <1> QED
    <2>1. faults \in 0..MaxFaults /\ ops \in 0..MaxOps
      BY <1>2, SettingsBounds
    <2>2. conn \in BOOLEAN /\ vision \in BOOLEAN /\ dns \in BOOLEAN /\ ipv6 \in BOOLEAN
      BY <1>2
    <2>3. xray \in Configs \cup {None} /\ nft \in Tables \cup {None} /\ snippet \in Snippets /\ unsettled \subseteq Reasons
      BY <1>2, <1>3
    <2> QED
      BY <1>1, <1>2, <2>1, <2>2, <2>3 DEF Typed, JobOK

\* An operation begins: nothing but the lock.
LEMMA BaseOpens ==
  ASSUME Base, Opens, panel' \in {panel, None}
  PROVE  /\ Base' /\ job = None /\ job' # None /\ Now(job') = "save" /\ ~job'.back
         /\ UNCHANGED <<cfg, conn, vision, xray, nft, snippet, dns, ipv6, unsettled, faults>>
  <1>1. PICK op, new, then : Begin(op, new, then) /\ Starts(op, new, then)
    BY DEF Opens
  <1>2. /\ job = None /\ ops < MaxOps /\ ops' = ops + 1
        /\ job' = [op |-> op, new |-> new, todo |-> <<"save">> \o then, prev |-> cfg, back |-> FALSE]
        /\ UNCHANGED <<cfg, conn, vision, xray, nft, snippet, dns, ipv6, unsettled, faults>>
    BY <1>1 DEF Begin, runtime
  <1>3. Shape(job', cfg, conn) /\ Now(job') = "save" /\ ~job'.back /\ job' # None
    BY <1>1, <1>2, ShapeOpens DEF Base, Typed
  <1>4. JobOK'
    BY <1>2, <1>3 DEF JobOK
  <1>5. ops' \in 0..MaxOps
    BY <1>2, SettingsBounds DEF Base, Typed
  <1>6. Typed'
    BY <1>2, <1>5 DEF Base, Typed
  <1> QED
    BY <1>2, <1>3, <1>4, <1>6 DEF Base

\* A disconnect begins.
LEMMA BaseDisconnects ==
  ASSUME Base, Disconnect
  PROVE  /\ Base' /\ job = None /\ job' # None /\ Now(job') = "nft off" /\ End(job') = "disconnected"
         /\ UNCHANGED <<cfg, conn, vision, xray, nft, snippet, dns, ipv6, panel, unsettled, faults, ops>>
  <1>1. /\ job = None /\ conn
        /\ job' = [op |-> "disconnect", new |-> cfg, todo |-> stopProxyTransport \o <<"disconnected">>, prev |-> cfg, back |-> FALSE]
        /\ UNCHANGED <<cfg, conn, vision, xray, nft, snippet, dns, ipv6, panel, unsettled, faults, ops>>
    BY DEF Disconnect, runtime
  <1>2. Shape(job', cfg, conn) /\ Now(job') = "nft off" /\ End(job') = "disconnected" /\ job' # None
    BY <1>1, ShapeDisconnects DEF Base, Typed
  <1>3. JobOK'
    BY <1>1, <1>2 DEF JobOK
  <1>4. Typed'
    BY <1>1 DEF Base, Typed
  <1> QED
    BY <1>1, <1>2, <1>3, <1>4 DEF Base

\* The lock is free: the panel reads, a subscription changes, a connection is made.
LEMMA BaseIdle ==
  ASSUME Base, PanelRead \/ SubscriptionChanges \/ Connect
  PROVE  Base' /\ job = None /\ job' = None
  <1>1. CASE PanelRead
    <2>1. cfg.fw.split.bypass \in SelectorSets /\ cfg.fw.split.excluded \in SUBSET Host
      BY DEF Base, Typed, Sane, Settings, Firewalls, Splits
    <2>2. panel' \in Panels
      BY <1>1, <2>1 DEF PanelRead, Panels
    <2>3. job = None /\ UNCHANGED <<cfg, conn, vision, xray, nft, snippet, dns, ipv6, job, unsettled, faults, ops>>
      BY <1>1 DEF PanelRead, runtime
    <2> QED
      BY <2>2, <2>3 DEF Base, Typed, JobOK
  <1>2. CASE SubscriptionChanges
    <2>1. /\ job = None /\ vision' = ~vision /\ ops < MaxOps /\ ops' = ops + 1
          /\ unsettled' = (IF conn THEN unsettled \cup {"late quic"} ELSE unsettled)
          /\ UNCHANGED <<cfg, conn, xray, nft, snippet, dns, ipv6, job, panel, faults>>
      BY <1>2 DEF SubscriptionChanges, runtime
    <2>2. ops' \in 0..MaxOps /\ unsettled' \subseteq Reasons /\ vision' \in BOOLEAN
      <3>0. ops \in 0..MaxOps /\ MaxOps \in Nat /\ ops < MaxOps /\ ops' = ops + 1
        BY <2>1, SettingsBounds DEF Base, Typed
      <3>1. ops' \in 0..MaxOps
        BY ONLY <3>0
      <3>2. unsettled' \subseteq Reasons
        BY <2>1 DEF Base, Typed, Reasons
      <3>3. vision' \in BOOLEAN
        BY <2>1
      <3> QED
        BY <3>1, <3>2, <3>3
    <2> QED
      BY <2>1, <2>2 DEF Base, Typed, JobOK
  <1>3. CASE Connect
    <2>1. Sane(cfg) /\ vision \in BOOLEAN
      BY DEF Base, Typed
    <2>2. managedTransparentBlockQUIC(cfg.fw) = QUIC(cfg, vision)
      BY DEF managedTransparentBlockQUIC, QUIC
    <2>3. /\ job = None /\ conn' = TRUE /\ ipv6' = (ipv6 /\ ~cfg.fw.noV6) /\ dns' = (cfg.dns = "remote")
          /\ xray' = Generate(cfg, QUIC(cfg, vision))
          /\ nft' = IF Routing(cfg) THEN Table(cfg, QUIC(cfg, vision)) ELSE None
          /\ snippet' = IF Routing(cfg) THEN Names(cfg) ELSE NoSnippet
          /\ unsettled' = unsettled \cap {"ipv6 left off"}
          /\ UNCHANGED <<cfg, vision, job, panel, faults, ops>>
      BY <1>3, <2>2 DEF Connect, localDNSRuntimeEnabled, Table, Names, Routing
    <2>4. xray' \in Configs /\ nft' \in Tables \cup {None} /\ snippet' \in Snippets
      BY <2>1, <2>3, RenderedTypes
    <2>5. conn' \in BOOLEAN /\ ipv6' \in BOOLEAN /\ dns' \in BOOLEAN /\ unsettled' \subseteq Reasons
      BY <2>3 DEF Base, Typed
    <2> QED
      BY <2>3, <2>4, <2>5 DEF Base, Typed, JobOK
  <1> QED
    BY <1>1, <1>2, <1>3

\* A call succeeds.
LEMMA BaseSteps ==
  ASSUME Base, Step
  PROVE  /\ Base' /\ job # None /\ Do(Now(job)) /\ unsettled' = Settled(Now(job))
         /\ UNCHANGED <<vision, panel, faults, ops>>
         /\ Now(job) \in Steps /\ End(job) \in Finals
         /\ Now(job) = End(job) => job' = None
         /\ Now(job) # End(job) =>
               /\ job' # None /\ Now(job') = Second(job.todo) /\ End(job') = End(job) /\ job'.back = job.back
               /\ Follows(End(job), Now(job), Now(job'))
  <1>1. /\ job # None /\ Do(Now(job)) /\ unsettled' = Settled(Now(job)) /\ UNCHANGED <<vision, panel, faults, ops>>
        /\ job' = IF Len(job.todo) = 1 THEN None ELSE [job EXCEPT !.todo = Tail(@)]
    BY DEF Step, Now
  <1>2. Shape(job, cfg, conn) /\ Left(job.todo)
    BY <1>1 DEF Base, JobOK, Shape
  <1>3. Now(job) \in Steps /\ End(job) \in Finals /\ (Len(job.todo) = 1 <=> Now(job) = End(job))
    BY <1>2, LeftMoves DEF Now, End, Left
  <1>4. unsettled' \subseteq Reasons
    <2>1. Settled(Now(job)) \subseteq unsettled \cup {"unapplied patch"}
      BY DEF Settled
    <2> QED
      BY <1>1, <2>1 DEF Base, Typed, Reasons
  <1>5. Typed'
    <2>1. /\ Sane(cfg') /\ conn' \in BOOLEAN /\ dns' \in BOOLEAN /\ ipv6' \in BOOLEAN
          /\ xray' \in Configs \cup {None} /\ nft' \in Tables \cup {None} /\ snippet' \in Snippets
      BY <1>1, DoTyped
    <2> QED
      BY <1>1, <1>4, <2>1 DEF Base, Typed
  <1>6. CASE Now(job) = End(job)
    BY <1>1, <1>3, <1>5, <1>6 DEF Base, JobOK
  <1>7. CASE Now(job) # End(job)
    <2>1. job' = [job EXCEPT !.todo = Tail(@)]
      BY <1>1, <1>3, <1>7
    <2>2. /\ Shape(job', IF Now(job) = "save" THEN job.new ELSE cfg, conn)
          /\ job' \in Jobs /\ job'.back = job.back
          /\ Now(job') = Second(job.todo) /\ End(job') = End(job) /\ <<Now(job), Now(job')>> \in After(End(job))
      BY <1>2, <1>7, <2>1, ShapeMoves, ZenonT(60)
    <2>3. Follows(End(job), Now(job), Now(job'))
      BY ONLY <1>3, <2>2, AfterIs
    <2>4. cfg' = (IF Now(job) = "save" THEN job.new ELSE cfg) /\ conn' = (conn /\ Now(job) # "disconnected")
      BY <1>1, DoIs
    <2>5. Now(job) # "disconnected"
      BY <2>3 DEF Follows
    <2>6. conn' = conn
      BY <2>4, <2>5 DEF Base, Typed
    <2>7. job' # None
      BY <2>2, NoneAssumption
    <2>8. Shape(job', cfg', conn')
      BY <2>2, <2>4, <2>6
    <2> QED
      BY <1>1, <1>3, <1>5, <1>7, <2>2, <2>3, <2>7, <2>8 DEF Base, JobOK
  <1> QED
    BY <1>6, <1>7

\* What a failed call leaves.
Failed(h) ==
    \/ UNCHANGED <<cfg, conn, xray, nft, snippet, dns, ipv6>>
    \/ h \notin {"save", "disconnected"} /\ Do(h)
    \/ h = "nft" /\ nft' = None /\ UNCHANGED <<cfg, conn, xray, snippet, dns, ipv6>>
Broke(h, back) == IF h = "save" /\ ~back THEN {} ELSE IF h = "ipv6 on" THEN {"ipv6 left off"} ELSE {"failed"}

\* A call fails, or the process is killed.
LEMMA BaseFails ==
  ASSUME Base, StepFails \/ Kill
  PROVE  /\ Base' /\ job # None /\ Now(job) \in Steps /\ faults' = faults + 1 /\ faults \in Nat
         /\ Failed(Now(job)) /\ cfg' = cfg /\ conn' = conn /\ UNCHANGED <<vision, panel, ops>>
         /\ \/ job' = None /\ unsettled' = unsettled \cup Broke(Now(job), job.back)
            \/ job' # None /\ Now(job') = "save" /\ job'.back /\ unsettled' = unsettled
  <1>1. job # None /\ faults < MaxFaults /\ faults' = faults + 1 /\ UNCHANGED <<vision, panel, ops>>
    BY DEF StepFails, Kill
  <1>2. Shape(job, cfg, conn) /\ Left(job.todo) /\ Now(job) \in Steps
    BY <1>1, LeftMoves DEF Base, JobOK, Shape, Now
  <1>3. Failed(Now(job))
    BY DEF StepFails, Kill, runtime, Failed, Now
  <1>4. cfg' = cfg /\ conn' = conn /\ dns' \in BOOLEAN /\ ipv6' \in BOOLEAN
        /\ xray' \in Configs \cup {None} /\ nft' \in Tables \cup {None} /\ snippet' \in Snippets
    <2>1. CASE UNCHANGED <<cfg, conn, xray, nft, snippet, dns, ipv6>>
      BY <2>1 DEF Base, Typed
    <2>2. CASE Now(job) \notin {"save", "disconnected"} /\ Do(Now(job))
      <3>1. cfg' = (IF Now(job) = "save" THEN job.new ELSE cfg) /\ conn' = (conn /\ Now(job) # "disconnected")
        BY <2>2, DoIs
      <3>2. cfg' = cfg /\ conn' = conn
        BY <2>2, <3>1 DEF Base, Typed
      <3> QED
        BY <1>1, <2>2, <3>2, DoTyped
    <2>3. CASE nft' = None /\ UNCHANGED <<cfg, conn, xray, snippet, dns, ipv6>>
      BY <2>3 DEF Base, Typed
    <2> QED
      BY <1>3, <2>1, <2>2, <2>3 DEF Failed
  <1>5. faults \in Nat /\ faults' \in 0..MaxFaults
    <2>1. faults \in 0..MaxFaults /\ MaxFaults \in Nat
      BY SettingsBounds DEF Base, Typed
    <2> QED
      BY <1>1, <2>1
  <1>6. ASSUME unsettled' \subseteq Reasons PROVE Typed'
    BY <1>1, <1>4, <1>5, <1>6 DEF Base, Typed
  <1>7. \/ job' = None /\ unsettled' = unsettled \cup Broke(Now(job), job.back)
        \/ job.op = "country" /\ ~job.back /\ job' = restoreSettingsRuntime(job) /\ unsettled' = unsettled
    BY DEF StepFails, Kill, Broken, Broke, Now
  <1>8. CASE job' = None /\ unsettled' = unsettled \cup Broke(Now(job), job.back)
    <2>1. unsettled' \subseteq Reasons
      BY <1>8 DEF Base, Typed, Reasons, Broke
    <2> QED
      BY <1>1, <1>2, <1>3, <1>4, <1>5, <1>6, <1>8, <2>1 DEF Base, JobOK
  <1>9. CASE job.op = "country" /\ ~job.back /\ job' = restoreSettingsRuntime(job) /\ unsettled' = unsettled
    <2>1. job' = Returned(job, conn)
      BY <1>9 DEF restoreSettingsRuntime, reapplyCurrentConnectionWithReload, Returned
    <2>2. job.op = "country"
      BY <1>9
    <2>3. Shape(job', cfg, conn) /\ Now(job') = "save" /\ job'.back /\ job' # None
      BY ONLY <1>2, <2>1, <2>2, ShapeReturns
    <2>4. JobOK'
      BY <1>4, <2>3 DEF JobOK
    <2>5. Typed'
      BY <1>6, <1>9 DEF Base, Typed
    <2> QED
      BY <1>1, <1>2, <1>3, <1>4, <1>5, <1>9, <2>3, <2>4, <2>5 DEF Base
  <1> QED
    BY <1>7, <1>8, <1>9

-------------------------------------------------------------------------------
(* Types, the catalogue and a country change that goes back. *)

LEMMA BaseKept ==
  ASSUME Base, [Next]_vars
  PROVE  Base'
  <1>1. CASE UNCHANGED vars
    BY <1>1 DEF vars, runtime, Base, Typed, JobOK
  <1>2. CASE Next
    <2>1. \/ Opens /\ panel' \in {panel, None}
          \/ PanelRead \/ Step \/ StepFails \/ Kill \/ Connect \/ Disconnect \/ SubscriptionChanges
      BY <1>2, Kinds DEF Base, Typed
    <2> QED
      BY <2>1, BaseOpens, BaseDisconnects, BaseIdle, BaseSteps, BaseFails
  <1> QED
    BY <1>1, <1>2

LEMMA BaseAlways == Spec => []Base
  <1>1. Init => Base
    BY BaseInit
  <1>2. Base /\ [Next]_vars => Base'
    BY BaseKept
  <1> QED
    BY <1>1, <1>2, PTL DEF Spec

\* Whatever is entered, fails or is killed, the settings, what is rendered from them and
\* the operation in progress keep their types; an operation always has a call left, and
\* only a change of the country routing goes back, to the settings it found
\* (restoreSettingsRuntime, service.go:3066).
THEOREM TypeCorrect == Spec => []TypeOK
  <1>1. Base => TypeOK
    <2> SUFFICES ASSUME Base PROVE TypeOK
      OBVIOUS
    <2>1. cfg \in Settings
      BY DEF Base, Typed, Sane
    <2>2. job # None => job \in Jobs /\ job.todo # <<>> /\ (job.back => job.op = "country" /\ job.new = job.prev)
      BY DEF Base, JobOK, Shape, Left
    <2>3. {conn, vision, dns, ipv6} \subseteq BOOLEAN
      BY DEF Base, Typed
    <2> QED
      BY <2>1, <2>2, <2>3 DEF Base, Typed, TypeOK, Snippets, Panels
  <1> QED
    BY <1>1, BaseAlways, PTL

\* No sequence of settings operations, not even one that writes back lists read before
\* another operation, leaves the policy, a draft or a service naming a service that is
\* gone, or a service that includes itself (deleteFirewallTargetService,
\* service.go:2180-2238; ParseFirewallTargetDefinition, domain/firewall.go:558-604).
THEOREM NoDanglingServiceTheorem == Spec => []NoDanglingService
  <1>1. Base => NoDanglingService
    BY DEF Base, Typed, Sane, Whole, NoDanglingService
  <1> QED
    BY <1>1, BaseAlways, PTL

\* A change of the country routing that failed ends, unless it fails again or the process
\* is killed, with the settings it found saved and reapplied to the last call
\* (restoreSettingsRuntime, service.go:3066).
THEOREM CountryAllOrNothingTheorem == Spec => CountryAllOrNothing
  <1>1. ASSUME Base, Next, job # None, job.back, job' = None, faults' = faults
        PROVE  cfg' = job.prev /\ "failed" \notin unsettled' /\ "unapplied patch" \notin unsettled'
    <2>1. \/ Opens /\ panel' \in {panel, None}
          \/ PanelRead \/ Step \/ StepFails \/ Kill \/ Connect \/ Disconnect \/ SubscriptionChanges
      BY <1>1, Kinds DEF Base, Typed
    <2>2. CASE Step
      <3>1. Do(Now(job)) /\ unsettled' = Settled(Now(job)) /\ Now(job) = End(job)
        BY <1>1, <2>2, BaseSteps
      <3>2. Shape(job, cfg, conn)
        BY <1>1 DEF Base, JobOK
      <3>3. End(job) \in {"snippet", "snippet off", "xray off"} /\ job.new = job.prev
        BY <1>1, <3>2 DEF Shape, Reapplied
      <3>4. cfg = job.prev
        BY <3>1, <3>2, <3>3 DEF Shape
      <3>5. cfg' = cfg
        BY <3>1, <3>3, DoIs
      <3>6. Len(job.todo) = 1
        BY <3>1, <3>2, LeftMoves DEF Shape, Now, End
      <3>7. Settled(Now(job)) = unsettled \cap {"ipv6 left off"}
        BY <3>1, <3>3, <3>6 DEF Settled
      <3> QED
        BY <3>1, <3>4, <3>5, <3>7
    <2>3. CASE StepFails \/ Kill
      <3>1. faults' = faults + 1 /\ faults \in Nat
        BY <1>1, <2>3, BaseFails
      <3>2. faults' = faults
        BY <1>1
      <3>3. faults # faults + 1
        BY <3>1
      <3> QED
        BY <3>1, <3>2, <3>3
    <2> QED
      BY <1>1, <2>1, <2>2, <2>3, BaseOpens, BaseDisconnects, BaseIdle
  <1>2. Base /\ [Next]_vars =>
          [job # None /\ job.back /\ job' = None /\ faults' = faults
             => cfg' = job.prev /\ "failed" \notin unsettled' /\ "unapplied patch" \notin unsettled']_vars
    BY <1>1
  <1> QED
    BY <1>2, BaseAlways, PTL DEF Spec, CountryAllOrNothing

-------------------------------------------------------------------------------
(* dnsmasq and IPv6. *)

\* The operation has not touched the runtime yet, or touches nothing but IPv6.
Quiet(j) == j = None \/ (Now(j) = "save" /\ ~j.back) \/ Now(j) \in IPv6Calls

\* dnsmasq forwards to Xray exactly when Xray answers DNS: so it is before the first and
\* after the last call; in between, what the calls that were made establish.
Answers(d, x) == d <=> (x # None /\ x.dns)
Forwards(h, l, s, d, x) ==
    /\ h = "dns" => x # None /\ (x.dns <=> s.dns = "remote")
    /\ l \in Reapplied /\ h \in {"nft", "snippet", "nft off", "snippet off"} => Answers(d, x)
    /\ h \in {"xray off", "disconnected"} => ~d
    /\ h = "disconnected" => x = None
Forwarding ==
    /\ Quiet(job) /\ "failed" \notin unsettled => Answers(dns, xray)
    /\ job # None => Forwards(Now(job), End(job), cfg, dns, xray)

\* What the calls that settle nothing leave of the history.
LEMMA SettledIs ==
  ASSUME NEW h
  PROVE  /\ Settled(h) \subseteq unsettled \cup {"unapplied patch"}
         /\ h \in {"save", "ipv6 off"} => unsettled \subseteq Settled(h)
         /\ h = "ipv6 on" => unsettled \subseteq Settled(h) \cup {"ipv6 left off"}
         /\ h # "ipv6 on" /\ unsettled \subseteq Reasons =>
               unsettled \subseteq Settled(h) \cup {"failed", "late quic", "unapplied patch"}
         /\ h \notin {"save", "ipv6 on", "snippet", "snippet off", "xray off", "disconnected"} => Settled(h) = unsettled
  <1>1. Settled(h) \in {unsettled, unsettled \cap {"ipv6 left off"}, unsettled \ {"ipv6 left off"}, unsettled \cup {"unapplied patch"}}
    BY DEF Settled
  <1>2. h \in {"save", "ipv6 off"} => Settled(h) \in {unsettled, unsettled \cup {"unapplied patch"}}
    BY DEF Settled
  <1>3. h = "ipv6 on" => Settled(h) = unsettled \ {"ipv6 left off"}
    BY DEF Settled
  <1>4. h # "ipv6 on" => Settled(h) \in {unsettled, unsettled \cap {"ipv6 left off"}, unsettled \cup {"unapplied patch"}}
    BY DEF Settled
  <1>5. h \notin {"save", "ipv6 on", "snippet", "snippet off", "xray off", "disconnected"} => Settled(h) = unsettled
    BY DEF Settled
  <1>6. h # "ipv6 on" /\ unsettled \subseteq Reasons =>
          unsettled \subseteq Settled(h) \cup {"failed", "late quic", "unapplied patch"}
    BY <1>4 DEF Reasons
  <1> QED
    BY <1>1, <1>2, <1>3, <1>5, <1>6

LEMMA ForwardingSteps ==
  ASSUME Base, Forwarding, Step
  PROVE  Forwarding'
  <1> DEFINE h == Now(job)
             l == End(job)
             g == Now(job')
             back == job.back
  <1>1. /\ job # None /\ Do(h) /\ unsettled' = Settled(h) /\ h \in Steps /\ l \in Finals
        /\ h = l => job' = None
        /\ h # l => job' # None /\ End(job') = l /\ job'.back = back /\ Follows(l, h, g)
    BY BaseSteps
  <1>2. /\ Sane(cfg) /\ vision \in BOOLEAN /\ dns \in BOOLEAN /\ xray \in Configs \cup {None}
    BY DEF Base, Typed
  <1>3. back => l \in Reapplied \cup {"xray off"}
    BY <1>1 DEF Base, JobOK, Shape
  <1>4. Quiet(job) <=> (h = "save" /\ ~back) \/ h \in IPv6Calls
    BY <1>1 DEF Quiet
  <1>5. Quiet(job') <=> h = l \/ (g = "save" /\ ~back) \/ g \in IPv6Calls
    BY <1>1 DEF Quiet
  <1>6. Forwards(h, l, cfg, dns, xray) /\ (Quiet(job) /\ "failed" \notin unsettled => Answers(dns, xray))
    BY <1>1 DEF Forwarding
  <1> DEFINE x == Generate(cfg, QUIC(cfg, vision))
  <1>7. x \in Configs /\ x # None /\ x.dns = (cfg.dns = "remote")
    BY <1>2, RenderedTypes
  <1> HIDE DEF h, l, g, back, x
  <1>8. /\ dns' = IF h = "dns" THEN cfg.dns = "remote" ELSE IF h = "dns off" THEN FALSE ELSE dns
        /\ xray' = IF h = "xray" THEN x ELSE IF h = "xray off" THEN None ELSE xray
        /\ h # "save" => cfg' = cfg
    BY <1>1, DoIs DEF x
  <1>9. (h \in {"save", "ipv6 off", "ipv6 on"} /\ "failed" \notin unsettled' => "failed" \notin unsettled)
    BY <1>1, SettledIs
  <1>10. h = l \/ Quiet(job') => ("failed" \notin unsettled' => Answers(dns', xray'))
    <2> SUFFICES ASSUME h = l \/ Quiet(job'), "failed" \notin unsettled' PROVE Answers(dns', xray')
      OBVIOUS
    <2>1. CASE h \in {"save", "ipv6 on", "ipv6 off"}
      <3>1. Quiet(job)
        BY <1>1, <1>3, <1>4, <1>5, <2>1 DEF Follows, IPv6Calls, Reapplied, Finals
      <3>2. Answers(dns, xray) /\ dns' = dns /\ xray' = xray
        BY <1>6, <1>8, <1>9, <2>1, <3>1
      <3> QED
        BY <3>2
    <2>2. CASE h \notin {"save", "ipv6 on", "ipv6 off"}
      <3>1. h = l
        BY <1>1, <1>5, <2>2 DEF Follows, IPv6Calls
      <3>2. CASE h \in Reapplied
        <4>1. dns' = dns /\ xray' = xray /\ Answers(dns, xray)
          BY <1>6, <1>8, <3>1, <3>2 DEF Forwards, Reapplied
        <4> QED
          BY <4>1
      <3>3. CASE h \in {"xray off", "disconnected"}
        <4>1. ~dns' /\ xray' = None
          BY <1>6, <1>8, <3>3 DEF Forwards
        <4> QED
          BY <4>1 DEF Answers
      <3> QED
        BY <1>1, <2>2, <3>1, <3>2, <3>3 DEF Finals, Reapplied
    <2> QED
      BY <2>1, <2>2
  <1>11. h # l => Forwards(g, l, cfg', dns', xray')
    <2> SUFFICES ASSUME h # l PROVE Forwards(g, l, cfg', dns', xray')
      OBVIOUS
    <2>1. Follows(l, h, g)
      BY <1>1
    <2>2. CASE h \in {"save", "ipv6", "snippet off"}
      <3>1. g \in {"ipv6", "xray", "dns off", "ipv6 on", "ipv6 off"} \/ (g = "nft off" /\ l \notin Reapplied)
        BY <2>1, <2>2 DEF Follows, IPv6Calls, Reapplied
      <3> QED
        BY <3>1 DEF Forwards
    <2>3. CASE h = "xray"
      <3>1. g = "dns" /\ xray' = x /\ cfg' = cfg
        BY <1>8, <2>1, <2>3 DEF Follows
      <3>2. xray' # None /\ (xray'.dns <=> cfg'.dns = "remote")
        BY <1>7, <3>1
      <3> QED
        BY <3>1, <3>2 DEF Forwards
    <2>4. CASE h = "dns"
      <3>1. g \in {"nft", "nft off"} /\ xray' = xray /\ dns' = (cfg.dns = "remote")
        BY <1>8, <2>1, <2>4 DEF Follows
      <3>2. xray # None /\ (xray.dns <=> cfg.dns = "remote")
        BY <1>6, <2>4 DEF Forwards
      <3>3. Answers(dns', xray')
        BY <3>1, <3>2 DEF Answers
      <3> QED
        BY <3>1, <3>3 DEF Forwards
    <2>5. CASE h \in {"nft", "nft off"}
      <3>1. g \in {"snippet", "snippet off"} /\ xray' = xray /\ dns' = dns
        BY <1>8, <2>1, <2>5 DEF Follows
      <3>2. l \in Reapplied => Answers(dns', xray')
        BY <1>6, <2>5, <3>1 DEF Forwards
      <3> QED
        BY <3>1, <3>2 DEF Forwards
    <2>6. CASE h = "dns off"
      <3>1. g = "xray off" /\ ~dns'
        BY <1>8, <2>1, <2>6 DEF Follows
      <3> QED
        BY <3>1 DEF Forwards
    <2>7. CASE h = "xray off"
      <3>1. g = "disconnected" /\ ~dns' /\ xray' = None
        BY <1>6, <1>8, <2>1, <2>7 DEF Follows, Forwards
      <3> QED
        BY <3>1 DEF Forwards
    <2> QED
      BY <2>1, <2>2, <2>3, <2>4, <2>5, <2>6, <2>7 DEF Follows
  <1>12. job' # None => h # l
    BY <1>1
  <1>13. job' # None => Forwards(g, l, cfg', dns', xray') /\ g = Now(job') /\ l = End(job')
    BY <1>1, <1>11, <1>12 DEF g, l
  <1> QED
    BY <1>5, <1>10, <1>13 DEF Forwarding

LEMMA ForwardingInit == Init => Forwarding
  BY DEF Init, Forwarding, Answers

LEMMA ForwardingKept ==
  ASSUME Base, Forwarding, [Next]_vars
  PROVE  Forwarding'
  <1>1. CASE UNCHANGED vars
    BY <1>1 DEF vars, runtime, Forwarding
  <1>2. CASE Next
    <2>1. \/ Opens /\ panel' \in {panel, None}
          \/ PanelRead \/ Step \/ StepFails \/ Kill \/ Connect \/ Disconnect \/ SubscriptionChanges
      BY <1>2, Kinds DEF Base, Typed
    <2>2. CASE Opens /\ panel' \in {panel, None}
      <3>1. /\ job = None /\ job' # None /\ Now(job') = "save" /\ ~job'.back
            /\ UNCHANGED <<cfg, conn, vision, xray, nft, snippet, dns, ipv6, unsettled, faults>>
        BY <2>2, BaseOpens
      <3>2. "failed" \notin unsettled' => Answers(dns', xray')
        BY <3>1 DEF Forwarding, Quiet
      <3>3. Forwards(Now(job'), End(job'), cfg', dns', xray')
        BY <3>1 DEF Forwards
      <3> QED
        BY <3>2, <3>3 DEF Forwarding
    <2>3. CASE Disconnect
      <3>1. job' # None /\ Now(job') = "nft off" /\ End(job') = "disconnected"
        BY <2>3, BaseDisconnects
      <3>2. ~Quiet(job')
        BY <3>1 DEF Quiet, IPv6Calls
      <3>3. Forwards(Now(job'), End(job'), cfg', dns', xray')
        BY <3>1 DEF Forwards, Reapplied
      <3> QED
        BY <3>2, <3>3 DEF Forwarding
    <2>4. CASE Connect
      <3>1. job' = None /\ Sane(cfg) /\ vision \in BOOLEAN
        BY <2>4, BaseIdle DEF Base, Typed
      <3>2. dns' = (cfg.dns = "remote") /\ xray' = Generate(cfg, QUIC(cfg, vision))
        BY <2>4 DEF Connect, localDNSRuntimeEnabled, managedTransparentBlockQUIC, QUIC
      <3>3. xray' # None /\ xray'.dns = (cfg.dns = "remote")
        BY <3>1, <3>2, RenderedTypes
      <3>4. Answers(dns', xray')
        BY <3>2, <3>3 DEF Answers
      <3> QED
        BY <3>1, <3>4 DEF Forwarding
    <2>5. CASE PanelRead \/ SubscriptionChanges
      <3>1. job = None /\ job' = None
        BY <2>5, BaseIdle
      <3>2. dns' = dns /\ xray' = xray /\ unsettled \subseteq unsettled'
        BY <2>5 DEF PanelRead, SubscriptionChanges, runtime
      <3>3. "failed" \notin unsettled' => Answers(dns', xray')
        BY <3>1, <3>2 DEF Forwarding, Quiet
      <3> QED
        BY <3>1, <3>3 DEF Forwarding
    <2>6. CASE StepFails \/ Kill
      <3> DEFINE h == Now(job)
      <3>1. job # None /\ Failed(h)
        BY <2>6, BaseFails
      <3>2. CASE job' = None /\ unsettled' = unsettled \cup Broke(h, job.back)
        <4> SUFFICES ASSUME "failed" \notin unsettled' PROVE Answers(dns', xray')
          BY <3>2 DEF Forwarding
        <4>1. (h = "save" /\ ~job.back) \/ h = "ipv6 on"
          BY <3>2 DEF Broke
        <4>2. Quiet(job) /\ "failed" \notin unsettled
          BY <3>2, <4>1 DEF Quiet, IPv6Calls
        <4> HIDE DEF h
        <4>3. dns' = dns /\ xray' = xray
          BY <3>1, <4>1, DoIs DEF Failed
        <4> QED
          BY <4>2, <4>3 DEF Forwarding
      <3>3. CASE job' # None /\ Now(job') = "save" /\ job'.back
        <4>1. ~Quiet(job')
          BY <3>3 DEF Quiet, IPv6Calls
        <4>2. Forwards(Now(job'), End(job'), cfg', dns', xray')
          BY <3>3 DEF Forwards
        <4> QED
          BY <4>1, <4>2 DEF Forwarding
      <3> QED
        BY <2>6, <3>2, <3>3, BaseFails
    <2> QED
      BY <2>1, <2>2, <2>3, <2>4, <2>5, <2>6, ForwardingSteps
  <1> QED
    BY <1>1, <1>2

\* IPv6 is off before the first and after the last call when the settings say so, and on
\* when they do not, unless the call that does it is the one that is left.
Addressed(h, l, s, v) == l \in Reapplied /\ h \notin {"save", "ipv6"} /\ NoV6(s) => ~v
Addressing ==
    /\ Quiet(job) /\ conn /\ NoV6(cfg) /\ "failed" \notin unsettled => ~ipv6 \/ (job # None /\ Now(job) = "ipv6 off")
    /\ ~NoV6(cfg) /\ "ipv6 left off" \notin unsettled => ipv6 \/ (job # None /\ Now(job) = "ipv6 on")
    /\ job # None => Addressed(Now(job), End(job), cfg, ipv6)

LEMMA AddressingSteps ==
  ASSUME Base, Addressing, Step
  PROVE  Addressing'
  <1> DEFINE h == Now(job)
             l == End(job)
             g == Now(job')
             back == job.back
             off == NoV6(cfg)
             off2 == NoV6(cfg')
  <1>1. /\ job # None /\ Do(h) /\ unsettled' = Settled(h) /\ h \in Steps /\ l \in Finals
        /\ h = l => job' = None
        /\ h # l => job' # None /\ g = Second(job.todo) /\ End(job') = l /\ job'.back = back /\ Follows(l, h, g)
    BY BaseSteps
  <1>2. conn \in BOOLEAN /\ ipv6 \in BOOLEAN /\ unsettled \subseteq Reasons
    BY DEF Base, Typed
  <1>3. Shape(job, cfg, conn)
    BY <1>1 DEF Base, JobOK
  <1>4. Quiet(job) <=> (h = "save" /\ ~back) \/ h \in IPv6Calls
    BY <1>1 DEF Quiet
  <1>5. Quiet(job') <=> h = l \/ (g = "save" /\ ~back) \/ g \in IPv6Calls
    BY <1>1 DEF Quiet
  <1>6. /\ h # "save" => off2 = off
        /\ h = "save" => off2 = NoV6(job.new)
        /\ h # "save" => off = NoV6(job.new)
    BY <1>1, <1>3, DoIs DEF Shape
  <1>7. /\ ipv6' = IF h \in {"ipv6", "ipv6 off"} THEN FALSE ELSE IF h = "ipv6 on" THEN TRUE ELSE ipv6
        /\ conn' = (conn /\ h # "disconnected")
    BY <1>1, DoIs
  <1>8. /\ back => l \in Reapplied \cup {"xray off"}
        /\ l = "xray off" => ~conn
        /\ l = "ipv6 off" => NoV6(job.new)
        /\ l = "ipv6 on" => ~NoV6(job.new)
        /\ h = "save" /\ l \in Reapplied => (Second(job.todo) = "ipv6" <=> NoV6(job.new))
        /\ h = "ipv6" => NoV6(job.new)
        /\ h = "save" /\ l \notin IPv6Calls => (NoV6(job.new) <=> off)
    BY <1>3 DEF Shape
  <1>9. /\ Quiet(job) /\ conn /\ off /\ "failed" \notin unsettled => ~ipv6 \/ h = "ipv6 off"
        /\ ~off /\ "ipv6 left off" \notin unsettled => ipv6 \/ h = "ipv6 on"
        /\ Addressed(h, l, cfg, ipv6)
    BY <1>1 DEF Addressing
  <1>10. /\ h \in {"save", "ipv6 off", "ipv6 on"} /\ "failed" \notin unsettled' => "failed" \notin unsettled
         /\ "ipv6 left off" \notin unsettled' => "ipv6 left off" \notin unsettled \/ h = "ipv6 on"
    <2>1. /\ Settled(h) \subseteq unsettled \cup {"unapplied patch"}
          /\ h \in {"save", "ipv6 off"} => unsettled \subseteq Settled(h)
          /\ h = "ipv6 on" => unsettled \subseteq Settled(h) \cup {"ipv6 left off"}
          /\ unsettled \subseteq Settled(h) \cup {"failed", "late quic", "unapplied patch"} \/ h = "ipv6 on"
      BY <1>2, SettledIs
    <2> HIDE DEF h
    <2> QED
      BY <1>1, <2>1
  <1> HIDE DEF h, l, g, back, off, off2
  <1>11. Quiet(job') /\ conn' /\ off2 /\ "failed" \notin unsettled' => ~ipv6' \/ (job' # None /\ g = "ipv6 off")
    <2> SUFFICES ASSUME Quiet(job'), conn', off2, "failed" \notin unsettled', ~(job' # None /\ g = "ipv6 off") PROVE ~ipv6'
      OBVIOUS
    <2>1. conn /\ h # "disconnected"
      BY <1>7
    <2>2. CASE h = "save"
      <3>1. h = l
        BY <1>1, <1>5, <1>6, <1>8, <2>2 DEF Follows, IPv6Calls
      <3>2. ~back /\ off /\ Quiet(job)
        BY <1>4, <1>6, <1>8, <2>2, <3>1 DEF IPv6Calls, Reapplied
      <3>3. ~ipv6
        BY <1>9, <1>10, <2>1, <2>2, <3>2
      <3> QED
        BY <1>7, <2>2, <3>3
    <2>3. CASE h = "ipv6 off"
      BY <1>7, <2>3
    <2>4. CASE h = "ipv6 on"
      <3>1. h = l
        BY <1>1, <2>4 DEF Follows
      <3> QED
        BY <1>6, <1>8, <2>4, <3>1
    <2>5. CASE h \notin {"save", "ipv6 on", "ipv6 off"}
      <3>1. h = l
        BY <1>1, <1>5, <2>5 DEF Follows, IPv6Calls
      <3>2. h \in Reapplied
        BY <1>1, <1>8, <2>1, <2>5, <3>1 DEF Finals, Reapplied
      <3>3. off
        BY <1>6, <2>5
      <3>4. ~ipv6
        BY <1>9, <3>1, <3>2, <3>3 DEF Addressed, Reapplied, off
      <3> QED
        BY <1>7, <2>5, <3>2, <3>4 DEF Reapplied
    <2> QED
      BY <2>2, <2>3, <2>4, <2>5
  <1>12. ~off2 /\ "ipv6 left off" \notin unsettled' => ipv6' \/ (job' # None /\ g = "ipv6 on")
    <2> SUFFICES ASSUME ~off2, "ipv6 left off" \notin unsettled' PROVE ipv6' \/ (job' # None /\ g = "ipv6 on")
      OBVIOUS
    <2>1. CASE h = "ipv6 on"
      BY <1>7, <2>1
    <2>2. CASE h = "save" /\ l \in IPv6Calls
      <3>1. h # l
        BY <2>2 DEF IPv6Calls
      <3>2. g = l /\ job' # None
        BY <1>1, <2>2, <3>1 DEF Follows, IPv6Calls, Reapplied
      <3>3. l = "ipv6 on"
        BY <1>6, <1>8, <2>2 DEF IPv6Calls
      <3> QED
        BY <3>2, <3>3
    <2>3. CASE h # "ipv6 on" /\ ~(h = "save" /\ l \in IPv6Calls)
      <3>1. ~off
        BY <1>6, <1>8, <2>3
      <3>2. ipv6
        BY <1>9, <1>10, <2>3, <3>1
      <3>3. h \notin {"ipv6", "ipv6 off"}
        <4>1. h = "ipv6 off" => l = "ipv6 off"
          BY <1>1 DEF Follows
        <4> QED
          BY <1>6, <1>8, <3>1, <4>1
      <3> QED
        BY <1>7, <2>3, <3>2, <3>3
    <2> QED
      BY <2>1, <2>2, <2>3
  <1>13. h # l => (l \in Reapplied /\ g \notin {"save", "ipv6"} /\ off2 => ~ipv6')
    <2> SUFFICES ASSUME h # l, l \in Reapplied, g \notin {"save", "ipv6"}, off2 PROVE ~ipv6'
      OBVIOUS
    <2>1. CASE h = "save"
      BY <1>1, <1>6, <1>8, <2>1
    <2>2. CASE h = "ipv6"
      BY <1>7, <2>2
    <2>3. CASE h \notin {"save", "ipv6"}
      <3>1. ~ipv6
        BY <1>6, <1>9, <2>3 DEF Addressed, off
      <3>2. h \notin {"ipv6 on", "ipv6 off"}
        BY <1>1 DEF Follows
      <3> QED
        BY <1>7, <2>3, <3>1, <3>2
    <2> QED
      BY <2>1, <2>2, <2>3
  <1>14. job' # None => h # l /\ l = End(job')
    BY <1>1
  <1>15. job' # None => Addressed(Now(job'), End(job'), cfg', ipv6')
    BY <1>13, <1>14 DEF Addressed, g, off2
  <1>16. g = Now(job') /\ off2 = NoV6(cfg')
    BY DEF g, off2
  <1> QED
    BY <1>11, <1>12, <1>15, <1>16 DEF Addressing

LEMMA AddressingInit == Init => Addressing
  <1> SUFFICES ASSUME Init PROVE Addressing
    OBVIOUS
  <1>1. ipv6 = TRUE /\ conn = FALSE /\ job = None
    BY DEF Init
  <1> QED
    BY <1>1 DEF Addressing

LEMMA AddressingKept ==
  ASSUME Base, Addressing, [Next]_vars
  PROVE  Addressing'
  <1>1. CASE UNCHANGED vars
    BY <1>1 DEF vars, runtime, Addressing
  <1>2. CASE Next
    <2>1. \/ Opens /\ panel' \in {panel, None}
          \/ PanelRead \/ Step \/ StepFails \/ Kill \/ Connect \/ Disconnect \/ SubscriptionChanges
      BY <1>2, Kinds DEF Base, Typed
    <2>2. CASE Opens /\ panel' \in {panel, None}
      <3>1. /\ job = None /\ job' # None /\ Now(job') = "save"
            /\ UNCHANGED <<cfg, conn, vision, xray, nft, snippet, dns, ipv6, unsettled, faults>>
        BY <2>2, BaseOpens
      <3>2. /\ conn' /\ NoV6(cfg') /\ "failed" \notin unsettled' => ~ipv6'
            /\ ~NoV6(cfg') /\ "ipv6 left off" \notin unsettled' => ipv6'
        BY <3>1 DEF Addressing, Quiet
      <3>3. Addressed(Now(job'), End(job'), cfg', ipv6')
        BY <3>1 DEF Addressed
      <3> QED
        BY <3>2, <3>3 DEF Addressing
    <2>3. CASE Disconnect
      <3>1. /\ job = None /\ job' # None /\ Now(job') = "nft off" /\ End(job') = "disconnected"
            /\ UNCHANGED <<cfg, conn, vision, xray, nft, snippet, dns, ipv6, panel, unsettled, faults, ops>>
        BY <2>3, BaseDisconnects
      <3>2. ~Quiet(job')
        BY <3>1 DEF Quiet, IPv6Calls
      <3>3. Addressed(Now(job'), End(job'), cfg', ipv6')
        BY <3>1 DEF Addressed, Reapplied
      <3>4. ~NoV6(cfg') /\ "ipv6 left off" \notin unsettled' => ipv6'
        BY <3>1 DEF Addressing
      <3> QED
        BY <3>2, <3>3, <3>4 DEF Addressing
    <2>4. CASE Connect
      <3>1. job = None /\ job' = None /\ ipv6 \in BOOLEAN
        BY <2>4, BaseIdle DEF Base, Typed
      <3>2. cfg' = cfg /\ ipv6' = (ipv6 /\ ~NoV6(cfg)) /\ unsettled' = unsettled \cap {"ipv6 left off"}
        BY <2>4 DEF Connect, NoV6
      <3>3. ~NoV6(cfg) /\ "ipv6 left off" \notin unsettled => ipv6
        BY <3>1 DEF Addressing
      <3>4. (NoV6(cfg') => ~ipv6') /\ (~NoV6(cfg') /\ "ipv6 left off" \notin unsettled' => ipv6')
        BY <3>1, <3>2, <3>3
      <3> QED
        BY <3>1, <3>4 DEF Addressing
    <2>5. CASE PanelRead \/ SubscriptionChanges
      <3>1. job = None /\ job' = None
        BY <2>5, BaseIdle
      <3>2. cfg' = cfg /\ conn' = conn /\ ipv6' = ipv6 /\ unsettled \subseteq unsettled'
        BY <2>5 DEF PanelRead, SubscriptionChanges, runtime
      <3>3. /\ conn' /\ NoV6(cfg') /\ "failed" \notin unsettled' => ~ipv6'
            /\ ~NoV6(cfg') /\ "ipv6 left off" \notin unsettled' => ipv6'
        BY <3>1, <3>2 DEF Addressing, Quiet
      <3> QED
        BY <3>1, <3>3 DEF Addressing
    <2>6. CASE StepFails \/ Kill
      <3> DEFINE h == Now(job)
                 l == End(job)
      <3>1. job # None /\ Failed(h) /\ cfg' = cfg /\ conn' = conn /\ h \in Steps
        BY <2>6, BaseFails
      <3>2. Shape(job, cfg, conn)
        BY <3>1 DEF Base, JobOK
      <3>3. /\ h # "save" => cfg = job.new
            /\ l = "ipv6 off" => NoV6(job.new)
            /\ l = "ipv6 on" => ~NoV6(job.new)
            /\ h = "ipv6" => NoV6(job.new)
            /\ Left(job.todo)
        BY <3>2 DEF Shape
      <3>4. h \in IPv6Calls => h = l
        <4> SUFFICES ASSUME h \in IPv6Calls, h # l PROVE FALSE
          OBVIOUS
        <4>1. l \in Finals /\ <<h, Second(job.todo)>> \in After(l)
          BY <3>3, LeftMoves DEF Left, End, Now, Second
        <4>2. Follows(l, h, Second(job.todo))
          BY <4>1, AfterIs
        <4> QED
          BY <4>2 DEF Follows, IPv6Calls
      <3>5. /\ Quiet(job) /\ conn /\ NoV6(cfg) /\ "failed" \notin unsettled => ~ipv6 \/ h = "ipv6 off"
            /\ ~NoV6(cfg) /\ "ipv6 left off" \notin unsettled => ipv6 \/ h = "ipv6 on"
        BY <3>1 DEF Addressing
      <3> HIDE DEF h, l
      <3>6. ipv6' = ipv6 \/ (h = "ipv6 on" /\ ipv6' = TRUE) \/ (h \in {"ipv6", "ipv6 off"} /\ ipv6' = FALSE)
        BY <3>1, DoIs DEF Failed
      <3>7. h = "ipv6 off" => NoV6(cfg)
        BY <3>3, <3>4 DEF IPv6Calls
      <3>8. h = "ipv6 on" => ~NoV6(cfg)
        BY <3>3, <3>4 DEF IPv6Calls
      <3>9. CASE job' = None /\ unsettled' = unsettled \cup Broke(h, job.back)
        <4>1. ASSUME conn', NoV6(cfg'), "failed" \notin unsettled' PROVE ~ipv6'
          <5>1. (h = "save" /\ ~job.back) \/ h = "ipv6 on"
            BY <3>9, <4>1 DEF Broke
          <5>2. h = "save" /\ ~job.back
            BY <3>1, <3>8, <4>1, <5>1
          <5>3. Quiet(job) /\ "failed" \notin unsettled
            BY <3>9, <4>1, <5>2 DEF Quiet, h
          <5>4. ~ipv6
            BY <3>1, <3>5, <4>1, <5>2, <5>3
          <5> QED
            BY <3>6, <5>2, <5>4
        <4>2. ASSUME ~NoV6(cfg'), "ipv6 left off" \notin unsettled' PROVE ipv6'
          <5>1. h # "ipv6 on"
            BY <3>9, <4>2 DEF Broke
          <5>2. ipv6
            BY <3>1, <3>5, <3>9, <4>2, <5>1
          <5> QED
            BY <3>1, <3>3, <3>6, <3>7, <4>2, <5>1, <5>2
        <4> QED
          BY <3>9, <4>1, <4>2 DEF Addressing
      <3>10. CASE job' # None /\ Now(job') = "save" /\ job'.back /\ unsettled' = unsettled /\ h \notin IPv6Calls
        <4>1. ~Quiet(job')
          BY <3>10 DEF Quiet, IPv6Calls
        <4>2. Addressed(Now(job'), End(job'), cfg', ipv6')
          BY <3>10 DEF Addressed
        <4>3. ~NoV6(cfg') /\ "ipv6 left off" \notin unsettled' => ipv6'
          BY <3>1, <3>3, <3>5, <3>6, <3>10 DEF IPv6Calls
        <4> QED
          BY <4>1, <4>2, <4>3 DEF Addressing
      <3>11. job' # None => h \notin IPv6Calls
        <4> SUFFICES ASSUME job' # None PROVE h \notin IPv6Calls
          OBVIOUS
        <4>1. job.op = "country"
          BY <2>6 DEF StepFails, Kill
        <4> QED
          BY <3>2, <3>4, <4>1 DEF Shape, IPv6Calls, Reapplied, l
      <3> QED
        BY <2>6, <3>9, <3>10, <3>11, BaseFails DEF h
    <2> QED
      BY <2>1, <2>2, <2>3, <2>4, <2>5, <2>6, AddressingSteps
  <1> QED
    BY <1>1, <1>2

\* Between operations dnsmasq forwards to Xray exactly when Xray answers, and IPv6 is what
\* the settings say, after any sequence of operations, connects and disconnects, failed
\* and killed ones included as far as the history allows (applyNodeSelection and
\* stopProxyTransport order the two restarts: service.go:4241, 5257).
THEOREM RouterFollowsTheorem == Spec => []RouterFollows
  <1> DEFINE Inv == Base /\ Forwarding /\ Addressing
  <1>1. Init => Inv
    BY BaseInit, ForwardingInit, AddressingInit
  <1>2. Inv /\ [Next]_vars => Inv'
    BY BaseKept, ForwardingKept, AddressingKept
  <1>3. Inv => RouterFollows
    BY DEF Forwarding, Addressing, Quiet, Answers, NoV6, RouterFollows
  <1> QED
    BY <1>1, <1>2, <1>3, PTL DEF Spec

-------------------------------------------------------------------------------
(* What is rendered. *)

Loaded(s, v, x) == x = Generate(s, QUIC(s, v))
Tabled(s, v, t) == t = Table(s, QUIC(s, v))
Rendered(s, v, x, t, n) == Loaded(s, v, x) /\ IF Routing(s) THEN Tabled(s, v, t) /\ n = Names(s) ELSE t = None

\* How far a reapply or a stop has come before call h; l is its last call.
Progress(h, l, s, v, x, t) ==
    /\ l \in Reapplied /\ h \in {"dns", "nft", "snippet", "nft off", "snippet off"} => Loaded(s, v, x)
    /\ h = "snippet" => Tabled(s, v, t)
    /\ h \in {"snippet off", "dns off", "xray off", "disconnected"} => t = None
Rendering ==
    /\ Quiet(job) /\ unsettled \subseteq {"ipv6 left off"} =>
           IF conn THEN Rendered(cfg, vision, xray, nft, snippet) ELSE nft = None
    /\ job # None => Progress(Now(job), End(job), cfg, vision, xray, nft)

\* Settings that are alike are rendered alike: what is saved without a reapply.
LEMMA AlikeRendered ==
  ASSUME NEW s, NEW r, Alike(s, r), Sane(s), NEW v \in BOOLEAN, NEW x, NEW t, NEW n, Rendered(s, v, x, t, n)
  PROVE  Rendered(r, v, x, t, n)
  <1>1. QUIC(s, v) \in BOOLEAN /\ QUIC(r, v) = QUIC(s, v)
    BY RenderedTypes DEF Alike, QUIC
  <1>2. Generate(r, QUIC(r, v)) = Generate(s, QUIC(s, v))
    BY <1>1 DEF Alike
  <1>3. Routing(s) <=> Routing(r)
    BY DEF Alike, Routing
  <1>4. Routing(s) => Table(r, QUIC(r, v)) = Table(s, QUIC(s, v)) /\ Names(r) = Names(s)
    BY <1>1 DEF Alike, Routing, Table, Names
  <1> QED
    BY <1>2, <1>3, <1>4 DEF Rendered, Loaded, Tabled

LEMMA RenderingSteps ==
  ASSUME Base, Rendering, Step
  PROVE  Rendering'
  <1> DEFINE h == Now(job)
             l == End(job)
             g == Now(job')
             back == job.back
             x == Generate(cfg, QUIC(cfg, vision))
             t == Table(cfg, QUIC(cfg, vision))
             n == Names(cfg)
             calm == unsettled \subseteq {"ipv6 left off"}
             calm2 == unsettled' \subseteq {"ipv6 left off"}
  <1>1. /\ job # None /\ Do(h) /\ unsettled' = Settled(h) /\ h \in Steps /\ l \in Finals
        /\ h = l => job' = None
        /\ h # l => job' # None /\ End(job') = l /\ job'.back = back /\ Follows(l, h, g)
        /\ vision' = vision
    BY BaseSteps
  <1>2. conn \in BOOLEAN /\ vision \in BOOLEAN /\ Sane(cfg) /\ unsettled \subseteq Reasons
    BY DEF Base, Typed
  <1>3. Shape(job, cfg, conn)
    BY <1>1 DEF Base, JobOK
  <1>4. Quiet(job) <=> (h = "save" /\ ~back) \/ h \in IPv6Calls
    BY <1>1 DEF Quiet
  <1>5. Quiet(job') <=> h = l \/ (g = "save" /\ ~back) \/ g \in IPv6Calls
    BY <1>1 DEF Quiet
  <1>6. /\ back => l \in Reapplied \cup {"xray off"}
        /\ l \in Reapplied \cup {"disconnected"} => conn
        /\ l = "xray off" => ~conn
        /\ h # "save" => cfg = job.new
        /\ l \in Reapplied => (l = "snippet" <=> Routing(job.new))
        /\ h = "save" /\ l \in IPv6Calls => Alike(cfg, job.new)
        /\ h = "save" /\ l = "save" => Alike(cfg, job.new) \/ (job.op = "patch" /\ job.new.fw # cfg.fw)
    BY <1>3 DEF Shape
  <1>7. /\ cfg' = (IF h = "save" THEN job.new ELSE cfg) /\ conn' = (conn /\ h # "disconnected")
        /\ xray' = IF h = "xray" THEN x ELSE IF h = "xray off" THEN None ELSE xray
        /\ nft' = IF h = "nft" THEN t ELSE IF h = "nft off" THEN None ELSE nft
        /\ snippet' = IF h = "snippet" THEN n ELSE IF h = "snippet off" THEN NoSnippet ELSE snippet
    BY <1>1, DoIs
  <1>8. h \in {"save", "ipv6 on", "ipv6 off"} /\ calm2 => calm
    BY <1>1, SettledIs
  <1>9. h = "save" /\ job.op = "patch" /\ conn /\ job.new.fw # cfg.fw => ~calm2
    <2> SUFFICES ASSUME h = "save", job.op = "patch", conn, job.new.fw # cfg.fw PROVE ~calm2
      OBVIOUS
    <2>1. "unapplied patch" \in Settled(h)
      BY DEF Settled
    <2> QED
      BY <1>1, <2>1
  <1>10. /\ Quiet(job) /\ calm => IF conn THEN Rendered(cfg, vision, xray, nft, snippet) ELSE nft = None
         /\ Progress(h, l, cfg, vision, xray, nft)
    BY <1>1 DEF Rendering
  <1>11. h = "snippet" => Routing(cfg) /\ conn
    <2> SUFFICES ASSUME h = "snippet" PROVE Routing(cfg) /\ conn
      OBVIOUS
    <2>1. l = h
      BY <1>1 DEF Follows
    <2> QED
      BY <1>6, <2>1 DEF Reapplied
  <1> HIDE DEF h, l, g, back, calm, calm2, x, t, n
  <1>12. Quiet(job') /\ calm2 => IF conn' THEN Rendered(cfg', vision', xray', nft', snippet') ELSE nft' = None
    <2> SUFFICES ASSUME Quiet(job'), calm2 PROVE IF conn' THEN Rendered(cfg', vision', xray', nft', snippet') ELSE nft' = None
      OBVIOUS
    <2>1. CASE h \in {"save", "ipv6 on", "ipv6 off"}
      <3>1. Quiet(job) /\ (h = "save" => l \in {"save", "ipv6 on", "ipv6 off"})
        BY <1>1, <1>4, <1>5, <1>6, <2>1 DEF Follows, IPv6Calls, Reapplied, Finals
      <3>2. IF conn THEN Rendered(cfg, vision, xray, nft, snippet) ELSE nft = None
        BY <1>8, <1>10, <2>1, <3>1
      <3>3. xray' = xray /\ nft' = nft /\ snippet' = snippet /\ conn' = conn /\ vision' = vision
        BY <1>1, <1>2, <1>7, <2>1
      <3>4. CASE ~conn
        BY <3>2, <3>3, <3>4
      <3>5. CASE conn /\ h # "save"
        <4>1. cfg' = cfg
          BY <1>7, <3>5
        <4> QED
          BY <3>2, <3>3, <3>5, <4>1
      <3>6. CASE conn /\ h = "save"
        <4>1. Alike(cfg, job.new)
          BY <1>6, <1>9, <3>1, <3>6 DEF IPv6Calls
        <4>2. Rendered(job.new, vision, xray, nft, snippet)
          BY <1>2, <3>2, <3>6, <4>1, AlikeRendered
        <4>3. cfg' = job.new
          BY <1>7, <3>6
        <4> QED
          BY <3>3, <3>6, <4>2, <4>3
      <3> QED
        BY <3>4, <3>5, <3>6
    <2>2. CASE h \notin {"save", "ipv6 on", "ipv6 off"}
      <3>1. h = l /\ cfg' = cfg
        BY <1>1, <1>5, <1>7, <2>2 DEF Follows, IPv6Calls
      <3>2. CASE h = "snippet"
        <4>1. xray' = xray /\ nft' = nft /\ snippet' = n /\ conn' = conn
          BY <1>2, <1>7, <3>2
        <4>2. Loaded(cfg, vision, xray) /\ Tabled(cfg, vision, nft) /\ Routing(cfg) /\ conn
          BY <1>10, <1>11, <3>1, <3>2 DEF Progress, Reapplied
        <4>3. Rendered(cfg', vision', xray', nft', snippet')
          BY <1>1, <3>1, <4>1, <4>2 DEF Rendered, n
        <4> QED
          BY <4>1, <4>2, <4>3
      <3>3. CASE h = "snippet off"
        <4>1. xray' = xray /\ nft' = nft /\ conn' = conn
          BY <1>2, <1>7, <3>3
        <4>2. Loaded(cfg, vision, xray) /\ nft = None /\ ~Routing(cfg) /\ conn
          BY <1>6, <1>10, <3>1, <3>3 DEF Progress, Reapplied
        <4>3. Rendered(cfg', vision', xray', nft', snippet')
          BY <1>1, <3>1, <4>1, <4>2 DEF Rendered
        <4> QED
          BY <4>1, <4>2, <4>3
      <3>4. CASE h \in {"xray off", "disconnected"}
        <4>1. nft' = nft /\ nft = None
          BY <1>7, <1>10, <3>4 DEF Progress
        <4>2. ~conn'
          BY <1>6, <1>7, <3>1, <3>4
        <4> QED
          BY <4>1, <4>2
      <3> QED
        BY <1>1, <2>2, <3>1, <3>2, <3>3, <3>4 DEF Finals
    <2> QED
      BY <2>1, <2>2
  <1>13. h # l => Progress(g, l, cfg', vision', xray', nft')
    <2> SUFFICES ASSUME h # l PROVE Progress(g, l, cfg', vision', xray', nft')
      OBVIOUS
    <2>1. Follows(l, h, g)
      BY <1>1
    <2>2. CASE h \in {"save", "ipv6"}
      <3>1. g \in {"ipv6", "xray", "ipv6 on", "ipv6 off"} \/ (g = "nft off" /\ l \notin Reapplied)
        BY <2>1, <2>2 DEF Follows, IPv6Calls, Reapplied
      <3> QED
        BY <3>1 DEF Progress
    <2>3. CASE h = "xray"
      <3>1. g = "dns" /\ xray' = x /\ cfg' = cfg
        BY <1>7, <2>1, <2>3 DEF Follows
      <3>2. Loaded(cfg', vision', xray')
        BY <1>1, <3>1 DEF Loaded, x
      <3> QED
        BY <3>1, <3>2 DEF Progress
    <2>4. CASE h = "dns"
      <3>1. g \in {"nft", "nft off"} /\ xray' = xray /\ cfg' = cfg /\ l \in Reapplied
        BY <1>7, <2>1, <2>4 DEF Follows
      <3>2. Loaded(cfg', vision', xray')
        BY <1>1, <1>10, <2>4, <3>1 DEF Progress
      <3> QED
        BY <3>1, <3>2 DEF Progress
    <2>5. CASE h = "nft"
      <3>1. g = "snippet" /\ l \in Reapplied /\ xray' = xray /\ cfg' = cfg /\ nft' = t
        BY <1>7, <2>1, <2>5 DEF Follows, Reapplied
      <3>2. Loaded(cfg', vision', xray') /\ Tabled(cfg', vision', nft')
        BY <1>1, <1>10, <2>5, <3>1 DEF Progress, Tabled, t
      <3> QED
        BY <3>1, <3>2 DEF Progress
    <2>6. CASE h = "nft off"
      <3>1. g = "snippet off" /\ xray' = xray /\ cfg' = cfg /\ nft' = None
        BY <1>7, <2>1, <2>6 DEF Follows
      <3>2. l \in Reapplied => Loaded(cfg', vision', xray')
        BY <1>1, <1>10, <2>6, <3>1 DEF Progress
      <3> QED
        BY <3>1, <3>2 DEF Progress
    <2>7. CASE h \in {"snippet off", "dns off", "xray off"}
      <3>1. g \in {"dns off", "xray off", "disconnected"} /\ nft' = nft
        BY <1>7, <2>1, <2>7 DEF Follows
      <3>2. nft' = None
        BY <1>10, <2>7, <3>1 DEF Progress
      <3> QED
        BY <3>1, <3>2 DEF Progress
    <2> QED
      BY <2>1, <2>2, <2>3, <2>4, <2>5, <2>6, <2>7 DEF Follows
  <1>14. job' # None => h # l /\ l = End(job') /\ g = Now(job')
    BY <1>1 DEF g, l
  <1> QED
    BY <1>12, <1>13, <1>14 DEF Rendering, calm2

LEMMA RenderingInit == Init => Rendering
  <1> SUFFICES ASSUME Init PROVE Rendering
    OBVIOUS
  <1>1. conn = FALSE /\ job = None /\ nft = None
    BY DEF Init
  <1> QED
    BY <1>1 DEF Rendering

LEMMA RenderingKept ==
  ASSUME Base, Rendering, [Next]_vars
  PROVE  Rendering'
  <1>1. CASE UNCHANGED vars
    BY <1>1 DEF vars, runtime, Rendering
  <1>2. CASE Next
    <2>1. \/ Opens /\ panel' \in {panel, None}
          \/ PanelRead \/ Step \/ StepFails \/ Kill \/ Connect \/ Disconnect \/ SubscriptionChanges
      BY <1>2, Kinds DEF Base, Typed
    <2>2. CASE Opens /\ panel' \in {panel, None}
      <3>1. /\ job = None /\ job' # None /\ Now(job') = "save"
            /\ UNCHANGED <<cfg, conn, vision, xray, nft, snippet, dns, ipv6, unsettled, faults>>
        BY <2>2, BaseOpens
      <3>2. unsettled' \subseteq {"ipv6 left off"} =>
              IF conn' THEN Rendered(cfg', vision', xray', nft', snippet') ELSE nft' = None
        BY <3>1 DEF Rendering, Quiet
      <3>3. Progress(Now(job'), End(job'), cfg', vision', xray', nft')
        BY <3>1 DEF Progress
      <3> QED
        BY <3>2, <3>3 DEF Rendering
    <2>3. CASE Disconnect
      <3>1. job' # None /\ Now(job') = "nft off" /\ End(job') = "disconnected"
        BY <2>3, BaseDisconnects
      <3>2. ~Quiet(job')
        BY <3>1 DEF Quiet, IPv6Calls
      <3>3. Progress(Now(job'), End(job'), cfg', vision', xray', nft')
        BY <3>1 DEF Progress, Reapplied
      <3> QED
        BY <3>2, <3>3 DEF Rendering
    <2>4. CASE Connect
      <3>1. job' = None
        BY <2>4, BaseIdle
      <3>2. managedTransparentBlockQUIC(cfg.fw) = QUIC(cfg, vision)
        BY DEF managedTransparentBlockQUIC, QUIC
      <3>3. /\ conn' /\ cfg' = cfg /\ vision' = vision /\ xray' = Generate(cfg, QUIC(cfg, vision))
            /\ nft' = IF Routing(cfg) THEN Table(cfg, QUIC(cfg, vision)) ELSE None
            /\ snippet' = IF Routing(cfg) THEN Names(cfg) ELSE NoSnippet
        BY <2>4, <3>2 DEF Connect, Table, Names, Routing
      <3>4. Rendered(cfg', vision', xray', nft', snippet')
        BY <3>3 DEF Rendered, Loaded, Tabled
      <3> QED
        BY <3>1, <3>3, <3>4 DEF Rendering
    <2>5. CASE PanelRead
      <3>1. job = None /\ UNCHANGED <<cfg, conn, vision, xray, nft, snippet, job, unsettled>>
        BY <2>5 DEF PanelRead, runtime
      <3> QED
        BY <3>1 DEF Rendering, Quiet
    <2>6. CASE SubscriptionChanges
      <3>1. /\ job = None /\ UNCHANGED <<cfg, conn, xray, nft, snippet, job>>
            /\ unsettled' = (IF conn THEN unsettled \cup {"late quic"} ELSE unsettled)
        BY <2>6 DEF SubscriptionChanges, runtime
      <3>2. CASE conn
        <4>1. ~(unsettled' \subseteq {"ipv6 left off"})
          BY <3>1, <3>2
        <4> QED
          BY <3>1, <4>1 DEF Rendering
      <3>3. CASE ~conn
        <4>1. unsettled' = unsettled /\ ~conn' /\ nft' = nft
          BY <3>1, <3>3
        <4>2. unsettled \subseteq {"ipv6 left off"} => nft = None
          BY <3>1, <3>3 DEF Rendering, Quiet
        <4> QED
          BY <3>1, <4>1, <4>2 DEF Rendering
      <3> QED
        BY <3>2, <3>3
    <2>7. CASE StepFails \/ Kill
      <3> DEFINE h == Now(job)
      <3>1. job # None /\ Failed(h) /\ cfg' = cfg /\ conn' = conn /\ vision' = vision
        BY <2>7, BaseFails
      <3>2. CASE job' = None /\ unsettled' = unsettled \cup Broke(h, job.back)
        <4> SUFFICES ASSUME unsettled' \subseteq {"ipv6 left off"}
                     PROVE  IF conn' THEN Rendered(cfg', vision', xray', nft', snippet') ELSE nft' = None
          BY <3>2 DEF Rendering
        <4>1. (h = "save" /\ ~job.back) \/ h = "ipv6 on"
          BY <3>2 DEF Broke
        <4>2. Quiet(job) /\ unsettled \subseteq {"ipv6 left off"}
          BY <3>2, <4>1 DEF Quiet, IPv6Calls
        <4>3. IF conn THEN Rendered(cfg, vision, xray, nft, snippet) ELSE nft = None
          BY <4>2 DEF Rendering
        <4> HIDE DEF h
        <4>4. xray' = xray /\ nft' = nft /\ snippet' = snippet
          BY <3>1, <4>1, DoIs DEF Failed
        <4> QED
          BY <3>1, <4>3, <4>4
      <3>3. CASE job' # None /\ Now(job') = "save" /\ job'.back
        <4>1. ~Quiet(job')
          BY <3>3 DEF Quiet, IPv6Calls
        <4>2. Progress(Now(job'), End(job'), cfg', vision', xray', nft')
          BY <3>3 DEF Progress
        <4> QED
          BY <4>1, <4>2 DEF Rendering
      <3> QED
        BY <2>7, <3>2, <3>3, BaseFails
    <2> QED
      BY <2>1, <2>2, <2>3, <2>4, <2>5, <2>6, <2>7, RenderingSteps
  <1> QED
    BY <1>1, <1>2

\* Between operations every flow takes the way the saved settings ask for: what nftables,
\* dnsmasq and Xray were given agrees with the settings whatever was saved, reapplied,
\* saved without a reapply, taken back or interrupted before, and what they were given
\* makes the three together route like the settings (applyNodeSelection,
\* service.go:4241-4281, and the operations that save without reapplying,
\* service.go:2135-2238).
THEOREM RoutesAsSavedTheorem == Spec => []RoutesAsSaved
  <1> DEFINE Inv == Base /\ Rendering
  <1>1. Init => Inv
    BY BaseInit, RenderingInit
  <1>2. Inv /\ [Next]_vars => Inv'
    BY BaseKept, RenderingKept
  <1>3. Inv => RoutesAsSaved
    <2> SUFFICES ASSUME Inv, job = None, unsettled \subseteq {"ipv6 left off"}, NEW f \in Flow
                 PROVE  RouteOf(nft, snippet, xray, f) =
                            IF conn THEN Policy(cfg, Meaning(cfg.fw), managedTransparentBlockQUIC(cfg.fw), f) ELSE "direct"
      BY DEF RoutesAsSaved
    <2>1. IF conn THEN Rendered(cfg, vision, xray, nft, snippet) ELSE nft = None
      BY DEF Rendering, Quiet
    <2>2. nft = None => RouteOf(nft, snippet, xray, f) = "direct"
      BY DEF RouteOf, Captured
    <2>3. managedTransparentBlockQUIC(cfg.fw) = QUIC(cfg, vision)
      BY DEF managedTransparentBlockQUIC, QUIC
    <2>4. cfg \in Settings /\ Located(cfg) /\ QUIC(cfg, vision) \in BOOLEAN
      BY RenderedTypes DEF Base, Typed, Sane
    <2>5. CASE ~conn
      BY <2>1, <2>2, <2>5
    <2>6. CASE conn /\ ~Routing(cfg)
      <3>1. nft = None
        BY <2>1, <2>6 DEF Rendered
      <3>2. Policy(cfg, Meaning(cfg.fw), QUIC(cfg, vision), f) = "direct"
        BY <2>6 DEF Policy, Routing
      <3> QED
        BY <2>2, <2>3, <2>6, <3>1, <3>2
    <2>7. CASE conn /\ Routing(cfg)
      <3>1. /\ xray = Generate(cfg, QUIC(cfg, vision)) /\ nft = Table(cfg, QUIC(cfg, vision)) /\ snippet = Names(cfg)
        BY <2>1, <2>7 DEF Rendered, Loaded, Tabled
      <3>2. FirewallRoutingEnabled(cfg.fw)
        BY <2>7 DEF Routing
      <3> DEFINE quic == QUIC(cfg, vision)
                 p == resolveFirewallPolicy(cfg.fw)
      <3>3. RouteOf(BuildNFTablesRules(p, quic, cfg.fw.port), buildDNSMasqNFTSetConfig(p), Generate(cfg, quic), f)
              = Policy(cfg, Meaning(cfg.fw), quic, f)
        BY <2>4, <3>2, RenderingsAgree
      <3>4. RouteOf(Table(cfg, quic), Names(cfg), Generate(cfg, quic), f) = Policy(cfg, Meaning(cfg.fw), quic, f)
        BY <3>3 DEF Table, Names
      <3> QED
        BY <2>3, <2>7, <3>1, <3>4
    <2> QED
      BY <2>5, <2>6, <2>7
  <1> QED
    BY <1>1, <1>2, <1>3, PTL DEF Spec
=============================================================================
