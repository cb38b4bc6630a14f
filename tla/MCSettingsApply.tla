--------------------------- MODULE MCSettingsApply ---------------------------
EXTENDS SettingsApply
CONSTANTS h1, h2, d1, d2, i1, i2, i3, lan, s1, s2, tube, XX

Sel(svcs, doms, cidrs) == [svcs |-> svcs, doms |-> doms, cidrs |-> cidrs]

\* One preset with a name and an address; d1 is the root domain of its family.
MCPresets == tube :> Sel({}, {d1, d2}, {i3})
MCFamilies == d1 :> tube
\* The DNS server i2 is also what d2 resolves to.
MCAddrOf == d1 :> i1 @@ d2 :> i2
\* The name d2 is in the country, its address is not.
MCGeo == XX :> [doms |-> {d2}, ips |-> {i1}]
MCSelections == {Empty, Sel({s1}, {}, {}), Sel({}, {d1}, {i2})}
MCCatalog == s1 :> Sel({s2}, {}, {}) @@ s2 :> Sel({tube}, {}, {})
MCSources == {{h1}}
\* A service of its own, and one that closes a cycle when s2 gets it.
MCDefinitions == {Sel({}, {d2}, {}), Sel({s1}, {}, {i3})}
===============================================================================
