--------------------------- MODULE MCSubscriptions ---------------------------
EXTENDS Subscriptions

CONSTANTS a, b, x, y, p, q

\* A server under two names with other parameters under the second, another server,
\* and the list that has the first one twice.
A == [srv |-> a, name |-> x, rt |-> p]
Renamed == [A EXCEPT !.name = y]
B == [srv |-> b, name |-> x, rt |-> p]
MCFeed == {<<A>>, <<A, Renamed>>, <<[Renamed EXCEPT !.rt = q]>>, <<B>>}
MCPasted == {B}
==============================================================================
