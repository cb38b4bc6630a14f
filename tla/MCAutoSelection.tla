---------------------------- MODULE MCAutoSelection ----------------------------
(* Three servers in two subscriptions; a round of probes finds them all, finds *)
(* the second one much faster, or misses the first.                            *)
EXTENDS AutoSelection
MCListed == <<"a", "b", "c">>
MCSubOf == [a |-> "s", b |-> "s", c |-> "t"]
MCPolicy == [optimise |-> TRUE, ceiling |-> 0, improvement |-> 50, relative |-> 20, wins |-> 1,
             cooldown |-> 2, threshold |-> 2]
Even == [a |-> 100, b |-> 120, c |-> 0]
Faster == [a |-> 400, b |-> 60, c |-> 140]
MCOutcome == {Even, Faster}
===============================================================================
