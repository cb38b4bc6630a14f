---------------------------- MODULE Zapret_proofs ----------------------------
(***************************************************************************)
(* Proofs about module Zapret: types, what becomes of the user's files,    *)
(* which transport works on the traffic, and what a test returns to.       *)
(*                                                                         *)
(* An operation is a program in `todo', so the first thing proved is what  *)
(* programs look like at every moment (Control): blocks whose calls follow *)
(* one another as in Apply, Disable and stopProxyTransport, error paths    *)
(* that end with a save, a connection that is recorded by the next block,  *)
(* and a state that says Zapret saved last and after Apply.  On top of it  *)
(* CopyInv says of every call of Apply and Disable which files are copied, *)
(* intact or both; TestInv where a test, or the operation that ends it, has *)
(* the node it returns to; TransportInv how far an operation has come      *)
(* between the proxy and Zapret.                                           *)
(***************************************************************************)
EXTENDS Zapret, SequenceTheorems, TLAPS

-------------------------------------------------------------------------------
(* What the programs of the operations look like. *)

\* The states an operation saves that say Zapret, and the others.
Up == {"test", "fallback"}
Down == {"direct", "failed", "marked", "connected", "disconnected"}

\* The step about to be taken.
Resting == <<"none", "none">>
Now == IF Idle THEN Resting ELSE Head(todo[1].steps)

Verbs == {"require", "backup", "write", "mark", "service", "restore", "unbackup", "unmark", "stop", "connect", "save"}
Objects == {"package", "hostlist", "iplist", "config", "managed", "start", "stop", "marker", "firewall", "backend",
            "mark", "keep", "auto"} \cup Up \cup Down

\* Calls that follow one another in a block.
Adjacent(list, n) == {<<list[k], list[k + 1]>> : k \in 1..n}
Follows == Adjacent(Apply, 8) \cup Adjacent(Disable, 8) \cup {<< <<"stop", "firewall">>, <<"stop", "backend">> >>}

Single(tags) == ({"connect"} \X {"mark", "keep", "auto"}) \cup ({"save"} \X tags)

\* Where the blocks of an operation begin and end that saves the states `tags'.
Starts(tags) == {<<"require", "package">>, <<"require", "marker">>, <<"stop", "firewall">>} \cup Single(tags)
Ends(tags) == {<<"service", "start">>, <<"unmark", "managed">>, <<"stop", "backend">>} \cup Single(tags)

Applying == {<<"require", "package">>, <<"mark", "managed">>, <<"service", "start">>} \cup ({"backup", "write"} \X Files)
Disabling == {<<"require", "marker">>, <<"service", "stop">>, <<"unmark", "managed">>}
                 \cup ({"restore", "unbackup"} \X Files)

\* What may be left of a block.
Runs(tags) ==
    {s \in Seq(Verbs \X Objects) :
        /\ Len(s) >= 1 /\ s[Len(s)] \in Ends(tags)
        /\ \A k \in 1..(Len(s) - 1) : <<s[k], s[k + 1]>> \in Follows}

LEMMA RunsAre ==
  ASSUME NEW tags, NEW s, s \in Seq(Verbs \X Objects), Len(s) >= 1, s[Len(s)] \in Ends(tags),
         \A k \in 1..(Len(s) - 1) : <<s[k], s[k + 1]>> \in Follows
  PROVE  s \in Runs(tags)
  BY Zenon DEF Runs

LEMMA ApplyRun == \A tags : Apply \in Runs(tags) /\ Apply[1] = <<"require", "package">>
  <1> SUFFICES ASSUME NEW tags PROVE Apply \in Runs(tags) /\ Apply[1] = <<"require", "package">>
    OBVIOUS
  <1>0. Len(Apply) = 9
    BY DEF Apply
  <1>1. Apply \in Seq(Verbs \X Objects)
    BY DEF Apply, Verbs, Objects
  <1>2. Apply[1] = <<"require", "package">> /\ Apply[9] = <<"service", "start">>
    BY DEF Apply
  <1>3. \A k \in 1..8 : <<Apply[k], Apply[k + 1]>> \in Follows
    BY DEF Follows, Adjacent
  <1>4. Apply[Len(Apply)] \in Ends(tags)
    BY <1>0, <1>2 DEF Ends
  <1>5. \A k \in 1..(Len(Apply) - 1) : <<Apply[k], Apply[k + 1]>> \in Follows
    BY <1>0, <1>3
  <1>6. Len(Apply) >= 1
    BY <1>0
  <1>7. Apply \in Runs(tags)
    BY <1>1, <1>4, <1>5, <1>6, RunsAre
  <1> QED
    BY <1>2, <1>7

LEMMA DisableRun == \A tags : Disable \in Runs(tags) /\ Disable[1] = <<"require", "marker">>
  <1> SUFFICES ASSUME NEW tags PROVE Disable \in Runs(tags) /\ Disable[1] = <<"require", "marker">>
    OBVIOUS
  <1>0. Len(Disable) = 9
    BY DEF Disable
  <1>1. Disable \in Seq(Verbs \X Objects)
    BY DEF Disable, Verbs, Objects
  <1>2. Disable[1] = <<"require", "marker">> /\ Disable[9] = <<"unmark", "managed">>
    BY DEF Disable
  <1>3. \A k \in 1..8 : <<Disable[k], Disable[k + 1]>> \in Follows
    BY DEF Follows, Adjacent
  <1>4. Disable[Len(Disable)] \in Ends(tags)
    BY <1>0, <1>2 DEF Ends
  <1>5. \A k \in 1..(Len(Disable) - 1) : <<Disable[k], Disable[k + 1]>> \in Follows
    BY <1>0, <1>3
  <1>6. Len(Disable) >= 1
    BY <1>0
  <1>7. Disable \in Runs(tags)
    BY <1>1, <1>4, <1>5, <1>6, RunsAre
  <1> QED
    BY <1>2, <1>7

LEMMA StopRun == \A tags : stopProxyTransport \in Runs(tags) /\ stopProxyTransport[1] = <<"stop", "firewall">>
  <1> SUFFICES ASSUME NEW tags
               PROVE stopProxyTransport \in Runs(tags) /\ stopProxyTransport[1] = <<"stop", "firewall">>
    OBVIOUS
  <1>0. Len(stopProxyTransport) = 2
    BY DEF stopProxyTransport
  <1>1. stopProxyTransport \in Seq(Verbs \X Objects)
    BY DEF stopProxyTransport, Verbs, Objects
  <1>2. stopProxyTransport[1] = <<"stop", "firewall">> /\ stopProxyTransport[2] = <<"stop", "backend">>
    BY DEF stopProxyTransport
  <1>3. <<stopProxyTransport[1], stopProxyTransport[2]>> \in Follows
    BY <1>2 DEF Follows
  <1>4. stopProxyTransport[Len(stopProxyTransport)] \in Ends(tags)
    BY <1>0, <1>2 DEF Ends
  <1>5. \A k \in 1..(Len(stopProxyTransport) - 1) : <<stopProxyTransport[k], stopProxyTransport[k + 1]>> \in Follows
    BY <1>0, <1>3
  <1>6. Len(stopProxyTransport) >= 1
    BY <1>0
  <1>7. stopProxyTransport \in Runs(tags)
    BY <1>1, <1>4, <1>5, <1>6, RunsAre
  <1> QED
    BY <1>2, <1>7

LEMMA SingleRun ==
  ASSUME NEW tags \in SUBSET (Up \cup Down), NEW c \in Single(tags)
  PROVE  <<c>> \in Runs(tags) /\ <<c>>[1] = c
  <1>0. Len(<<c>>) = 1 /\ <<c>>[1] = c
    OBVIOUS
  <1>1. c \in Verbs \X Objects
    BY DEF Single, Verbs, Objects, Up, Down
  <1>2. <<c>> \in Seq(Verbs \X Objects)
    BY <1>1
  <1> QED
    BY <1>0, <1>2 DEF Runs, Ends

LEMMA FollowsAre ==
  ASSUME NEW a, NEW b, <<a, b>> \in Follows
  PROVE  \/ a = <<"require", "package">> /\ b = <<"backup", "hostlist">>
         \/ a = <<"backup", "hostlist">> /\ b = <<"backup", "iplist">>
         \/ a = <<"backup", "iplist">> /\ b = <<"backup", "config">>
         \/ a = <<"backup", "config">> /\ b = <<"write", "config">>
         \/ a = <<"write", "config">> /\ b = <<"write", "hostlist">>
         \/ a = <<"write", "hostlist">> /\ b = <<"write", "iplist">>
         \/ a = <<"write", "iplist">> /\ b = <<"mark", "managed">>
         \/ a = <<"mark", "managed">> /\ b = <<"service", "start">>
         \/ a = <<"require", "marker">> /\ b = <<"service", "stop">>
         \/ a = <<"service", "stop">> /\ b = <<"restore", "hostlist">>
         \/ a = <<"restore", "hostlist">> /\ b = <<"restore", "iplist">>
         \/ a = <<"restore", "iplist">> /\ b = <<"restore", "config">>
         \/ a = <<"restore", "config">> /\ b = <<"unbackup", "hostlist">>
         \/ a = <<"unbackup", "hostlist">> /\ b = <<"unbackup", "iplist">>
         \/ a = <<"unbackup", "iplist">> /\ b = <<"unbackup", "config">>
         \/ a = <<"unbackup", "config">> /\ b = <<"unmark", "managed">>
         \/ a = <<"stop", "firewall">> /\ b = <<"stop", "backend">>
  <1>1. \/ \E k \in 1..8 : a = Apply[k] /\ b = Apply[k + 1]
        \/ \E k \in 1..8 : a = Disable[k] /\ b = Disable[k + 1]
        \/ a = <<"stop", "firewall">> /\ b = <<"stop", "backend">>
    BY DEF Follows, Adjacent
  <1>2. \A k \in 1..8 : k = 1 \/ k = 2 \/ k = 3 \/ k = 4 \/ k = 5 \/ k = 6 \/ k = 7 \/ k = 8
    OBVIOUS
  <1>3. CASE \E k \in 1..8 : a = Apply[k] /\ b = Apply[k + 1]
    <2>1. PICK k \in 1..8 : a = Apply[k] /\ b = Apply[k + 1]
      BY <1>3
    <2>2. \/ a = Apply[1] /\ b = Apply[2]
          \/ a = Apply[2] /\ b = Apply[3]
          \/ a = Apply[3] /\ b = Apply[4]
          \/ a = Apply[4] /\ b = Apply[5]
          \/ a = Apply[5] /\ b = Apply[6]
          \/ a = Apply[6] /\ b = Apply[7]
          \/ a = Apply[7] /\ b = Apply[8]
          \/ a = Apply[8] /\ b = Apply[9]
      BY <2>1, <1>2
    <2> QED
      BY <2>2 DEF Apply
  <1>4. CASE \E k \in 1..8 : a = Disable[k] /\ b = Disable[k + 1]
    <2>1. PICK k \in 1..8 : a = Disable[k] /\ b = Disable[k + 1]
      BY <1>4
    <2>2. \/ a = Disable[1] /\ b = Disable[2]
          \/ a = Disable[2] /\ b = Disable[3]
          \/ a = Disable[3] /\ b = Disable[4]
          \/ a = Disable[4] /\ b = Disable[5]
          \/ a = Disable[5] /\ b = Disable[6]
          \/ a = Disable[6] /\ b = Disable[7]
          \/ a = Disable[7] /\ b = Disable[8]
          \/ a = Disable[8] /\ b = Disable[9]
      BY <2>1, <1>2
    <2> QED
      BY <2>2 DEF Disable
  <1> QED
    BY <1>1, <1>3, <1>4

\* What is left of a block after its first step.
LEMMA RunTail ==
  ASSUME NEW tags, NEW s \in Runs(tags), Len(s) # 1
  PROVE  /\ Tail(s) \in Runs(tags) /\ Head(Tail(s)) = s[2] /\ Tail(s)[1] = s[2]
         /\ <<s[1], s[2]>> \in Follows
  <1>1. s \in Seq(Verbs \X Objects) /\ Len(s) \in Nat /\ Len(s) >= 1 /\ s[Len(s)] \in Ends(tags)
    BY DEF Runs
  <1>2. \A k \in 1..(Len(s) - 1) : <<s[k], s[k + 1]>> \in Follows
    BY DEF Runs
  <1>3. Tail(s) \in Seq(Verbs \X Objects) /\ Len(Tail(s)) = Len(s) - 1
    BY <1>1
  <1>4. \A k \in 1..(Len(s) - 1) : Tail(s)[k] = s[k + 1]
    BY <1>1
  <1>5. Len(Tail(s)) >= 1 /\ 1 \in 1..(Len(s) - 1)
    BY <1>1, <1>3
  <1>6. Tail(s)[Len(Tail(s))] = s[Len(s)]
    BY <1>1, <1>3, <1>4
  <1>7. \A k \in 1..(Len(Tail(s)) - 1) : <<Tail(s)[k], Tail(s)[k + 1]>> \in Follows
    <2> SUFFICES ASSUME NEW k \in 1..(Len(Tail(s)) - 1)
                 PROVE  <<Tail(s)[k], Tail(s)[k + 1]>> \in Follows
      OBVIOUS
    <2>1. k \in 1..(Len(s) - 1) /\ k + 1 \in 1..(Len(s) - 1)
      BY <1>1, <1>3
    <2>2. <<s[k + 1], s[(k + 1) + 1]>> \in Follows
      BY <2>1, <1>2
    <2>3. Tail(s)[k] = s[k + 1] /\ Tail(s)[k + 1] = s[(k + 1) + 1]
      BY <2>1, <1>4
    <2> QED
      BY <2>2, <2>3
  <1>8. Tail(s) \in Runs(tags)
    BY <1>1, <1>3, <1>5, <1>6, <1>7, RunsAre
  <1>9. Head(Tail(s)) = s[2] /\ Tail(s)[1] = s[2]
    BY <1>1, <1>3, <1>4, <1>5
  <1>10. <<s[1], s[2]>> \in Follows
    BY <1>5, <1>2
  <1> QED
    BY <1>8, <1>9, <1>10

\* The blocks of an error path: whole, without Apply, and no state that says Zapret.
Handling(tags) ==
    {s \in Runs(tags \cap Down) : s[1] \in Starts(tags \cap Down) /\ s[1] \notin Applying}

\* A connection is recorded by the next block.
Linked(p) ==
    \A i \in 1..Len(p) : p[i].steps[1][1] = "connect" => i < Len(p) /\ p[i + 1].steps[1] \in {"save"} \X Down

\* A state that says Zapret is saved by itself or after what is left of Apply.
Prepared(p) ==
    \A i \in 2..Len(p) : p[i].steps[1] \in {"save"} \X Up => p[i - 1].steps[1] \in Applying

\* Error paths whose blocks fail into `errs': each is empty or ends with a save.
Errs(tags, errs) ==
    {p \in Seq([steps : Handling(tags), err : errs]) :
        (p # <<>> => p[Len(p)].steps[1] \in {"save"} \X Down) /\ Linked(p)}
Errs1(tags) == Errs(tags, {<<>>})
Errs2(tags) == Errs(tags, Errs1(tags))

\* What may be left of an operation: the first block may have begun, a state that says
\* Zapret is saved last and only after Apply or nothing else was saved or connected, and
\* an operation that does not end with a save neither saves nor connects.
Settling == {"save", "connect"}
Shape(p, tags) ==
    /\ p \in Seq([steps : Runs(tags), err : Errs2(tags)])
    /\ \A i \in 2..Len(p) : p[i].steps[1] \in Starts(tags)
    /\ \A i \in 1..Len(p) :
          p[i].steps[1] \in {"save"} \X Up =>
              i = Len(p) /\ \A j \in 1..(i - 1) : p[j].steps[1][1] \notin Settling /\ p[j].steps[1] \notin Disabling
    /\ \A i \in 1..Len(p) :
          p[i].steps[1] \in Applying =>
              i + 1 = Len(p) /\ p[i + 1].steps[1] \in {"save"} \X Up
    /\ p # <<>> => \/ p[Len(p)].steps[1] \in {"save"} \X (Up \cup Down)
                   \/ \A i \in 1..Len(p) : p[i].steps[1][1] \notin Settling
    /\ Linked(p) /\ Prepared(p)

LEMMA RunsGrow ==
  ASSUME NEW tags
  PROVE  /\ Runs(tags \cap Down) \subseteq Runs(tags)
         /\ Starts(tags \cap Down) \subseteq Starts(tags)
         /\ Starts(tags \cap Down) \cap ({"save"} \X Up) = {}
  <1>1. Ends(tags \cap Down) \subseteq Ends(tags) /\ Starts(tags \cap Down) \subseteq Starts(tags)
    BY DEF Ends, Starts, Single
  <1>2. Starts(tags \cap Down) \cap ({"save"} \X Up) = {}
    BY DEF Starts, Single, Up, Down
  <1>3. Runs(tags \cap Down) \subseteq Runs(tags)
    BY <1>1 DEF Runs
  <1> QED
    BY <1>1, <1>2, <1>3

LEMMA HandlingRuns ==
  ASSUME NEW tags, NEW s \in Handling(tags)
  PROVE  /\ s \in Runs(tags) /\ s[1] \in Starts(tags)
         /\ s[1] \notin {"save"} \X Up /\ s[1] \notin Applying
  BY RunsGrow DEF Handling

LEMMA RunHead ==
  ASSUME NEW tags, NEW s \in Runs(tags)
  PROVE  Head(s) = s[1] /\ Len(s) \in Nat \ {0} /\ (Len(s) = 1 => s[1] \in Ends(tags))
  BY DEF Runs

\* What is left after the first block.
LEMMA ShapeTail ==
  ASSUME NEW tags, NEW p, Shape(p, tags), p # <<>>
  PROVE  Shape(Tail(p), tags) /\ (Tail(p) # <<>> => Tail(p)[1].steps[1] \in Starts(tags))
  <1> DEFINE S == [steps : Runs(tags), err : Errs2(tags)]
             q == Tail(p)
  <1>1. p \in Seq(S) /\ Len(p) \in Nat /\ Len(p) >= 1
    BY DEF Shape
  <1> HIDE DEF S
  <1>2. q \in Seq(S) /\ Len(q) = Len(p) - 1 /\ \A i \in 1..Len(q) : q[i] = p[i + 1]
    BY <1>1
  <1> HIDE DEF q
  <1>3. \A i \in 1..Len(q) : q[i].steps[1] \in Starts(tags)
    <2> SUFFICES ASSUME NEW i \in 1..Len(q) PROVE q[i].steps[1] \in Starts(tags)
      OBVIOUS
    <2>1. i + 1 \in 2..Len(p)
      BY <1>1, <1>2
    <2> QED
      BY <2>1, <1>2 DEF Shape
  <1>4. \A i \in 1..Len(q) : q[i].steps[1] \in {"save"} \X Up =>
              i = Len(q) /\ \A j \in 1..(i - 1) : q[j].steps[1][1] \notin Settling /\ q[j].steps[1] \notin Disabling
    <2> SUFFICES ASSUME NEW i \in 1..Len(q), q[i].steps[1] \in {"save"} \X Up
                 PROVE  i = Len(q) /\ \A j \in 1..(i - 1) : q[j].steps[1][1] \notin Settling /\ q[j].steps[1] \notin Disabling
      OBVIOUS
    <2>1. i + 1 \in 1..Len(p) /\ p[i + 1].steps[1] \in {"save"} \X Up
      BY <1>1, <1>2
    <2>2. i + 1 = Len(p) /\ \A j \in 1..((i + 1) - 1) : p[j].steps[1][1] \notin Settling /\ p[j].steps[1] \notin Disabling
      BY <2>1 DEF Shape
    <2>3. \A j \in 1..(i - 1) : j + 1 \in 1..((i + 1) - 1) /\ q[j] = p[j + 1]
      BY <1>1, <1>2
    <2>a. i + 1 = Len(p)
      BY <2>2
    <2>4. i = Len(q)
      BY <1>1, <1>2, <2>a
    <2>5. ASSUME NEW j \in 1..(i - 1) PROVE q[j].steps[1][1] \notin Settling /\ q[j].steps[1] \notin Disabling
      BY <2>2, <2>3, Zenon
    <2> QED
      BY <2>4, <2>5
  <1>5. \A i \in 1..Len(q) : q[i].steps[1] \in Applying =>
              i + 1 = Len(q) /\ q[i + 1].steps[1] \in {"save"} \X Up
    <2> SUFFICES ASSUME NEW i \in 1..Len(q), q[i].steps[1] \in Applying
                 PROVE  i + 1 = Len(q) /\ q[i + 1].steps[1] \in {"save"} \X Up
      OBVIOUS
    <2>1. i + 1 \in 1..Len(p) /\ p[i + 1].steps[1] \in Applying
      BY <1>1, <1>2
    <2>2. (i + 1) + 1 = Len(p) /\ p[(i + 1) + 1].steps[1] \in {"save"} \X Up
      BY <2>1 DEF Shape
    <2>a. (i + 1) + 1 = Len(p)
      BY <2>2
    <2>3. i + 1 \in 1..Len(q) /\ i + 1 = Len(q)
      BY <1>1, <1>2, <2>a
    <2>4. q[i + 1] = p[(i + 1) + 1]
      BY <1>2, <2>3
    <2> QED
      BY <2>2, <2>3, <2>4, Zenon
  <1>6. q # <<>> => \/ q[Len(q)].steps[1] \in {"save"} \X (Up \cup Down)
                    \/ \A i \in 1..Len(q) : q[i].steps[1][1] \notin Settling
    <2> SUFFICES ASSUME q # <<>>, q[Len(q)].steps[1] \notin {"save"} \X (Up \cup Down)
                 PROVE  \A i \in 1..Len(q) : q[i].steps[1][1] \notin Settling
      OBVIOUS
    <2>1. Len(q) >= 1 /\ q[Len(q)] = p[Len(p)]
      BY <1>1, <1>2
    <2>2. \A i \in 1..Len(p) : p[i].steps[1][1] \notin Settling
      BY <1>1, <2>1 DEF Shape
    <2>3. \A i \in 1..Len(q) : i + 1 \in 1..Len(p)
      BY <1>1, <1>2
    <2> QED
      BY <1>2, <2>2, <2>3
  <1>9. Linked(q)
    <2> SUFFICES ASSUME NEW i \in 1..Len(q), q[i].steps[1][1] = "connect"
                 PROVE  i < Len(q) /\ q[i + 1].steps[1] \in {"save"} \X Down
      BY DEF Linked
    <2>1. i + 1 \in 1..Len(p) /\ p[i + 1].steps[1][1] = "connect"
      BY <1>1, <1>2
    <2>2. i + 1 < Len(p) /\ p[(i + 1) + 1].steps[1] \in {"save"} \X Down
      BY <2>1 DEF Shape, Linked
    <2>a. i + 1 < Len(p)
      BY <2>2
    <2>3. i + 1 \in 1..Len(q) /\ i < Len(q)
      BY <1>1, <1>2, <2>a
    <2>4. q[i + 1] = p[(i + 1) + 1]
      BY <1>2, <2>3
    <2> QED
      BY <2>2, <2>3, <2>4, Zenon
  <1>10. Prepared(q)
    <2> SUFFICES ASSUME NEW i \in 2..Len(q), q[i].steps[1] \in {"save"} \X Up
                 PROVE  q[i - 1].steps[1] \in Applying
      BY DEF Prepared
    <2>1. i + 1 \in 2..Len(p) /\ q[i] = p[i + 1] /\ q[i - 1] = p[(i + 1) - 1]
      BY <1>1, <1>2
    <2>2. p[i + 1].steps[1] \in {"save"} \X Up
      BY <2>1
    <2>3. p[(i + 1) - 1].steps[1] \in Applying
      BY <2>1, <2>2 DEF Shape, Prepared
    <2> QED
      BY <2>1, <2>3
  <1>7. Shape(q, tags)
    <2>1. \A i \in 2..Len(q) : q[i].steps[1] \in Starts(tags)
      BY <1>1, <1>2, <1>3
    <2> QED
      BY <1>2, <1>4, <1>5, <1>6, <1>9, <1>10, <2>1 DEF Shape, S
  <1>8. q # <<>> => 1 \in 1..Len(q)
    BY <1>1, <1>2
  <1> QED
    BY <1>3, <1>7, <1>8 DEF q

LEMMA FollowsSteps ==
  ASSUME NEW a, NEW b, <<a, b>> \in Follows
  PROVE  /\ a[1] \notin Settling /\ b[1] \notin Settling /\ b \notin {"save"} \X Up
         /\ a \in Applying <=> b \in Applying
         /\ a \in Disabling <=> b \in Disabling
  <1>1. a[1] \notin Settling
    BY FollowsAre DEF Settling
  <1>2. b[1] \notin Settling
    BY FollowsAre DEF Settling
  <1>3. a \in Applying <=> b \in Applying
    BY FollowsAre DEF Applying, Files
  <1>4. a \in Disabling <=> b \in Disabling
    BY FollowsAre DEF Disabling, Files
  <1> QED
    BY <1>1, <1>2, <1>3, <1>4 DEF Settling

\* What is left after the first step of a block that has another one.
LEMMA ShapeGo ==
  ASSUME NEW tags, NEW p, Shape(p, tags), p # <<>>, Len(p[1].steps) # 1,
         NEW q, q = [p EXCEPT ![1].steps = Tail(@)]
  PROVE  Shape(q, tags) /\ q # <<>> /\ <<Head(p[1].steps), Head(q[1].steps)>> \in Follows
  <1> DEFINE S == [steps : Runs(tags), err : Errs2(tags)]
             s == p[1].steps
  <1>1. p \in Seq(S) /\ Len(p) \in Nat /\ Len(p) >= 1
    BY DEF Shape
  <1> HIDE DEF S
  <1>2. p[1] \in S
    BY <1>1, ElementOfSeq
  <1>3. s \in Runs(tags) /\ p[1].err \in Errs2(tags)
    BY <1>2 DEF S
  <1>4. /\ Tail(s) \in Runs(tags) /\ Head(Tail(s)) = s[2] /\ Tail(s)[1] = s[2]
        /\ <<s[1], s[2]>> \in Follows
    BY <1>3, RunTail
  <1>5. Head(s) = s[1]
    BY <1>3, RunHead
  <1>6. q \in Seq(S) /\ Len(q) = Len(p) /\ (\A i \in 2..Len(p) : q[i] = p[i])
        /\ q[1] = [p[1] EXCEPT !.steps = Tail(s)]
    <2> DEFINE e == [p[1] EXCEPT !.steps = Tail(s)]
    <2>1. e \in S
      BY <1>2, <1>4 DEF S
    <2>2. q = [p EXCEPT ![1] = e]
      OBVIOUS
    <2> HIDE DEF e
    <2>3. /\ [p EXCEPT ![1] = e] \in Seq(S) /\ Len([p EXCEPT ![1] = e]) = Len(p)
          /\ \A j \in 1..Len(p) : [p EXCEPT ![1] = e][j] = IF j = 1 THEN e ELSE p[j]
      BY <1>1, <2>1, ExceptSeq
    <2>4. q[1] = e /\ \A j \in 2..Len(p) : q[j] = p[j]
      BY <1>1, <2>2, <2>3
    <2> QED
      BY <2>2, <2>3, <2>4 DEF e
  <1>7. q[1].steps = Tail(s) /\ 1 \in 1..Len(p)
    BY <1>1, <1>2, <1>6 DEF S
  <1>8. /\ s[1][1] \notin Settling /\ s[2][1] \notin Settling /\ s[2] \notin {"save"} \X Up
        /\ s[1] \in Applying <=> s[2] \in Applying
        /\ s[1] \in Disabling <=> s[2] \in Disabling
    BY <1>4, FollowsSteps
  <1>9. q[1].steps[1][1] \notin Settling /\ q[1].steps[1] \notin {"save"} \X Up
        /\ (q[1].steps[1] \in Applying => s[1] \in Applying) /\ (q[1].steps[1] \in Disabling => s[1] \in Disabling)
    BY <1>4, <1>7, <1>8
  <1> HIDE DEF s
  <1>10. \A i \in 1..Len(p) : q[i] = p[i] \/ i = 1
    BY <1>1, <1>6
  <1>11. \A i \in 2..Len(q) : q[i].steps[1] \in Starts(tags)
    BY <1>6 DEF Shape
  <1>12. \A i \in 1..Len(q) : q[i].steps[1] \in {"save"} \X Up =>
              i = Len(q) /\ \A j \in 1..(i - 1) : q[j].steps[1][1] \notin Settling /\ q[j].steps[1] \notin Disabling
    <2> SUFFICES ASSUME NEW i \in 1..Len(q), q[i].steps[1] \in {"save"} \X Up
                 PROVE  i = Len(q) /\ \A j \in 1..(i - 1) : q[j].steps[1][1] \notin Settling /\ q[j].steps[1] \notin Disabling
      OBVIOUS
    <2>1. i \in 1..Len(p) /\ q[i] = p[i]
      BY <1>6, <1>9, <1>10
    <2>2. i = Len(p) /\ \A j \in 1..(i - 1) : p[j].steps[1][1] \notin Settling /\ p[j].steps[1] \notin Disabling
      BY <2>1 DEF Shape
    <2>3. \A j \in 1..(i - 1) : j \in 1..Len(p)
      BY <2>1, <1>1
    <2>4. ASSUME NEW j \in 1..(i - 1) PROVE q[j].steps[1][1] \notin Settling /\ q[j].steps[1] \notin Disabling
      BY <2>2, <2>3, <1>9, <1>10, Zenon DEF s
    <2> QED
      BY <1>6, <2>2, <2>4
  <1>13. \A i \in 1..Len(q) : q[i].steps[1] \in Applying =>
              i + 1 = Len(q) /\ q[i + 1].steps[1] \in {"save"} \X Up
    <2> SUFFICES ASSUME NEW i \in 1..Len(q), q[i].steps[1] \in Applying
                 PROVE  i + 1 = Len(q) /\ q[i + 1].steps[1] \in {"save"} \X Up
      OBVIOUS
    <2>1. i \in 1..Len(p) /\ p[i].steps[1] \in Applying
      BY <1>6, <1>9, <1>10 DEF s
    <2>2. i + 1 = Len(p) /\ p[i + 1].steps[1] \in {"save"} \X Up
      BY <2>1 DEF Shape
    <2>3. i + 1 \in 2..Len(p)
      BY <2>1, <2>2, <1>1
    <2>4. q[i + 1] = p[i + 1]
      BY <2>3, <1>6
    <2> QED
      BY <1>6, <2>2, <2>4
  <1>14. q # <<>> /\ Len(q) \in 1..Len(p)
    BY <1>1, <1>6
  <1>15. \/ q[Len(q)].steps[1] \in {"save"} \X (Up \cup Down)
         \/ \A i \in 1..Len(q) : q[i].steps[1][1] \notin Settling
    <2>1. CASE p[Len(p)].steps[1] \in {"save"} \X (Up \cup Down)
      <3>1. Len(p) # 1
        BY <2>1, <1>8 DEF Settling, s
      <3>2. q[Len(q)] = p[Len(p)]
        BY <3>1, <1>1, <1>6
      <3> QED
        BY <2>1, <3>2
    <2>2. CASE \A i \in 1..Len(p) : p[i].steps[1][1] \notin Settling
      BY <2>2, <1>6, <1>9, <1>10
    <2> QED
      BY <2>1, <2>2 DEF Shape
  <1>17. Linked(q)
    <2> SUFFICES ASSUME NEW i \in 1..Len(q), q[i].steps[1][1] = "connect"
                 PROVE  i < Len(q) /\ q[i + 1].steps[1] \in {"save"} \X Down
      BY DEF Linked
    <2>1. i \in 1..Len(p) /\ q[i] = p[i]
      BY <1>6, <1>9, <1>10 DEF Settling
    <2>2. i < Len(p) /\ p[i + 1].steps[1] \in {"save"} \X Down
      BY <2>1 DEF Shape, Linked
    <2>3. i + 1 \in 2..Len(p)
      BY <2>1, <2>2, <1>1
    <2>4. q[i + 1] = p[i + 1]
      BY <2>3, <1>6
    <2> QED
      BY <1>6, <2>2, <2>4
  <1>18. Prepared(q)
    <2> SUFFICES ASSUME NEW i \in 2..Len(q), q[i].steps[1] \in {"save"} \X Up
                 PROVE  q[i - 1].steps[1] \in Applying
      BY DEF Prepared
    <2>1. i \in 2..Len(p) /\ q[i] = p[i] /\ i - 1 \in 1..Len(p)
      BY <1>1, <1>6
    <2>2. p[i - 1].steps[1] \in Applying
      BY <2>1 DEF Shape, Prepared
    <2>3. CASE i - 1 = 1
      BY <2>2, <2>3, <1>4, <1>7, <1>8 DEF s
    <2>4. CASE i - 1 # 1
      BY <2>1, <2>2, <2>4, <1>10
    <2> QED
      BY <2>3, <2>4
  <1>16. Shape(q, tags)
    BY <1>6, <1>11, <1>12, <1>13, <1>15, <1>17, <1>18 DEF Shape, S
  <1> QED
    BY <1>4, <1>5, <1>7, <1>14, <1>16 DEF s

LEMMA ErrsGrow ==
  ASSUME NEW tags
  PROVE  <<>> \in Errs1(tags) /\ <<>> \in Errs2(tags) /\ Errs1(tags) \subseteq Errs2(tags)
  <1>1. \A E : <<>> \in Errs(tags, E)
    BY DEF Errs, Linked
  <1>2. <<>> \in Errs1(tags) /\ <<>> \in Errs2(tags)
    BY <1>1 DEF Errs1, Errs2
  <1>3. \A E, F : E \subseteq F => Errs(tags, E) \subseteq Errs(tags, F)
    <2> SUFFICES ASSUME NEW E, NEW F, E \subseteq F, NEW p \in Errs(tags, E)
                 PROVE  p \in Errs(tags, F)
      OBVIOUS
    <2>1. p \in Seq([steps : Handling(tags), err : E]) /\ (p # <<>> => p[Len(p)].steps[1] \in {"save"} \X Down) /\ Linked(p)
      BY DEF Errs
    <2>2. [steps : Handling(tags), err : E] \subseteq [steps : Handling(tags), err : F]
      OBVIOUS
    <2>3. p \in Seq([steps : Handling(tags), err : F])
      BY <2>1, <2>2, SeqMonotonic
    <2> QED
      BY <2>1, <2>3 DEF Errs
  <1> QED
    BY <1>2, <1>3 DEF Errs1, Errs2

\* An error path is a program: what a failed step leaves is one.
LEMMA ErrShape ==
  ASSUME NEW tags, NEW e \in Errs(tags, Errs2(tags))
  PROVE  Shape(e, tags) /\ (e # <<>> => e[1].steps[1] \in Starts(tags))
  <1> DEFINE H == [steps : Handling(tags), err : Errs2(tags)]
  <1>1. e \in Seq(H) /\ (e # <<>> => e[Len(e)].steps[1] \in {"save"} \X Down) /\ Len(e) \in Nat /\ Linked(e)
    BY DEF Errs
  <1>2. H \subseteq [steps : Runs(tags), err : Errs2(tags)]
    BY HandlingRuns
  <1>3. e \in Seq([steps : Runs(tags), err : Errs2(tags)])
    BY <1>1, <1>2, SeqMonotonic
  <1>4. ASSUME NEW i \in 1..Len(e)
        PROVE  /\ e[i].steps[1] \in Starts(tags)
               /\ e[i].steps[1] \notin {"save"} \X Up
               /\ e[i].steps[1] \notin Applying
    <2>1. e[i] \in H
      BY <1>1, ElementOfSeq
    <2>2. e[i].steps \in Handling(tags)
      BY <2>1
    <2> QED
      BY <2>2, HandlingRuns
  <1>5. \A i \in 2..Len(e) : i \in 1..Len(e)
    BY <1>1
  <1>6. e # <<>> => 1 \in 1..Len(e)
    BY <1>1
  <1>7. Prepared(e)
    BY <1>4, <1>5 DEF Prepared
  <1> QED
    BY <1>1, <1>3, <1>4, <1>5, <1>6, <1>7 DEF Shape

LEMMA Errs2Grow ==
  ASSUME NEW tags
  PROVE  Errs2(tags) \subseteq Errs(tags, Errs2(tags))
  <1> SUFFICES ASSUME NEW p \in Errs2(tags) PROVE p \in Errs(tags, Errs2(tags))
    OBVIOUS
  <1>1. p \in Seq([steps : Handling(tags), err : Errs1(tags)]) /\ (p # <<>> => p[Len(p)].steps[1] \in {"save"} \X Down) /\ Linked(p)
    BY DEF Errs2, Errs
  <1>2. [steps : Handling(tags), err : Errs1(tags)] \subseteq [steps : Handling(tags), err : Errs2(tags)]
    BY ErrsGrow
  <1>3. p \in Seq([steps : Handling(tags), err : Errs2(tags)])
    BY <1>1, <1>2, SeqMonotonic
  <1> QED
    BY <1>1, <1>3 DEF Errs

LEMMA TryBlock ==
  ASSUME NEW lists, NEW errs, NEW s \in lists, NEW e \in errs
  PROVE  /\ Try(s, e) \in Seq([steps : lists, err : errs]) /\ Len(Try(s, e)) = 1
         /\ Try(s, e)[1].steps = s
  BY DEF Try, Block

LEMMA HandlingLists ==
  ASSUME NEW tags \in SUBSET (Up \cup Down)
  PROVE  /\ Disable \in Handling(tags) /\ stopProxyTransport \in Handling(tags)
         /\ \A p \in {"mark", "keep", "auto"} : << <<"connect", p>> >> \in Handling(tags)
         /\ \A tag \in tags \cap Down : << <<"save", tag>> >> \in Handling(tags)
  <1>2. Disable \in Handling(tags)
    BY DisableRun DEF Handling, Starts, Applying
  <1>4. stopProxyTransport \in Handling(tags)
    BY StopRun DEF Handling, Starts, Applying
  <1>5. ASSUME NEW c \in Single(tags \cap Down) PROVE <<c>> \in Handling(tags)
    <2>1. <<c>> \in Runs(tags \cap Down) /\ <<c>>[1] = c /\ Len(<<c>>) = 1
      BY SingleRun
    <2>2. c \notin Applying /\ c \in Starts(tags \cap Down)
      BY DEF Single, Starts, Applying
    <2> QED
      BY <2>1, <2>2 DEF Handling
  <1>6. /\ \A p \in {"mark", "keep", "auto"} : <<"connect", p>> \in Single(tags \cap Down)
        /\ \A tag \in tags \cap Down : <<"save", tag>> \in Single(tags \cap Down)
    BY DEF Single
  <1> QED
    BY <1>2, <1>4, <1>5, <1>6

\* A program that ends with a save is an error path, and so are two in a row.
LEMMA SaveEnds ==
  ASSUME NEW tags \in SUBSET (Up \cup Down), NEW errs, NEW e \in errs, NEW tag \in tags \cap Down,
         NEW p \in Seq([steps : Handling(tags), err : errs]),
         \A i \in 1..Len(p) : p[i].steps[1][1] = "connect" => i = Len(p)
  PROVE  p \o Save(tag, e) \in Errs(tags, errs) /\ Save(tag, e) \in Errs(tags, errs)
  <1> DEFINE H == [steps : Handling(tags), err : errs]
             s == << <<"save", tag>> >>
             q == Save(tag, e)
  <1>1. s \in Handling(tags) /\ s[1][1] = "save"
    BY HandlingLists
  <1> HIDE DEF s
  <1>2. q = Try(s, e)
    BY DEF Save, s
  <1>3. q \in Seq(H) /\ Len(q) = 1 /\ q[1].steps = s
    BY <1>1, <1>2, TryBlock
  <1> HIDE DEF H, q
  <1>4. p \in Seq(H) /\ Len(p) \in Nat
    BY DEF H
  <1>5. /\ p \o q \in Seq(H) /\ Len(p \o q) = Len(p) + Len(q)
        /\ \A i \in 1..(Len(p) + Len(q)) : (p \o q)[i] = IF i <= Len(p) THEN p[i] ELSE q[i - Len(p)]
    BY <1>3, <1>4, ConcatProperties
  <1>6. (p \o q)[Len(p) + 1] = q[1] /\ Len(p \o q) = Len(p) + 1
    BY <1>3, <1>4, <1>5
  <1>7. q[1].steps[1] \in {"save"} \X Down /\ q[1].steps[1][1] = "save"
    BY <1>1, <1>3 DEF s
  <1>8. Linked(p \o q)
    <2> SUFFICES ASSUME NEW i \in 1..Len(p \o q), (p \o q)[i].steps[1][1] = "connect"
                 PROVE  i < Len(p \o q) /\ (p \o q)[i + 1].steps[1] \in {"save"} \X Down
      BY DEF Linked
    <2>1. i # Len(p) + 1
      BY <1>6, <1>7
    <2>2. i \in 1..Len(p)
      BY <1>4, <1>6, <2>1
    <2>3. (p \o q)[i] = p[i]
      BY <1>3, <1>4, <1>5, <2>2
    <2>4. i = Len(p)
      BY <2>2, <2>3
    <2> QED
      BY <1>4, <1>6, <1>7, <2>4
  <1>9. Linked(q)
    BY <1>3, <1>7 DEF Linked
  <1> QED
    BY <1>3, <1>5, <1>6, <1>7, <1>8, <1>9 DEF Errs, H, q

LEMMA ErrsConcat ==
  ASSUME NEW tags, NEW errs, NEW p \in Errs(tags, errs), NEW q \in Errs(tags, errs)
  PROVE  p \o q \in Errs(tags, errs)
  <1> DEFINE H == [steps : Handling(tags), err : errs]
  <1>1. p \in Seq(H) /\ Len(p) \in Nat /\ (p # <<>> => p[Len(p)].steps[1] \in {"save"} \X Down) /\ Linked(p)
    BY DEF Errs
  <1>2. q \in Seq(H) /\ Len(q) \in Nat /\ (q # <<>> => q[Len(q)].steps[1] \in {"save"} \X Down) /\ Linked(q)
    BY DEF Errs
  <1> HIDE DEF H
  <1>3. CASE q = <<>>
    <2>1. p \o q = p
      BY <1>1, <1>3, ConcatEmptySeq
    <2> QED
      BY <2>1
  <1>4. CASE q # <<>>
    <2>1. /\ p \o q \in Seq(H) /\ Len(p \o q) = Len(p) + Len(q)
          /\ \A i \in 1..(Len(p) + Len(q)) : (p \o q)[i] = IF i <= Len(p) THEN p[i] ELSE q[i - Len(p)]
      BY <1>1, <1>2, ConcatProperties
    <2>2. Len(q) >= 1
      BY <1>2, <1>4
    <2>3. (p \o q)[Len(p \o q)] = q[Len(q)]
      BY <1>1, <1>2, <2>1, <2>2
    <2>4. Linked(p \o q)
      <3> SUFFICES ASSUME NEW i \in 1..Len(p \o q), (p \o q)[i].steps[1][1] = "connect"
                   PROVE  i < Len(p \o q) /\ (p \o q)[i + 1].steps[1] \in {"save"} \X Down
        BY DEF Linked
      <3>1. CASE i <= Len(p)
        <4>1. i \in 1..Len(p) /\ (p \o q)[i] = p[i]
          BY <1>1, <1>2, <2>1, <3>1
        <4>2. i < Len(p) /\ p[i + 1].steps[1] \in {"save"} \X Down
          BY <1>1, <4>1 DEF Linked
        <4>3. i + 1 \in 1..(Len(p) + Len(q)) /\ i + 1 <= Len(p) /\ i < Len(p) + Len(q)
          BY <1>1, <1>2, <4>1, <4>2
        <4>4. (p \o q)[i + 1] = p[i + 1]
          BY <2>1, <4>3
        <4> QED
          BY <2>1, <4>2, <4>3, <4>4
      <3>2. CASE i > Len(p)
        <4> DEFINE j == i - Len(p)
        <4>1. j \in 1..Len(q) /\ (p \o q)[i] = q[j]
          BY <1>1, <1>2, <2>1, <3>2
        <4>2. j < Len(q) /\ q[j + 1].steps[1] \in {"save"} \X Down
          BY <1>2, <4>1 DEF Linked
        <4>a. j < Len(q) /\ j \in 1..Len(q)
          BY <4>1, <4>2
        <4>3. i + 1 \in 1..(Len(p) + Len(q)) /\ ~(i + 1 <= Len(p)) /\ i < Len(p) + Len(q) /\ (i + 1) - Len(p) = j + 1
          BY <1>1, <1>2, <3>2, <4>a, <2>1
        <4>4. (p \o q)[i + 1] = q[j + 1]
          BY <2>1, <4>3
        <4> QED
          BY <2>1, <4>2, <4>3, <4>4
      <3>3. i \in Nat
        BY <1>1, <1>2, <2>1
      <3> QED
        BY <1>1, <3>1, <3>2, <3>3
    <2> QED
      BY <1>2, <1>4, <2>1, <2>3, <2>4 DEF Errs, H
  <1> QED
    BY <1>3, <1>4

(* The programs of the operations. *)

LEMMA DisconnectProgram ==
  ASSUME NEW tags \in SUBSET (Up \cup Down), NEW errs, NEW e \in errs
  PROVE  /\ disconnectRuntime(e) \in Seq([steps : Handling(tags), err : errs])
         /\ Len(disconnectRuntime(e)) = 2
         /\ disconnectRuntime(e)[1].steps[1] = <<"stop", "firewall">>
         /\ disconnectRuntime(e)[2].steps[1] = <<"require", "marker">>
         /\ \A i \in 1..Len(disconnectRuntime(e)) : disconnectRuntime(e)[i].steps[1][1] \notin Settling
  <1> DEFINE H == [steps : Handling(tags), err : errs]
             a == Try(stopProxyTransport, e)
             b == Try(Disable, e)
             p == disconnectRuntime(e)
  <1>1. /\ a \in Seq(H) /\ Len(a) = 1 /\ a[1].steps = stopProxyTransport
        /\ b \in Seq(H) /\ Len(b) = 1 /\ b[1].steps = Disable
    <2>1. stopProxyTransport \in Handling(tags) /\ Disable \in Handling(tags)
      BY HandlingLists
    <2>2. a \in Seq(H) /\ Len(a) = 1 /\ a[1].steps = stopProxyTransport
      BY <2>1, TryBlock
    <2>3. b \in Seq(H) /\ Len(b) = 1 /\ b[1].steps = Disable
      BY <2>1, TryBlock
    <2> QED
      BY <2>2, <2>3
  <1> HIDE DEF H, a, b
  <1>2. /\ a \o b \in Seq(H) /\ Len(a \o b) = Len(a) + Len(b)
        /\ \A i \in 1..(Len(a) + Len(b)) : (a \o b)[i] = IF i <= Len(a) THEN a[i] ELSE b[i - Len(a)]
    BY <1>1, ConcatProperties
  <1>3. p = a \o b
    BY DEF disconnectRuntime, a, b
  <1> HIDE DEF p
  <1>4. p \in Seq(H) /\ Len(p) = 2 /\ p[1] = a[1] /\ p[2] = b[1]
    BY <1>1, <1>2, <1>3
  <1>5. p[1].steps[1] = <<"stop", "firewall">> /\ p[2].steps[1] = <<"require", "marker">>
    BY <1>1, <1>4, StopRun, DisableRun
  <1>6. \A i \in 1..Len(p) : i = 1 \/ i = 2
    BY <1>4
  <1>7. \A i \in 1..Len(p) : p[i].steps[1][1] \notin Settling
    BY <1>5, <1>6 DEF Settling
  <1> QED
    BY <1>4, <1>5, <1>7 DEF H, p

LEMMA SelectionProgram ==
  ASSUME NEW tags \in SUBSET (Up \cup Down), NEW errs, NEW e \in errs,
         NEW policy \in {"mark", "keep", "auto"}, "connected" \in tags
  PROVE  applyNodeSelection(policy, e) \in Errs(tags, errs)
  <1> DEFINE H == [steps : Handling(tags), err : errs]
             off == IF effectiveActiveTransport(st) = "zapret" THEN Try(Disable, e) ELSE <<>>
             on == Try(<< <<"connect", policy>> >>, e)
  <1>1. /\ Try(Disable, e) \in Seq(H) /\ Len(Try(Disable, e)) = 1 /\ Try(Disable, e)[1].steps = Disable
        /\ on \in Seq(H) /\ Len(on) = 1
    <2>1. << <<"connect", policy>> >> \in Handling(tags) /\ Disable \in Handling(tags)
      BY HandlingLists
    <2>2. on \in Seq(H) /\ Len(on) = 1
      BY <2>1, TryBlock
    <2>3. Try(Disable, e) \in Seq(H) /\ Len(Try(Disable, e)) = 1 /\ Try(Disable, e)[1].steps = Disable
      BY <2>1, TryBlock
    <2> QED
      BY <2>2, <2>3
  <1>2. off \in Seq(H) /\ \A i \in 1..Len(off) : off[i].steps[1][1] # "connect"
    <2>1. CASE effectiveActiveTransport(st) = "zapret"
      <3>1. off = Try(Disable, e)
        BY <2>1
      <3> HIDE DEF off, H
      <3>a. Len(off) = 1
        BY <1>1, <3>1
      <3>2. \A i \in 1..Len(off) : i = 1
        BY <3>a
      <3>3. off[1].steps[1][1] # "connect"
        BY <1>1, <3>1, DisableRun
      <3> QED
        BY <1>1, <3>1, <3>2, <3>3
    <2>2. CASE effectiveActiveTransport(st) # "zapret"
      <3>1. off = <<>>
        BY <2>2
      <3> HIDE DEF off, H
      <3> QED
        BY <3>1
    <2> QED
      BY <2>1, <2>2
  <1>3. applyNodeSelection(policy, e) = (off \o on) \o Save("connected", e)
    BY DEF applyNodeSelection
  <1> HIDE DEF H, off, on
  <1>4. /\ off \o on \in Seq(H) /\ Len(off \o on) = Len(off) + Len(on)
        /\ \A i \in 1..(Len(off) + Len(on)) : (off \o on)[i] = IF i <= Len(off) THEN off[i] ELSE on[i - Len(off)]
    BY <1>1, <1>2, ConcatProperties
  <1>5. "connected" \in tags \cap Down
    BY DEF Down
  <1>7. \A i \in 1..Len(off \o on) : (off \o on)[i].steps[1][1] = "connect" => i = Len(off \o on)
    <2>1. Len(off) \in Nat
      BY <1>2
    <2> QED
      BY <1>1, <1>2, <1>4, <2>1
  <1>6. (off \o on) \o Save("connected", e) \in Errs(tags, errs)
    BY <1>4, <1>5, <1>7, SaveEnds DEF H
  <1> QED
    BY <1>3, <1>6

LEMMA DownProgram ==
  ASSUME NEW tags \in SUBSET (Up \cup Down), NEW errs, NEW e \in errs, NEW tag \in tags \cap Down
  PROVE  disconnectRuntime(e) \o Save(tag, e) \in Errs(tags, errs)
  BY DisconnectProgram, SaveEnds DEF Settling

LEMMA DirectProgram ==
  ASSUME NEW tags \in SUBSET (Up \cup Down), NEW e \in Errs1(tags), "direct" \in tags
  PROVE  markTransportDirect(e) \in Errs2(tags)
  <1>1. "direct" \in tags \cap Down
    BY DEF Down
  <1>2. disconnectRuntime(e) \o Save("direct", e) \in Errs(tags, Errs1(tags))
    BY <1>1, DownProgram
  <1>3. e \in Errs(tags, Errs1(tags))
    BY ErrsGrow DEF Errs2
  <1> QED
    BY <1>2, <1>3, ErrsConcat DEF Errs2, markTransportDirect

LEMMA FailedProgram ==
  ASSUME NEW tags \in SUBSET (Up \cup Down), "failed" \in tags, "connected" \in tags
  PROVE  TestFailed \in Errs2(tags)
  <1>1. "failed" \in tags \cap Down
    BY DEF Down
  <1>2. /\ <<>> \in {<<>>} /\ <<>> \in Seq([steps : Handling(tags), err : {<<>>}])
        /\ \A i \in 1..Len(<<>>) : <<>>[i].steps[1][1] = "connect" => i = Len(<<>>)
    OBVIOUS
  <1>3. applyNodeSelection("mark", <<>>) \in Errs1(tags)
    BY SelectionProgram DEF Errs1
  <1>4. Save("failed", <<>>) \in Errs1(tags)
    BY <1>1, <1>2, SaveEnds DEF Errs1
  <1>5. /\ Try(Disable, Save("failed", <<>>)) \in Seq([steps : Handling(tags), err : Errs1(tags)])
        /\ Len(Try(Disable, Save("failed", <<>>))) = 1
    <2>1. Disable \in Handling(tags)
      BY HandlingLists
    <2> QED
      BY <1>4, <2>1, TryBlock
  <1>6. Try(Disable, Save("failed", <<>>)) \o Save("failed", <<>>) \in Errs2(tags)
    <2> DEFINE p == Try(Disable, Save("failed", <<>>))
    <2>1. p \in Seq([steps : Handling(tags), err : Errs1(tags)]) /\ Len(p) = 1 /\ <<>> \in Errs1(tags)
      BY <1>5, ErrsGrow
    <2> HIDE DEF p
    <2>2. \A i \in 1..Len(p) : p[i].steps[1][1] = "connect" => i = Len(p)
      BY <2>1
    <2>3. p \o Save("failed", <<>>) \in Errs(tags, Errs1(tags))
      BY <1>1, <2>1, <2>2, SaveEnds
    <2> QED
      BY <2>3 DEF Errs2, p
  <1> QED
    BY <1>3, <1>6, ErrsGrow DEF TestFailed

\* A program that is an error path, at its start.
LEMMA ErrsShape ==
  ASSUME NEW tags, NEW p, p \in Errs2(tags) \/ p \in Errs1(tags)
  PROVE  Shape(p, tags) /\ (p # <<>> => p[1].steps[1] \in Starts(tags))
  BY ErrsGrow, Errs2Grow, ErrShape

LEMMA Extend ==
  ASSUME NEW S, NEW p \in Seq(S), NEW b \in S
  PROVE  /\ p \o <<b>> \in Seq(S) /\ Len(p \o <<b>>) = Len(p) + 1
         /\ (p \o <<b>>)[Len(p) + 1] = b
         /\ \A i \in 1..Len(p) : (p \o <<b>>)[i] = p[i]
  <1> DEFINE q == <<b>>
  <1>1. q \in Seq(S) /\ Len(q) = 1 /\ q[1] = b /\ Len(p) \in Nat
    OBVIOUS
  <1> HIDE DEF q
  <1>2. /\ p \o q \in Seq(S) /\ Len(p \o q) = Len(p) + Len(q)
        /\ \A i \in 1..(Len(p) + Len(q)) : (p \o q)[i] = IF i <= Len(p) THEN p[i] ELSE q[i - Len(p)]
    BY <1>1, ConcatProperties
  <1>3. (p \o q)[Len(p) + 1] = b /\ Len(p \o q) = Len(p) + 1
    BY <1>1, <1>2
  <1>4. \A i \in 1..Len(p) : (p \o q)[i] = p[i]
    BY <1>1, <1>2
  <1> QED
    BY <1>2, <1>3, <1>4 DEF q

\* disconnectRuntime alone, as reapplyCurrentConnection calls it.
LEMMA DisconnectShape ==
  ASSUME NEW tags \in SUBSET (Up \cup Down)
  PROVE  /\ Shape(disconnectRuntime(<<>>), tags)
         /\ disconnectRuntime(<<>>)[1].steps[1] \in Starts(tags)
         /\ \A i \in 1..Len(disconnectRuntime(<<>>)) : disconnectRuntime(<<>>)[i].steps[1][1] \notin Settling
  <1> DEFINE p == disconnectRuntime(<<>>)
             a == Block(stopProxyTransport, <<>>)
             b == Block(Disable, <<>>)
  <1>1. p = <<a>> \o <<b>>
    BY DEF disconnectRuntime, Try
  <1>2. a.steps = stopProxyTransport /\ b.steps = Disable /\ a.err = <<>> /\ b.err = <<>>
    BY DEF Block
  <1>3. /\ stopProxyTransport \in Runs(tags) /\ stopProxyTransport[1] = <<"stop", "firewall">>
        /\ Disable \in Runs(tags) /\ Disable[1] = <<"require", "marker">>
    BY StopRun, DisableRun
  <1>4. {a, b} \subseteq [steps : Runs(tags), err : Errs2(tags)]
    BY <1>3, ErrsGrow DEF Block
  <1> HIDE DEF a, b
  <1>5. p \in Seq([steps : Runs(tags), err : Errs2(tags)]) /\ Len(p) = 2 /\ p[1] = a /\ p[2] = b
    <2> DEFINE S == [steps : Runs(tags), err : Errs2(tags)]
               q == <<a>>
    <2>1. q \in Seq(S) /\ Len(q) = 1 /\ q[1] = a /\ b \in S
      BY <1>4
    <2> HIDE DEF S, q
    <2>2. /\ q \o <<b>> \in Seq(S) /\ Len(q \o <<b>>) = Len(q) + 1 /\ (q \o <<b>>)[Len(q) + 1] = b
          /\ \A i \in 1..Len(q) : (q \o <<b>>)[i] = q[i]
      BY <2>1, Extend
    <2>3. p = q \o <<b>>
      BY <1>1 DEF q
    <2> HIDE DEF p
    <2>4. Len(q) + 1 = 2 /\ 1 \in 1..Len(q)
      BY <2>1
    <2>5. p \in Seq(S) /\ Len(p) = 2 /\ p[1] = a /\ p[2] = b
      BY <2>1, <2>2, <2>3, <2>4
    <2> QED
      BY <2>5 DEF S
  <1> HIDE DEF p
  <1>7. \A i \in 1..Len(p) : i = 1 \/ i = 2
    BY <1>5
  <1>8. \A i \in 1..Len(p) : /\ p[i].steps[1] \in Starts(tags)
                             /\ p[i].steps[1] \notin {"save"} \X Up /\ p[i].steps[1][1] \notin Settling
                             /\ p[i].steps[1] \notin Applying
    BY <1>2, <1>3, <1>5, <1>7 DEF Starts, Settling, Applying
  <1>9. Shape(p, tags)
    BY <1>5, <1>8 DEF Shape, Linked, Prepared, Settling
  <1> QED
    BY <1>5, <1>8, <1>9 DEF p

\* Apply and the save of a state that says Zapret, after what turns the proxy off.
UpProgram(pre, e, up, f) == (pre \o Try(Apply, e)) \o Save(up, f)
IsUp(p, pre, up, tags) ==
    /\ Shape(p, tags) /\ p # <<>> /\ p[1].steps[1] \in Starts(tags)
    /\ \A i \in 1..Len(p) : p[i].steps[1][1] \in Settling => p[i].steps[1] = <<"save", up>>
    /\ p[Len(p)].steps[1] = <<"save", up>>
    /\ pre # <<>> => p[1].steps[1] = <<"stop", "firewall">>
    /\ p[1].steps[1] \notin {"save"} \X Up

LEMMA UpShape ==
  ASSUME NEW tags \in SUBSET (Up \cup Down), NEW up \in tags \cap Up,
         NEW e \in Errs2(tags), NEW f \in Errs2(tags), NEW g \in Errs2(tags),
         NEW pre, pre = <<>> \/ pre = Try(stopProxyTransport, g)
  PROVE  IsUp(UpProgram(pre, e, up, f), pre, up, tags)
  <1> DEFINE p == UpProgram(pre, e, up, f)
  <1>0. p = (pre \o Try(Apply, e)) \o Save(up, f)
    BY DEF UpProgram
  <1> HIDE DEF p
  <1> DEFINE S == [steps : Runs(tags), err : Errs2(tags)]
             a == Block(Apply, e)
             b == Block(<< <<"save", up>> >>, f)
             c == Block(stopProxyTransport, g)
             n == Len(pre)
  <1>1. /\ a.steps = Apply /\ b.steps = << <<"save", up>> >> /\ c.steps = stopProxyTransport
        /\ Try(Apply, e) = <<a>> /\ Save(up, f) = <<b>> /\ Try(stopProxyTransport, g) = <<c>>
    BY DEF Block, Try, Save
  <1>2. <<"save", up>> \in Single(tags)
    BY DEF Single
  <1>3. a \in S /\ b \in S /\ c \in S
    BY <1>2, ApplyRun, StopRun, SingleRun DEF Block
  <1> HIDE DEF S, a, b, c
  <1>4. pre \in Seq(S) /\ n \in {0, 1} /\ (n = 1 => pre[1] = c)
    <2>1. <<>> \in Seq(S) /\ Len(<<>>) = 0
      OBVIOUS
    <2>2. <<c>> \in Seq(S) /\ Len(<<c>>) = 1 /\ <<c>>[1] = c
      BY <1>3
    <2>3. pre = <<>> \/ pre = <<c>>
      BY <1>1
    <2>4. CASE pre = <<>>
      BY <2>1, <2>4
    <2>5. CASE pre = <<c>>
      <3>1. pre \in Seq(S) /\ Len(pre) = 1 /\ pre[1] = c
        BY <2>2, <2>5
      <3> QED
        BY <3>1
    <2> QED
      BY <2>3, <2>4, <2>5
  <1>5. /\ pre \o <<a>> \in Seq(S) /\ Len(pre \o <<a>>) = n + 1 /\ (pre \o <<a>>)[n + 1] = a
        /\ \A i \in 1..n : (pre \o <<a>>)[i] = pre[i]
    BY <1>3, <1>4, Extend
  <1> DEFINE q == pre \o <<a>>
  <1>6. p = q \o <<b>>
    BY <1>0, <1>1
  <1>7. q \in Seq(S) /\ Len(q) = n + 1 /\ q[n + 1] = a /\ (n = 1 => q[1] = c)
    BY <1>4, <1>5
  <1> HIDE DEF q
  <1>8. /\ p \in Seq(S) /\ Len(p) = Len(q) + 1 /\ p[Len(q) + 1] = b
        /\ \A i \in 1..Len(q) : p[i] = q[i]
    BY <1>3, <1>6, <1>7, Extend
  <1> HIDE DEF n
  <1>9. Len(p) = n + 2 /\ p[n + 2] = b /\ p[n + 1] = a /\ (n = 1 => p[1] = c) /\ n + 1 # n + 2
    <2>1. Len(q) + 1 = n + 2 /\ n + 1 \in 1..Len(q) /\ (n = 1 => 1 \in 1..Len(q)) /\ n + 1 # n + 2
      BY <1>4, <1>7
    <2> QED
      BY <1>7, <1>8, <2>1
  <1>10. \A i \in 1..Len(p) : (i = 1 /\ n = 1) \/ i = n + 1 \/ i = n + 2
    BY <1>4, <1>9
  <1>11. Apply[1] = <<"require", "package">> /\ stopProxyTransport[1] = <<"stop", "firewall">>
    BY ApplyRun, StopRun
  <1>12. b.steps[1] = <<"save", up>>
    BY <1>1
  <1>13. /\ a.steps[1][1] \notin Settling /\ c.steps[1][1] \notin Settling /\ b.steps[1] \in {"save"} \X Up
         /\ a.steps[1] \notin {"save"} \X Up /\ c.steps[1] \notin {"save"} \X Up
         /\ c.steps[1] \notin Applying /\ b.steps[1] \notin Applying
         /\ b.steps[1][1] = "save" /\ a.steps[1] \notin Disabling /\ c.steps[1] \notin Disabling
         /\ b.steps[1] \in {"save"} \X (Up \cup Down)
    BY <1>1, <1>11, <1>12 DEF Settling, Up, Applying, Disabling
  <1>14. {a.steps[1], b.steps[1], c.steps[1]} \subseteq Starts(tags)
    BY <1>1, <1>2, <1>11, <1>12 DEF Starts
  <1>15. \A i \in 1..Len(p) : p[i].steps[1] \in Starts(tags)
    BY <1>9, <1>10, <1>14
  <1>16. \A i \in 1..Len(p) : p[i].steps[1] \in {"save"} \X Up => i = n + 2
    BY <1>9, <1>10, <1>13
  <1>17. \A i \in 1..Len(p) : i # n + 2 => p[i].steps[1][1] \notin Settling /\ p[i].steps[1] \notin Disabling
    BY <1>9, <1>10, <1>13
  <1>18. \A i \in 1..Len(p) : p[i].steps[1] \in Applying => i = n + 1
    BY <1>9, <1>10, <1>13
  <1>19. /\ \A i \in 2..Len(p) : i \in 1..Len(p)
         /\ \A j \in 1..((n + 2) - 1) : j \in 1..Len(p) /\ j # n + 2
         /\ (n + 1) + 1 = n + 2 /\ 1 \in 1..Len(p)
    BY <1>4, <1>9
  <1>20. Shape(p, tags)
    <2>1. p \in Seq([steps : Runs(tags), err : Errs2(tags)])
      BY <1>8 DEF S
    <2>2. \A i \in 1..Len(p) : p[i].steps[1] \in {"save"} \X Up =>
              i = Len(p) /\ \A j \in 1..(i - 1) : p[j].steps[1][1] \notin Settling /\ p[j].steps[1] \notin Disabling
      BY <1>9, <1>16, <1>17, <1>19
    <2>3. \A i \in 1..Len(p) : p[i].steps[1] \in Applying =>
              i + 1 = Len(p) /\ p[i + 1].steps[1] \in {"save"} \X Up
      BY <1>9, <1>13, <1>18, <1>19
    <2>4. Linked(p)
      BY <1>9, <1>13, <1>17 DEF Linked, Settling
    <2>5. Prepared(p)
      <3>1. (n + 2) - 1 = n + 1 /\ a.steps[1] \in Applying
        BY <1>1, <1>4, <1>11 DEF Applying
      <3> QED
        BY <1>9, <1>16, <1>19, <3>1 DEF Prepared
    <2> QED
      BY <1>9, <1>13, <1>15, <1>19, <2>1, <2>2, <2>3, <2>4, <2>5 DEF Shape
  <1>21. p # <<>>
    BY <1>4, <1>8, <1>9
  <1>22. pre # <<>> => p[1].steps[1] = <<"stop", "firewall">>
    <2>1. pre # <<>> => n = 1
      BY <1>4 DEF n
    <2> QED
      BY <1>1, <1>9, <1>11, <2>1
  <1>23. p[1].steps[1] \notin {"save"} \X Up
    BY <1>4, <1>16, <1>19
  <1> QED
    BY <1>9, <1>10, <1>12, <1>15, <1>17, <1>19, <1>20, <1>21, <1>22, <1>23 DEF IsUp, p

-------------------------------------------------------------------------------
(* Every operation runs a program of this shape. *)

\* The states an operation saves.
TagsOf(who) ==
    IF who = "auto" THEN {"fallback", "direct", "connected", "marked"}
    ELSE IF who = "stoptest" THEN {"connected", "marked"} ELSE Up \cup Down

Control == Shape(todo, TagsOf(by))
Fresh0(tags) == Starts(tags) \cup {Resting}

LEMMA TagsAre ==
  ASSUME NEW who
  PROVE  /\ TagsOf(who) \in SUBSET (Up \cup Down) /\ {"connected", "marked"} \subseteq TagsOf(who)
         /\ who # "stoptest" => {"fallback", "direct"} \subseteq TagsOf(who)
         /\ who \notin {"auto", "stoptest"} => TagsOf(who) = Up \cup Down
  BY DEF TagsOf, Up, Down

\* The blocks that make a state true that does not say Zapret, and programs in which
\* Disable comes before them.
Lowering == ({"connect"} \X {"mark", "keep", "auto"}) \cup ({"save"} \X Down)
Guarded(p) ==
    \A i \in 1..Len(p) :
        p[i].steps[1] \in Lowering => \E j \in 1..(i - 1) : p[j].steps[1] \in Disabling
Pends(p, tag) == \E i \in 1..Len(p) : p[i].steps[1] = <<"save", tag>>

\* What an operation may begin with.
Program(p, who) ==
    /\ Shape(p, TagsOf(who))
    /\ p # <<>> => p[1].steps[1] \in Starts(TagsOf(who)) /\ p[1].steps[1] \notin {"save"} \X Up
    /\ st.via = "zapret" => Guarded(p)
    /\ \A tag \in Up : Pends(p, tag) => st.via = "zapret" \/ p[1].steps[1] = <<"stop", "firewall">>
    /\ Pends(p, "test") => st.test # None \/ who = "starttest"
    /\ p # <<>> => p[Len(p)].steps[1] \in {"save"} \X (Up \cup Down) \/ ~(st.conn /\ st.node # None)

LEMMA Effective == effectiveActiveTransport(st) = "zapret" <=> st.via = "zapret"
  BY DEF effectiveActiveTransport

\* A program that is an error path.
LEMMA ErrsProgram ==
  ASSUME NEW who, NEW p, p \in Errs2(TagsOf(who)) \/ p \in Errs1(TagsOf(who)),
         st.via = "zapret" => Guarded(p)
  PROVE  Program(p, who)
  <1> DEFINE tags == TagsOf(who)
             H == [steps : Handling(tags), err : Errs2(tags)]
  <1>1. Shape(p, tags) /\ (p # <<>> => p[1].steps[1] \in Starts(tags))
    BY ErrsShape
  <1>2. p \in Errs(tags, Errs2(tags))
    BY ErrsGrow, Errs2Grow
  <1>3. p \in Seq(H) /\ (p # <<>> => p[Len(p)].steps[1] \in {"save"} \X Down)
    BY <1>2 DEF Errs
  <1>4. ASSUME NEW i \in 1..Len(p) PROVE p[i].steps[1] \notin {"save"} \X Up
    <2>1. p[i] \in H
      <3> HIDE DEF H
      <3> QED
        BY <1>3, ElementOfSeq
    <2>2. p[i].steps \in Handling(tags)
      BY <2>1
    <2> QED
      BY <2>2, HandlingRuns
  <1>5. \A tag \in Up : ~Pends(p, tag)
    <2> SUFFICES ASSUME NEW tag \in Up, NEW i \in 1..Len(p), p[i].steps[1] = <<"save", tag>>
                 PROVE  FALSE
      BY DEF Pends
    <2>1. <<"save", tag>> \in {"save"} \X Up
      OBVIOUS
    <2> QED
      BY <1>4, <2>1
  <1>6. "test" \in Up
    BY DEF Up
  <1>7. p # <<>> => p[Len(p)].steps[1] \in {"save"} \X (Up \cup Down)
    BY <1>3
  <1>8. p # <<>> => p[1].steps[1] \notin {"save"} \X Up
    <2>1. p # <<>> => 1 \in 1..Len(p)
      <3> HIDE DEF H
      <3> QED
        BY <1>3
    <2> QED
      BY <1>4, <2>1
  <1> QED
    BY <1>1, <1>5, <1>6, <1>7, <1>8 DEF Program

LEMMA EmptyProgram ==
  ASSUME NEW who
  PROVE  Program(<<>>, who)
  <1>1. <<>> \in Errs1(TagsOf(who))
    BY ErrsGrow
  <1>2. Guarded(<<>>)
    BY DEF Guarded
  <1> QED
    BY <1>1, <1>2, ErrsProgram

\* Disable in the second block, after the stop of the proxy.
LEMMA GuardedSecond ==
  ASSUME NEW S, NEW p \in Seq(S), Len(p) >= 2,
         p[1].steps[1] = <<"stop", "firewall">>, p[2].steps[1] = <<"require", "marker">>
  PROVE  Guarded(p)
  <1> SUFFICES ASSUME NEW i \in 1..Len(p), p[i].steps[1] \in Lowering
               PROVE  \E j \in 1..(i - 1) : p[j].steps[1] \in Disabling
    BY DEF Guarded
  <1>1. <<"stop", "firewall">> \notin Lowering /\ <<"require", "marker">> \notin Lowering
        /\ <<"require", "marker">> \in Disabling
    BY DEF Lowering, Disabling
  <1>2. i # 1 /\ i # 2
    BY <1>1
  <1>3. 2 \in 1..(i - 1)
    BY <1>2
  <1> QED
    BY <1>1, <1>3

LEMMA SelectionBegins ==
  ASSUME NEW who, NEW policy \in {"mark", "keep", "auto"}, NEW e \in Errs1(TagsOf(who))
  PROVE  Program(applyNodeSelection(policy, e), who)
  <1> DEFINE tags == TagsOf(who)
             off == Try(Disable, e)
             on == Try(<< <<"connect", policy>> >>, e)
             q == Save("connected", e)
             p == applyNodeSelection(policy, e)
  <1>1. tags \in SUBSET (Up \cup Down) /\ "connected" \in tags
    BY TagsAre
  <1>2. p \in Errs2(tags)
    BY <1>1, SelectionProgram DEF Errs2
  <1>3. ASSUME st.via = "zapret" PROVE Guarded(p)
    <2> DEFINE H == [steps : Handling(tags), err : Errs1(tags)]
    <2>1. p = (off \o on) \o q
      BY <1>3, Effective DEF applyNodeSelection
    <2>2. Disable \in Handling(tags) /\ << <<"connect", policy>> >> \in Handling(tags)
          /\ << <<"save", "connected">> >> \in Handling(tags)
      BY <1>1, HandlingLists DEF Down
    <2>3. off \in Seq(H) /\ Len(off) = 1 /\ off[1].steps = Disable
      BY <2>2, TryBlock
    <2>4. on \in Seq(H) /\ Len(on) = 1
      BY <2>2, TryBlock
    <2>5. q \in Seq(H) /\ Len(q) = 1
      BY <2>2, TryBlock DEF Save
    <2> HIDE DEF H, off, on, q, p
    <2>6. /\ off \o on \in Seq(H) /\ Len(off \o on) = Len(off) + Len(on)
          /\ \A i \in 1..(Len(off) + Len(on)) : (off \o on)[i] = IF i <= Len(off) THEN off[i] ELSE on[i - Len(off)]
      BY <2>3, <2>4, ConcatProperties
    <2> DEFINE m == off \o on
    <2>7. m \in Seq(H) /\ Len(m) = 2 /\ m[1] = off[1] /\ p = m \o q
      BY <2>1, <2>3, <2>4, <2>6
    <2> HIDE DEF m
    <2>a. /\ m \o q \in Seq(H) /\ Len(m \o q) = Len(m) + Len(q)
          /\ \A i \in 1..(Len(m) + Len(q)) : (m \o q)[i] = IF i <= Len(m) THEN m[i] ELSE q[i - Len(m)]
      BY <2>5, <2>7, ConcatProperties
    <2>8. /\ Len(p) = Len(m) + Len(q)
          /\ \A i \in 1..(Len(m) + Len(q)) : p[i] = IF i <= Len(m) THEN m[i] ELSE q[i - Len(m)]
      BY <2>7, <2>a
    <2>9. Len(p) = 3 /\ p[1] = off[1]
      BY <2>5, <2>7, <2>8
    <2>10. p[1].steps[1] = <<"require", "marker">>
      BY <2>3, <2>9, DisableRun
    <2>11. <<"require", "marker">> \notin Lowering /\ <<"require", "marker">> \in Disabling
      BY DEF Lowering, Disabling
    <2> SUFFICES ASSUME NEW i \in 1..Len(p), p[i].steps[1] \in Lowering
                 PROVE  \E j \in 1..(i - 1) : p[j].steps[1] \in Disabling
      BY DEF Guarded
    <2>12. i # 1
      BY <2>10, <2>11
    <2>13. 1 \in 1..(i - 1)
      BY <2>9, <2>12
    <2> QED
      BY <2>10, <2>11, <2>13
  <1> QED
    BY <1>2, <1>3, ErrsProgram

LEMMA GuardedDown ==
  ASSUME NEW S, NEW e, disconnectRuntime(e) \in Seq(S), Len(disconnectRuntime(e)) = 2,
         disconnectRuntime(e)[1].steps[1] = <<"stop", "firewall">>,
         disconnectRuntime(e)[2].steps[1] = <<"require", "marker">>,
         NEW r \in Seq(S), NEW p, p = disconnectRuntime(e) \o r
  PROVE  Guarded(p)
  <1> DEFINE d == disconnectRuntime(e)
  <1> HIDE DEF d
  <1>1. /\ d \in Seq(S) /\ Len(d) = 2 /\ d[1].steps[1] = <<"stop", "firewall">>
        /\ d[2].steps[1] = <<"require", "marker">> /\ p = d \o r
    BY DEF d
  <1>2. /\ d \o r \in Seq(S) /\ Len(d \o r) = Len(d) + Len(r)
        /\ \A i \in 1..(Len(d) + Len(r)) : (d \o r)[i] = IF i <= Len(d) THEN d[i] ELSE r[i - Len(d)]
    BY <1>1, ConcatProperties
  <1>3. Len(r) \in Nat
    OBVIOUS
  <1>4. p \in Seq(S) /\ Len(p) >= 2 /\ p[1] = d[1] /\ p[2] = d[2]
    BY <1>1, <1>2, <1>3
  <1>5. p[1].steps[1] = <<"stop", "firewall">> /\ p[2].steps[1] = <<"require", "marker">>
    BY <1>1, <1>4
  <1> QED
    BY <1>4, <1>5, GuardedSecond

LEMMA DownBegins ==
  ASSUME NEW who, NEW tag \in TagsOf(who) \cap Down
  PROVE  Program(disconnectRuntime(<<>>) \o Save(tag, <<>>), who)
  <1> DEFINE tags == TagsOf(who)
             H == [steps : Handling(tags), err : {<<>>}]
             p == disconnectRuntime(<<>>) \o Save(tag, <<>>)
  <1>1. tags \in SUBSET (Up \cup Down) /\ <<>> \in {<<>>}
    BY TagsAre
  <1>2. p \in Errs1(tags)
    BY <1>1, DownProgram DEF Errs1
  <1>3. << <<"save", tag>> >> \in Handling(tags)
    BY <1>1, HandlingLists
  <1>4. Save(tag, <<>>) \in Seq(H)
    BY <1>1, <1>3, TryBlock DEF Save
  <1>5. /\ disconnectRuntime(<<>>) \in Seq(H) /\ Len(disconnectRuntime(<<>>)) = 2
        /\ disconnectRuntime(<<>>)[1].steps[1] = <<"stop", "firewall">>
        /\ disconnectRuntime(<<>>)[2].steps[1] = <<"require", "marker">>
    BY <1>1, DisconnectProgram
  <1> HIDE DEF H
  <1>6. Guarded(p)
    BY <1>4, <1>5, GuardedDown
  <1> QED
    BY <1>2, <1>6, ErrsProgram

LEMMA DirectBegins ==
  ASSUME NEW who, who # "stoptest", NEW e \in Errs1(TagsOf(who))
  PROVE  Program(markTransportDirect(e), who)
  <1> DEFINE tags == TagsOf(who)
             H == [steps : Handling(tags), err : Errs1(tags)]
             d == disconnectRuntime(e)
             r == Save("direct", e)
             p == markTransportDirect(e)
  <1>1. tags \in SUBSET (Up \cup Down) /\ "direct" \in tags
    BY TagsAre
  <1>2. p \in Errs2(tags)
    BY <1>1, DirectProgram
  <1>3. << <<"save", "direct">> >> \in Handling(tags)
    BY <1>1, HandlingLists DEF Down
  <1>4. r \in Seq(H)
    BY <1>3, TryBlock DEF Save
  <1>5. d \in Seq(H) /\ Len(d) = 2 /\ d[1].steps[1] = <<"stop", "firewall">> /\ d[2].steps[1] = <<"require", "marker">>
    BY <1>1, DisconnectProgram
  <1>6. e \in Errs(tags, Errs1(tags))
    BY ErrsGrow DEF Errs2
  <1>7. e \in Seq(H)
    BY <1>6 DEF Errs
  <1> HIDE DEF H
  <1>8. p = d \o (r \o e) /\ r \o e \in Seq(H)
    BY <1>4, <1>5, <1>7, ConcatAssociative, ConcatProperties DEF markTransportDirect
  <1>9. Guarded(p)
    BY <1>5, <1>8, GuardedDown
  <1> QED
    BY <1>2, <1>9, ErrsProgram

LEMMA UpBegins ==
  ASSUME NEW who, NEW up \in TagsOf(who) \cap Up,
         NEW e \in Errs2(TagsOf(who)), NEW f \in Errs2(TagsOf(who)), NEW g \in Errs2(TagsOf(who)),
         NEW pre, pre = Try(stopProxyTransport, g) \/ (pre = <<>> /\ st.via = "zapret"),
         up = "test" => st.test # None \/ who = "starttest"
  PROVE  Program((pre \o Try(Apply, e)) \o Save(up, f), who)
  <1> DEFINE tags == TagsOf(who)
             p == (pre \o Try(Apply, e)) \o Save(up, f)
  <1>1. tags \in SUBSET (Up \cup Down)
    BY TagsAre
  <1>2. /\ Shape(p, tags) /\ p # <<>> /\ p[1].steps[1] \in Starts(tags)
        /\ \A i \in 1..Len(p) : p[i].steps[1][1] \in Settling => p[i].steps[1] = <<"save", up>>
        /\ p[Len(p)].steps[1] = <<"save", up>>
        /\ pre # <<>> => p[1].steps[1] = <<"stop", "firewall">>
        /\ p[1].steps[1] \notin {"save"} \X Up
    <2>1. IsUp(UpProgram(pre, e, up, f), pre, up, tags)
      BY <1>1, UpShape
    <2> QED
      BY <2>1 DEF IsUp, UpProgram
  <1> HIDE DEF p
  <1>3. <<"save", up>> \notin Lowering /\ <<"save", up>> \in {"save"} \X (Up \cup Down)
        /\ \A c \in Lowering : c[1] \in Settling
    BY DEF Lowering, Up, Down, Settling
  <1>4. Guarded(p)
    BY <1>2, <1>3 DEF Guarded
  <1>5. Try(stopProxyTransport, g) # <<>>
    <2>1. Len(Try(stopProxyTransport, g)) = 1
      BY DEF Try
    <2> QED
      BY <2>1
  <1>6. st.via = "zapret" \/ p[1].steps[1] = <<"stop", "firewall">>
    BY <1>2, <1>5
  <1>7. Pends(p, "test") => up = "test"
    <2> SUFFICES ASSUME NEW i \in 1..Len(p), p[i].steps[1] = <<"save", "test">>
                 PROVE  up = "test"
      BY DEF Pends
    <2>1. p[i].steps[1][1] \in Settling
      BY DEF Settling
    <2>2. <<"save", "test">> = <<"save", up>>
      BY <1>2, <2>1
    <2> QED
      BY <2>2
  <1>8. Program(p, who)
    BY <1>2, <1>3, <1>4, <1>6, <1>7 DEF Program
  <1> QED
    BY <1>8 DEF p

LEMMA TestBegins ==
  ASSUME NEW who, who \notin {"auto", "stoptest"}, NEW c, NEW e \in Errs2(TagsOf(who)), Program(e, who),
         st.test # None \/ who = "starttest"
  PROVE  Program(applyZapretTestMode(c, e), who)
  <1>1. "test" \in TagsOf(who) \cap Up
    BY TagsAre DEF Up
  <1>2. Program((Try(stopProxyTransport, e) \o Try(Apply, e)) \o Save("test", e), who)
    BY <1>1, UpBegins
  <1> QED
    BY <1>2 DEF applyZapretTestMode

LEMMA FallbackBegins ==
  ASSUME NEW who, who # "stoptest", NEW c, NEW e \in Errs1(TagsOf(who))
  PROVE  Program(activateZapretFallback(c, e), who)
  <1> DEFINE tags == TagsOf(who)
             pre == IF effectiveActiveTransport(st) = "zapret" THEN <<>> ELSE Try(stopProxyTransport, e)
  <1>1. "fallback" \in tags \cap Up /\ "direct" \in tags /\ tags \in SUBSET (Up \cup Down)
    BY TagsAre DEF Up
  <1>2. markTransportDirect(e) \in Errs2(tags) /\ e \in Errs2(tags)
    BY <1>1, DirectProgram, ErrsGrow
  <1>3. Program(markTransportDirect(e), who)
    BY DirectBegins
  <1>4. pre = Try(stopProxyTransport, e) \/ (pre = <<>> /\ st.via = "zapret")
    BY Effective
  <1> HIDE DEF pre
  <1>5. Program((pre \o Try(Apply, markTransportDirect(e))) \o Save("fallback", e), who)
    BY <1>1, <1>2, <1>4, UpBegins
  <1> QED
    BY <1>3, <1>5 DEF activateZapretFallback, pre

LEMMA DisconnectBegins ==
  ASSUME NEW who, ~st.conn \/ st.node = None
  PROVE  Program(disconnectRuntime(<<>>), who)
  <1> DEFINE tags == TagsOf(who)
             p == disconnectRuntime(<<>>)
  <1>1. tags \in SUBSET (Up \cup Down) /\ <<>> \in {<<>>}
    BY TagsAre
  <1>2. /\ Shape(p, tags) /\ p[1].steps[1] \in Starts(tags) /\ p[1].steps[1] \notin {"save"} \X Up
        /\ \A i \in 1..Len(p) : p[i].steps[1][1] \notin Settling
    <2>1. p[1].steps[1] = <<"stop", "firewall">>
      BY <1>1, DisconnectProgram
    <2> QED
      BY <1>1, <2>1, DisconnectShape
  <1> HIDE DEF p
  <1>3. (\A c \in Lowering : c[1] \in Settling) /\ \A tag : <<"save", tag>>[1] \in Settling
    BY DEF Lowering, Settling
  <1>4. Guarded(p) /\ \A tag : ~Pends(p, tag)
    BY <1>2, <1>3 DEF Guarded, Pends
  <1>5. Program(p, who)
    BY <1>2, <1>4 DEF Program
  <1> QED
    BY <1>5 DEF p

LEMMA ReapplyBegins ==
  ASSUME NEW who, who \notin {"auto", "stoptest"}, NEW e \in Errs1(TagsOf(who)), Program(e, who)
  PROVE  Program(reapplyCurrentConnection(e), who)
  <1>1. e \in Errs2(TagsOf(who))
    BY ErrsGrow
  <1>2. st.test # None => Program(applyZapretTestMode(cfg, e), who)
    BY <1>1, TestBegins
  <1>3. Program(activateZapretFallback(cfg, e), who)
    BY FallbackBegins
  <1>4. Program(applyNodeSelection("keep", e), who)
    BY SelectionBegins
  <1>5. ~st.conn \/ st.node = None => Program(disconnectRuntime(<<>>), who)
    BY DisconnectBegins
  <1> QED
    BY <1>2, <1>3, <1>4, <1>5 DEF reapplyCurrentConnection

\* Where Go, Failed and Skip lead.
LEMMA Moves ==
  ASSUME Control, ~Idle, by' = by, NEW tags, tags = TagsOf(by)
  PROVE  /\ Go => /\ Control'
                  /\ \/ Now \in Ends(tags) /\ todo' = Tail(todo) /\ Now' \in Fresh0(tags)
                     \/ <<Now, Now'>> \in Follows /\ todo' # <<>>
                        /\ todo' = [todo EXCEPT ![1].steps = Tail(@)]
         /\ Skip => Control' /\ Now' \in Fresh0(tags)
         /\ Failed => Control' /\ todo' \in Errs2(tags) /\ Now' \in Fresh0(tags)
  <1> DEFINE s == todo[1].steps
             B == [steps : Runs(tags), err : Errs2(tags)]
  <1>1. Shape(todo, tags) /\ todo # <<>>
    BY DEF Control, Idle
  <1>2. todo \in Seq(B) /\ Len(todo) \in Nat /\ Len(todo) >= 1
    BY <1>1 DEF Shape
  <1>3. todo[1] \in B
    <2> HIDE DEF B
    <2> QED BY <1>2, ElementOfSeq
  <1>4. s \in Runs(tags) /\ todo[1].err \in Errs2(tags)
    BY <1>3
  <1>5. Now = Head(s) /\ Head(s) = s[1]
    BY <1>1, <1>4, RunHead DEF Now, Idle
  <1>6. ASSUME NEW q, todo' = q, Shape(q, tags), q # <<>> => q[1].steps[1] \in Starts(tags)
        PROVE  Control' /\ Now' \in Fresh0(tags)
    <2>1. Control'
      BY <1>6 DEF Control
    <2>2. CASE q = <<>>
      <3>1. Now' = Resting
        BY <1>6, <2>2 DEF Now, Idle
      <3> QED
        BY <2>1, <3>1 DEF Fresh0
    <2>3. CASE q # <<>>
      <3>1. q \in Seq(B) /\ Len(q) \in Nat /\ Len(q) >= 1
        BY <1>6, <2>3 DEF Shape
      <3>2. q[1] \in B
        <4> HIDE DEF B
        <4> QED BY <3>1, ElementOfSeq
      <3>3. Head(q[1].steps) = q[1].steps[1]
        BY <3>2, RunHead
      <3>4. Now' = Head(q[1].steps)
        BY <1>6, <2>3 DEF Now, Idle
      <3> QED
        BY <1>6, <2>1, <2>3, <3>3, <3>4 DEF Fresh0
    <2> QED
      BY <2>1, <2>2, <2>3
  <1>7. ASSUME todo' = Tail(todo) PROVE Control' /\ Now' \in Fresh0(tags)
    BY <1>1, <1>6, <1>7, ShapeTail
  <1>8. ASSUME Go
        PROVE  /\ Control'
               /\ \/ Now \in Ends(tags) /\ todo' = Tail(todo) /\ Now' \in Fresh0(tags)
                  \/ <<Now, Now'>> \in Follows /\ todo' # <<>> /\ todo' = [todo EXCEPT ![1].steps = Tail(@)]
    <2>1. CASE Len(s) = 1
      <3>1. todo' = Tail(todo)
        BY <1>8, <2>1 DEF Go
      <3> QED
        BY <1>4, <1>5, <1>7, <2>1, <3>1, RunHead
    <2>2. CASE Len(s) # 1
      <3>1. todo' = [todo EXCEPT ![1].steps = Tail(@)]
        BY <1>8, <2>2 DEF Go
      <3>2. Shape(todo', tags) /\ todo' # <<>> /\ <<Head(s), Head(todo'[1].steps)>> \in Follows
        BY <1>1, <2>2, <3>1, ShapeGo
      <3>3. Now' = Head(todo'[1].steps)
        BY <3>2 DEF Now, Idle
      <3> QED
        BY <1>5, <3>1, <3>2, <3>3 DEF Control
    <2> QED
      BY <2>1, <2>2
  <1>9. ASSUME Failed PROVE Control' /\ todo' \in Errs2(tags) /\ Now' \in Fresh0(tags)
    <2>1. todo' = todo[1].err
      BY <1>9 DEF Failed
    <2> QED
      BY <1>4, <1>6, <2>1, ErrsShape
  <1> QED
    BY <1>7, <1>8, <1>9 DEF Skip

\* The actions that begin an operation.
Starting ==
    \/ StartZapretTest \/ StopZapretTest \/ Disconnect \/ Reapply \/ RestoreRuntime
    \/ \E on \in BOOLEAN : SetZapretEnabled(on)
    \/ \E sel \in {"none", "cidrs", "domains"} : SetZapretSelectors(sel)
    \/ \E n \in Node, mode \in {"manual", "auto"} : Connect(n, mode)
    \/ AutoFallback \/ \E n \in Node : AutoFailback(n)

LEMMA FailedBegins ==
  st.via # "zapret" => Program(TestFailed, "starttest")
  <1>1. TagsOf("starttest") \in SUBSET (Up \cup Down) /\ {"failed", "connected"} \subseteq TagsOf("starttest")
    BY TagsAre DEF Down
  <1>2. TestFailed \in Errs2(TagsOf("starttest"))
    BY <1>1, FailedProgram
  <1> QED
    BY <1>2, ErrsProgram

LEMMA Begins ==
  ASSUME Starting
  PROVE  /\ Idle /\ UNCHANGED <<world, st, pkg, mine, odd, faults>>
         /\ \E who : by' = who /\ Program(todo', who)
  <1>0. \A who : <<>> \in Errs1(TagsOf(who)) /\ Program(<<>>, who)
    BY ErrsGrow, EmptyProgram
  <1>1. CASE StartZapretTest
    <2>1. st.via # "zapret"
      BY <1>1, Effective DEF StartZapretTest
    <2>2. TestFailed \in Errs2(TagsOf("starttest"))
      BY FailedProgram, TagsAre DEF Down
    <2>3. Program(applyZapretTestMode(cfg, TestFailed), "starttest")
      BY <2>1, <2>2, FailedBegins, TestBegins
    <2> QED
      BY <1>1, <2>3 DEF StartZapretTest, UserBegins, Begin
  <1>2. CASE StopZapretTest
    <2>1. "marked" \in TagsOf("stoptest") \cap Down
      BY TagsAre DEF Down
    <2>2. Program(disconnectRuntime(<<>>) \o Save("marked", <<>>), "stoptest")
      BY <2>1, DownBegins
    <2>3. Program(applyNodeSelection("mark", <<>>), "stoptest")
      BY <1>0, SelectionBegins
    <2> QED
      BY <1>2, <2>2, <2>3 DEF StopZapretTest, UserBegins, Begin
  <1>3. CASE Disconnect
    <2>1. "disconnected" \in TagsOf("disconnect") \cap Down
      BY TagsAre DEF Down
    <2>2. Program(disconnectRuntime(<<>>) \o Save("disconnected", <<>>), "disconnect")
      BY <2>1, DownBegins
    <2> QED
      BY <1>3, <2>2 DEF Disconnect, UserBegins, Begin
  <1>4. CASE Reapply
    <2>1. Program(reapplyCurrentConnection(<<>>), "reapply")
      BY <1>0, ReapplyBegins
    <2> QED
      BY <1>4, <2>1 DEF Reapply, UserBegins, Begin
  <1>5. CASE RestoreRuntime
    <2> DEFINE e == disconnectRuntime(<<>>) \o Save("failed", <<>>)
    <2>1. "failed" \in TagsOf("restore") \cap Down /\ TagsOf("restore") \in SUBSET (Up \cup Down)
      BY TagsAre DEF Down
    <2>2. Program(e, "restore")
      BY <2>1, DownBegins
    <2>3. e \in Errs1(TagsOf("restore"))
      BY <2>1, DownProgram DEF Errs1
    <2>4. Program(reapplyCurrentConnection(e), "restore")
      BY <2>2, <2>3, ReapplyBegins
    <2> QED
      BY <1>5, <2>4 DEF RestoreRuntime, Begin
  <1>6. ASSUME NEW on \in BOOLEAN, SetZapretEnabled(on)
        PROVE  /\ Idle /\ UNCHANGED <<world, st, pkg, mine, odd, faults>>
               /\ \E who : by' = who /\ Program(todo', who)
    <2>1. "failed" \in TagsOf("settings") \cap Down
      BY TagsAre DEF Down
    <2>2. Program(disconnectRuntime(<<>>) \o Save("failed", <<>>), "settings")
      BY <2>1, DownBegins
    <2> QED
      BY <1>0, <1>6, <2>2 DEF SetZapretEnabled, UserBegins, Begin
  <1>7. ASSUME NEW sel \in {"none", "cidrs", "domains"}, SetZapretSelectors(sel)
        PROVE  /\ Idle /\ UNCHANGED <<world, st, pkg, mine, odd, faults>>
               /\ \E who : by' = who /\ Program(todo', who)
    <2>1. "failed" \in TagsOf("settings") \cap Down
      BY TagsAre DEF Down
    <2>2. Program(disconnectRuntime(<<>>) \o Save("failed", <<>>), "settings")
      BY <2>1, DownBegins
    <2> DEFINE c == [enabled |-> cfg.enabled /\ sel # "none", sel |-> sel]
               via == effectiveActiveTransport(st)
               prog == CASE via # "zapret" -> <<>>
                 [] via = "zapret" /\ ~c.enabled -> disconnectRuntime(<<>>) \o Save("failed", <<>>)
                 [] via = "zapret" /\ c.enabled /\ st.test # None -> applyZapretTestMode(c, <<>>)
                 [] OTHER -> IF st.node = None THEN <<>> ELSE activateZapretFallback(c, <<>>)
    <2>3. UserBegins("settings", Current, prog)
      BY <1>7 DEF SetZapretSelectors
    <2> HIDE DEF c
    <2>4. Program(activateZapretFallback(c, <<>>), "settings")
      BY <1>0, FallbackBegins
    <2>5. st.test # None => Program(applyZapretTestMode(c, <<>>), "settings")
      BY <1>0, ErrsGrow, TestBegins
    <2>6. Program(prog, "settings")
      <3>1. CASE via # "zapret"
        BY <1>0, <3>1
      <3>2. CASE via = "zapret" /\ ~c.enabled
        BY <2>2, <3>2
      <3>3. CASE via = "zapret" /\ c.enabled /\ st.test # None
        BY <2>5, <3>3
      <3>4. CASE via = "zapret" /\ c.enabled /\ st.test = None
        BY <1>0, <2>4, <3>4
      <3> QED
        BY <3>1, <3>2, <3>3, <3>4
    <2> HIDE DEF prog
    <2> QED
      BY <2>3, <2>6 DEF UserBegins, Begin
  <1>8. ASSUME NEW n \in Node, NEW mode \in {"manual", "auto"}, Connect(n, mode)
        PROVE  /\ Idle /\ UNCHANGED <<world, st, pkg, mine, odd, faults>>
               /\ \E who : by' = who /\ Program(todo', who)
    <2>1. Program(applyNodeSelection("mark", <<>>), "connect")
      BY <1>0, SelectionBegins
    <2> QED
      BY <1>8, <2>1 DEF Connect, UserBegins, Begin
  <1>9. CASE AutoFallback
    <2>1. Program(activateZapretFallback(snap.cfg, <<>>), "auto")
      BY <1>0, FallbackBegins
    <2> QED
      BY <1>9, <2>1 DEF AutoFallback, Begin
  <1>10. ASSUME NEW n \in Node, AutoFailback(n)
         PROVE  /\ Idle /\ UNCHANGED <<world, st, pkg, mine, odd, faults>>
                /\ \E who : by' = who /\ Program(todo', who)
    <2>1. Program(applyNodeSelection("auto", <<>>), "auto")
      BY <1>0, SelectionBegins
    <2> QED
      BY <1>10, <2>1 DEF AutoFailback, Begin
  <1> QED
    BY <1>1, <1>2, <1>3, <1>4, <1>5, <1>6, <1>7, <1>8, <1>9, <1>10 DEF Starting

LEMMA AtNow ==
  ASSUME NEW v, NEW o, At(v, o)
  PROVE  ~Idle /\ Now = <<v, o>>
  BY DEF At, Now

\* A step of the operation in progress moves in its program or replaces it.
LEMMA StepMoves ==
  ASSUME Step
  PROVE  /\ ~Idle /\ UNCHANGED kept
         /\ Go \/ Failed \/ Skip \/ todo' = disconnectRuntime(<<>>) \o Save("marked", <<>>)
  <1>1. CASE RequirePackage \/ RequireMarker \/ WriteMarker \/ StartService \/ StopService
    BY <1>1 DEF RequirePackage, RequireMarker, WriteMarker, StartService, StopService, At
  <1>2. ASSUME NEW f \in Files, BackupOriginal(f) \/ WriteManaged(f) \/ RestoreOriginal(f) \/ RemoveBackup(f)
        PROVE  ~Idle /\ UNCHANGED kept /\ Go
    BY <1>2 DEF BackupOriginal, WriteManaged, RestoreOriginal, RemoveBackup, At
  <1>3. CASE SyncConfig \/ RemoveMarker \/ StopProxy
    BY <1>3 DEF SyncConfig, RemoveMarker, StopProxy, At
  <1>4. CASE ConnectSucceeds \/ ConnectPreserves \/ SaveState
    BY <1>4 DEF ConnectSucceeds, ConnectPreserves, SaveState, At
  <1>5. CASE ConnectFails
    BY <1>5 DEF ConnectFails, At
  <1> QED
    BY <1>1, <1>2, <1>3, <1>4, <1>5 DEF Step

\* The step at which a program begins.
LEMMA ProgramNow ==
  ASSUME NEW who, Program(todo', who)
  PROVE  Now' \in Fresh0(TagsOf(who))
  <1> DEFINE tags == TagsOf(who)
             B == [steps : Runs(tags), err : Errs2(tags)]
  <1>1. Shape(todo', tags) /\ (todo' # <<>> => todo'[1].steps[1] \in Starts(tags))
    BY DEF Program
  <1>2. CASE todo' = <<>>
    BY <1>2 DEF Now, Idle, Fresh0
  <1>3. CASE todo' # <<>>
    <2>1. todo' \in Seq(B) /\ Len(todo') >= 1 /\ Len(todo') \in Nat
      BY <1>1, <1>3 DEF Shape
    <2>2. todo'[1] \in B
      <3> HIDE DEF B
      <3> QED
        BY <2>1, ElementOfSeq
    <2>3. Head(todo'[1].steps) = todo'[1].steps[1]
      BY <2>2, RunHead
    <2> QED
      BY <1>1, <1>3, <2>3 DEF Now, Idle, Fresh0
  <1> QED
    BY <1>2, <1>3

LEMMA MarkedMoves ==
  ASSUME todo' = disconnectRuntime(<<>>) \o Save("marked", <<>>), by' = by
  PROVE  Control' /\ Now' \in Fresh0(TagsOf(by)) /\ Program(todo', by)
  <1>1. "marked" \in TagsOf(by) \cap Down
    BY TagsAre DEF Down
  <1>2. Program(todo', by)
    BY <1>1, DownBegins
  <1> QED
    BY <1>2, ProgramNow DEF Program, Control

LEMMA EmptyShape == \A tags : Shape(<<>>, tags)
  BY ErrsGrow, ErrsShape

LEMMA ControlNext ==
  ASSUME Control, [Next]_vars
  PROVE  Control'
  <1>1. CASE Step
    <2>1. by' = by
      BY <1>1, StepMoves DEF kept
    <2> QED
      BY <1>1, <2>1, StepMoves, Moves, MarkedMoves
  <1>2. CASE CallFails
    <2>1. by' = by /\ ~Idle /\ Failed
      BY <1>2 DEF CallFails
    <2> QED
      BY <2>1, Moves
  <1>3. CASE Kill \/ Reboot
    BY <1>3, EmptyShape DEF Kill, Reboot, Control
  <1>4. CASE UNCHANGED <<todo, by>>
    BY <1>4 DEF Control
  <1>5. CASE Starting
    BY <1>5, Begins DEF Control, Program
  <1>6. (\E f \in Files : UserEdits(f)) \/ AutoPrepare \/ AutoDropped \/ UNCHANGED vars => UNCHANGED <<todo, by>>
    BY DEF UserEdits, AutoPrepare, AutoDropped, vars
  <1> QED
    BY <1>1, <1>2, <1>3, <1>4, <1>5, <1>6 DEF Next, Starting

LEMMA ControlAlways == Spec => []Control
  <1>1. Init => Control
    BY EmptyShape DEF Init, Control
  <1> QED
    BY <1>1, ControlNext, PTL DEF Spec


\* The steps with which a block or an operation may begin, and "stop backend".
Easy == {"require", "stop", "connect", "save", "none"}

LEMMA FreshEasy ==
  ASSUME NEW tags, NEW s \in Fresh0(tags)
  PROVE  s[1] \in Easy
  BY DEF Fresh0, Starts, Single, Resting, Easy

\* The step that follows each step.
LEMMA GoFrom ==
  ASSUME Control, ~Idle, by' = by, Go
  PROVE  /\ Control'
         /\ Now = <<"require", "package">> => Now' = <<"backup", "hostlist">>
         /\ Now = <<"backup", "hostlist">> => Now' = <<"backup", "iplist">>
         /\ Now = <<"backup", "iplist">> => Now' = <<"backup", "config">>
         /\ Now = <<"backup", "config">> => Now' = <<"write", "config">>
         /\ Now = <<"write", "config">> => Now' = <<"write", "hostlist">>
         /\ Now = <<"write", "hostlist">> => Now' = <<"write", "iplist">>
         /\ Now = <<"write", "iplist">> => Now' = <<"mark", "managed">>
         /\ Now = <<"mark", "managed">> => Now' = <<"service", "start">>
         /\ Now = <<"require", "marker">> => Now' = <<"service", "stop">>
         /\ Now = <<"service", "stop">> => Now' = <<"restore", "hostlist">>
         /\ Now = <<"restore", "hostlist">> => Now' = <<"restore", "iplist">>
         /\ Now = <<"restore", "iplist">> => Now' = <<"restore", "config">>
         /\ Now = <<"restore", "config">> => Now' = <<"unbackup", "hostlist">>
         /\ Now = <<"unbackup", "hostlist">> => Now' = <<"unbackup", "iplist">>
         /\ Now = <<"unbackup", "iplist">> => Now' = <<"unbackup", "config">>
         /\ Now = <<"unbackup", "config">> => Now' = <<"unmark", "managed">>
         /\ Now = <<"stop", "firewall">> => Now' = <<"stop", "backend">>
         /\ Now \in {<<"service", "start">>, <<"unmark", "managed">>, <<"stop", "backend">>} \/ Now[1] \in Settling
                => Now' \in Fresh0(TagsOf(by)) /\ Now'[1] \in Easy /\ todo' = Tail(todo)
  <1>1. /\ Control'
        /\ \/ Now \in Ends(TagsOf(by)) /\ todo' = Tail(todo) /\ Now' \in Fresh0(TagsOf(by))
           \/ <<Now, Now'>> \in Follows
    BY Moves
  <1>2. CASE Now \in Ends(TagsOf(by)) /\ todo' = Tail(todo) /\ Now' \in Fresh0(TagsOf(by))
    <2>1. Now'[1] \in Easy
      BY <1>2, FreshEasy
    <2>2. Now \in {<<"service", "start">>, <<"unmark", "managed">>, <<"stop", "backend">>} \/ Now[1] \in Settling
      BY <1>2 DEF Ends, Single, Settling
    <2>3. \/ Now = <<"service", "start">> \/ Now = <<"unmark", "managed">> \/ Now = <<"stop", "backend">>
          \/ Now[1] = "save" \/ Now[1] = "connect"
      BY <2>2 DEF Settling
    <2> HIDE DEF Now
    <2> QED
      BY <1>1, <1>2, <2>1, <2>3
  <1>3. CASE <<Now, Now'>> \in Follows
    <2> DEFINE a == Now
               b == Now'
    <2> HIDE DEF a, b
    <2>1. <<a, b>> \in Follows
      BY <1>3 DEF a, b
    <2>2. a[1] \notin Settling
      BY <2>1, FollowsSteps
    <2>3. <<Now, Now'>> = <<a, b>>
      BY DEF a, b
    <2> HIDE DEF Now
    <2> QED
      BY <1>1, <2>1, <2>2, <2>3, FollowsAre
  <1> QED
    BY <1>1, <1>2, <1>3

\* An operation that ends or turns to an error path is at the start of a block.
LEMMA Turns ==
  ASSUME Control, ~Idle, by' = by, Failed \/ Skip
  PROVE  Control' /\ Now' \in Fresh0(TagsOf(by)) /\ Now'[1] \in Easy
  BY Moves, FreshEasy


-------------------------------------------------------------------------------
(* The files of the user. *)

\* The copy of a file holds what the user last wrote to it; the file itself does; and
\* one of them does, the file only while there is no copy.
Copied(f) == mine[f] # "absent" => backup[f] = mine[f]
Intact(f) == mine[f] # "absent" => file[f] = mine[f]
Safe(f) == Copied(f) \/ (backup[f] = "absent" /\ Intact(f))

\* The steps of Disable at which copies are already gone, and those under its marker.
Removing == {<<"unbackup", "iplist">>, <<"unbackup", "config">>, <<"unmark", "managed">>}
Undoing == {<<"service", "stop">>, <<"unmark", "managed">>} \cup ({"restore", "unbackup"} \X Files)
Lossy == odd \cap {"cut", "stale"} # {}

\* What Apply and Disable have done so far, at each of their steps.
CopyAt(now) ==
    /\ \A f \in Files : Safe(f)
    /\ marker /\ now \notin Removing => \A f \in Files : Copied(f)
    /\ now \in Undoing => marker
    /\ now \in {<<"backup", "iplist">>, <<"backup", "config">>} => Copied("hostlist")
    /\ now = <<"backup", "config">> => Copied("iplist")
    /\ now \in {<<"mark", "managed">>} \cup ({"write"} \X Files) => \A f \in Files : Copied(f)
    /\ now \in {<<"restore", "iplist">>, <<"restore", "config">>} => Intact("hostlist")
    /\ now = <<"restore", "config">> => Intact("iplist")
    /\ now \in {<<"unmark", "managed">>} \cup ({"unbackup"} \X Files) => \A f \in Files : Intact(f)

DiskTypes ==
    /\ file \in [Files -> Users \cup {"ours"}] /\ backup \in [Files -> Users \cup {"ours"}]
    /\ mine \in [Files -> Users] /\ marker \in BOOLEAN

CopyInv == DiskTypes /\ (Lossy \/ CopyAt(Now))

\* The steps of the operation in progress that touch the files.
DiskStep ==
    \/ \E f \in Files : BackupOriginal(f) \/ WriteManaged(f) \/ RestoreOriginal(f) \/ RemoveBackup(f)
    \/ SyncConfig \/ WriteMarker \/ RemoveMarker

LEMMA OtherSteps ==
  ASSUME Step
  PROVE  DiskStep \/ UNCHANGED <<disk, mine>>
  BY DEF Step, DiskStep, disk, world, kept, past, RequirePackage, RequireMarker, StartService, StopService,
         StopProxy, ConnectSucceeds, ConnectPreserves, ConnectFails, SaveState

LEMMA DiskTypesNext ==
  ASSUME DiskTypes, [Next]_vars
  PROVE  DiskTypes'
  <1> USE DEF DiskTypes, Users
  <1>1. CASE DiskStep
    <2>1. ASSUME NEW f \in Files, BackupOriginal(f) \/ WriteManaged(f) \/ RestoreOriginal(f) \/ RemoveBackup(f)
          PROVE  DiskTypes'
      BY <2>1 DEF BackupOriginal, WriteManaged, RestoreOriginal, RemoveBackup, kept, past
    <2>2. CASE SyncConfig
      BY <2>2 DEF SyncConfig, kept, past, Files
    <2>3. CASE WriteMarker \/ RemoveMarker
      BY <2>3 DEF WriteMarker, RemoveMarker, kept, past
    <2> QED
      BY <1>1, <2>1, <2>2, <2>3 DEF DiskStep
  <1>2. CASE UNCHANGED <<disk, mine>>
    BY <1>2 DEF disk
  <1>3. CASE CallFails \/ Kill \/ Reboot \/ AutoPrepare \/ AutoDropped \/ UNCHANGED vars
    BY <1>2, <1>3 DEF CallFails, Kill, Reboot, AutoPrepare, AutoDropped, vars, world, disk, past
  <1>4. ASSUME NEW f \in Files, UserEdits(f)
        PROVE  DiskTypes'
    BY <1>4 DEF UserEdits
  <1>5. CASE Starting
    BY <1>2, <1>5, Begins DEF world
  <1>6. CASE Step
    BY <1>1, <1>2, <1>6, OtherSteps
  <1> QED
    BY <1>3, <1>4, <1>5, <1>6 DEF Next, Starting

\* A step that leaves the files alone and comes to the start of a block.
LEMMA CopyRests ==
  ASSUME CopyInv, UNCHANGED <<disk, mine>>, Now'[1] \in Easy \/ Now' \in {<<"backup", "hostlist">>, <<"service", "start">>},
         Now \in Removing => "cut" \in odd', odd \cap {"cut", "stale"} \subseteq odd'
  PROVE  CopyInv'
  <1> DEFINE now == Now'
  <1>1. /\ now \notin Undoing
        /\ now \notin {<<"backup", "iplist">>, <<"backup", "config">>}
        /\ now \notin {<<"mark", "managed">>} \cup ({"write"} \X Files)
        /\ now \notin {<<"restore", "iplist">>, <<"restore", "config">>}
        /\ now \notin {<<"unmark", "managed">>} \cup ({"unbackup"} \X Files)
    <2>1. now[1] \notin {"restore", "unbackup", "write", "unmark", "mark"} /\ now # <<"service", "stop">>
      BY DEF Easy
    <2>2. now \notin {<<"backup", "iplist">>, <<"backup", "config">>}
      BY DEF Easy
    <2> HIDE DEF now
    <2> QED
      BY <2>1, <2>2 DEF Undoing
  <1>2. DiskTypes'
    BY DEF CopyInv, DiskTypes, disk
  <1>3. CASE Lossy
    BY <1>2, <1>3 DEF CopyInv, Lossy
  <1>4. CASE Now \in Removing
    BY <1>2, <1>4 DEF CopyInv, Lossy
  <1>5. CASE ~Lossy /\ Now \notin Removing
    <2>1. CopyAt(Now)
      BY <1>5 DEF CopyInv
    <2>2. \A f \in Files : (Safe(f) => Safe(f)') /\ (Copied(f) => Copied(f)')
      BY DEF Safe, Copied, Intact, disk
    <2>3. CopyAt(Now)'
      <3>1. \A f \in Files : Safe(f)'
        BY <2>1, <2>2 DEF CopyAt
      <3>2. marker' => \A f \in Files : Copied(f)'
        BY <1>5, <2>1, <2>2 DEF CopyAt, disk
      <3> HIDE DEF now
      <3>3. /\ \A f \in Files : Safe(f)'
            /\ marker' /\ now \notin Removing => \A f \in Files : Copied(f)'
            /\ now \in Undoing => marker'
            /\ now \in {<<"backup", "iplist">>, <<"backup", "config">>} => Copied("hostlist")'
            /\ now = <<"backup", "config">> => Copied("iplist")'
            /\ now \in {<<"mark", "managed">>} \cup ({"write"} \X Files) => \A f \in Files : Copied(f)'
            /\ now \in {<<"restore", "iplist">>, <<"restore", "config">>} => Intact("hostlist")'
            /\ now = <<"restore", "config">> => Intact("iplist")'
            /\ now \in {<<"unmark", "managed">>} \cup ({"unbackup"} \X Files) => \A f \in Files : Intact(f)'
        BY <1>1, <3>1, <3>2
      <3> QED
        BY <3>3 DEF CopyAt, now
    <2> QED
      BY <1>2, <2>3 DEF CopyInv
  <1> QED
    BY <1>3, <1>4, <1>5

\* What an early end leaves behind.
LEMMA LeavesCut ==
  ASSUME ~Idle, Now \in Removing
  PROVE  "cut" \in Leaves
  <1>1. \A v, o : Now = <<v, o>> => At(v, o)
    BY DEF At, Now
  <1> QED
    BY <1>1 DEF Leaves, Removing, Files


\* A step to a known step, with what it owes there.
LEMMA CopyTo ==
  ASSUME CopyInv, DiskTypes', odd' = odd, NEW CONSTANT next, Now' = next,
         CopyAt(Now) => CopyAt(next)'
  PROVE  CopyInv'
  <1>1. CASE Lossy
    BY <1>1 DEF CopyInv, Lossy
  <1>2. CASE CopyAt(Now)
    <2>1. CopyAt(next)' /\ Now' = next
      BY <1>2
    <2>2. CopyAt(Now)'
      BY <2>1 DEF CopyAt
    <2> QED
      BY <2>2 DEF CopyInv
  <1> QED
    BY <1>1, <1>2 DEF CopyInv

LEMMA CopyBackup ==
  ASSUME Control, CopyInv, DiskTypes', NEW f \in Files, BackupOriginal(f)
  PROVE  CopyInv'
  <1>1. /\ ~Idle /\ Now = <<"backup", f>> /\ by' = by /\ Go /\ odd' = odd /\ mine' = mine
        /\ file' = file /\ marker' = marker
        /\ backup' = IF marker \/ backup[f] # "absent" THEN backup ELSE [backup EXCEPT ![f] = file[f]]
    BY AtNow DEF BackupOriginal, kept, past
  <1>2. CopyAt(Now) => /\ \A g \in Files : Safe(g)' /\ (Copied(g) => Copied(g)')
                       /\ Copied(f)' /\ (marker => \A g \in Files : Copied(g)')
    <2> SUFFICES ASSUME CopyAt(Now)
                 PROVE  /\ \A g \in Files : Safe(g)' /\ (Copied(g) => Copied(g)')
                        /\ Copied(f)' /\ (marker => \A g \in Files : Copied(g)')
      OBVIOUS
    <2>1. Now \notin Removing /\ \A g \in Files : Safe(g)
      BY <1>1 DEF Removing, CopyAt
    <2>2. marker => \A g \in Files : Copied(g)
      BY <2>1 DEF CopyAt
    <2>3. \A g \in Files : Copied(g) => Copied(g)'
      BY <1>1, <2>1 DEF CopyInv, DiskTypes, Safe, Copied, Intact
    <2>4. Copied(f)'
      BY <1>1, <2>1, <2>2, <2>3 DEF CopyInv, DiskTypes, Safe, Copied, Intact
    <2>5. \A g \in Files : Safe(g)'
      BY <1>1, <2>1, <2>3, <2>4 DEF CopyInv, DiskTypes, Safe, Copied, Intact
    <2> QED
      BY <2>2, <2>3, <2>4, <2>5
  <1>3. CASE f = "hostlist"
    <2> DEFINE next == <<"backup", "iplist">>
    <2>1. Now' = next
      BY <1>1, <1>3, GoFrom
    <2>2. CopyAt(Now) => CopyAt(next)'
      BY <1>1, <1>2, <1>3 DEF CopyAt, Undoing
    <2> QED
      BY <1>1, <2>1, <2>2, CopyTo
  <1>4. CASE f = "iplist"
    <2> DEFINE next == <<"backup", "config">>
    <2>1. Now' = next
      BY <1>1, <1>4, GoFrom
    <2>2. CopyAt(Now) => CopyAt(next)'
      BY <1>1, <1>2, <1>4 DEF CopyAt, Undoing, Files
    <2> QED
      BY <1>1, <2>1, <2>2, CopyTo
  <1>5. CASE f = "config"
    <2> DEFINE next == <<"write", "config">>
    <2>1. Now' = next
      BY <1>1, <1>5, GoFrom
    <2>2. CopyAt(Now) => \A g \in Files : Copied(g)'
      BY <1>1, <1>2, <1>5 DEF CopyAt, Files
    <2>3. CopyAt(Now) => CopyAt(next)'
      BY <1>1, <1>2, <2>2 DEF CopyAt, Undoing
    <2> QED
      BY <1>1, <2>1, <2>3, CopyTo
  <1> QED
    BY <1>3, <1>4, <1>5 DEF Files

\* While every original has its copy, the files may be written.
LEMMA CopyWrites ==
  ASSUME Control, CopyInv, DiskTypes', UNCHANGED <<backup, marker, mine, odd>>,
         ~Idle, by' = by, Go, Now \in {"write"} \X Files
  PROVE  CopyInv'
  <1>1. CopyAt(Now) => \A g \in Files : Copied(g)' /\ Safe(g)'
    BY DEF CopyAt, Safe, Copied
  <1>2. Now = <<"write", "config">> \/ Now = <<"write", "hostlist">> \/ Now = <<"write", "iplist">>
    BY DEF Files
  <1>3. Now' = <<"write", "hostlist">> \/ Now' = <<"write", "iplist">> \/ Now' = <<"mark", "managed">>
    BY <1>2, GoFrom
  <1>4. \A next \in {<<"write", "hostlist">>, <<"write", "iplist">>, <<"mark", "managed">>} :
            CopyAt(Now) => CopyAt(next)'
    BY <1>1 DEF CopyAt, Undoing
  <1> QED
    BY <1>3, <1>4, CopyTo


LEMMA CopyRestore ==
  ASSUME Control, CopyInv, DiskTypes', NEW f \in Files, RestoreOriginal(f)
  PROVE  CopyInv'
  <1>1. /\ ~Idle /\ Now = <<"restore", f>> /\ by' = by /\ Go /\ odd' = odd /\ mine' = mine
        /\ backup' = backup /\ marker' = marker
        /\ file' = [file EXCEPT ![f] = IF f = "config" /\ backup[f] = "absent" THEN @ ELSE backup[f]]
    BY AtNow DEF RestoreOriginal, kept, past
  <1>2. CopyAt(Now) => /\ marker /\ marker' /\ \A g \in Files : Copied(g)' /\ Safe(g)'
                       /\ Intact(f)' /\ \A g \in Files : Intact(g) => Intact(g)'
    <2> SUFFICES ASSUME CopyAt(Now)
                 PROVE  /\ marker /\ marker' /\ \A g \in Files : Copied(g)' /\ Safe(g)'
                        /\ Intact(f)' /\ \A g \in Files : Intact(g) => Intact(g)'
      OBVIOUS
    <2>1. Now \in Undoing /\ Now \notin Removing
      BY <1>1 DEF Undoing, Removing
    <2>2. marker /\ \A g \in Files : Copied(g)
      BY <2>1 DEF CopyAt
    <2>3. \A g \in Files : Copied(g)' /\ Safe(g)'
      BY <1>1, <2>2 DEF Copied, Safe
    <2>4. Intact(f)'
      BY <1>1, <2>2 DEF CopyInv, DiskTypes, Copied, Intact
    <2>5. \A g \in Files : Intact(g) => Intact(g)'
      BY <1>1, <2>4 DEF CopyInv, DiskTypes, Intact
    <2> QED
      BY <1>1, <2>2, <2>3, <2>4, <2>5
  <1>3. CASE f = "hostlist"
    <2> DEFINE next == <<"restore", "iplist">>
    <2>1. Now' = next
      BY <1>1, <1>3, GoFrom
    <2>2. CopyAt(Now) => CopyAt(next)'
      BY <1>1, <1>2, <1>3 DEF CopyAt
    <2> QED
      BY <1>1, <2>1, <2>2, CopyTo
  <1>4. CASE f = "iplist"
    <2> DEFINE next == <<"restore", "config">>
    <2>1. Now' = next
      BY <1>1, <1>4, GoFrom
    <2>2. CopyAt(Now) => CopyAt(next)'
      BY <1>1, <1>2, <1>4 DEF CopyAt, Files
    <2> QED
      BY <1>1, <2>1, <2>2, CopyTo
  <1>5. CASE f = "config"
    <2> DEFINE next == <<"unbackup", "hostlist">>
    <2>1. Now' = next
      BY <1>1, <1>5, GoFrom
    <2>2. CopyAt(Now) => \A g \in Files : Intact(g)'
      BY <1>1, <1>2, <1>5 DEF CopyAt, Files
    <2>3. CopyAt(Now) => CopyAt(next)'
      BY <1>1, <1>2, <2>2 DEF CopyAt
    <2> QED
      BY <1>1, <2>1, <2>3, CopyTo
  <1> QED
    BY <1>3, <1>4, <1>5 DEF Files

LEMMA CopyRemove ==
  ASSUME Control, CopyInv, DiskTypes', NEW f \in Files, RemoveBackup(f)
  PROVE  CopyInv'
  <1>1. /\ ~Idle /\ Now = <<"unbackup", f>> /\ by' = by /\ Go /\ odd' = odd /\ mine' = mine
        /\ file' = file /\ marker' = marker /\ backup' = [backup EXCEPT ![f] = "absent"]
    BY AtNow DEF RemoveBackup, kept, past
  <1>2. CopyAt(Now) => marker /\ marker' /\ \A g \in Files : Safe(g)' /\ Intact(g)'
    <2> SUFFICES ASSUME CopyAt(Now) PROVE marker /\ marker' /\ \A g \in Files : Safe(g)' /\ Intact(g)'
      OBVIOUS
    <2>1. Now \in Undoing /\ Now \in {<<"unmark", "managed">>} \cup ({"unbackup"} \X Files)
      BY <1>1 DEF Undoing
    <2>2. marker /\ \A g \in Files : Intact(g) /\ Safe(g)
      BY <2>1 DEF CopyAt
    <2>3. \A g \in Files : Safe(g)' /\ Intact(g)'
      BY <1>1, <2>2 DEF CopyInv, DiskTypes, Safe, Copied, Intact
    <2> QED
      BY <1>1, <2>2, <2>3
  <1>3. Now' = <<"unbackup", "iplist">> \/ Now' = <<"unbackup", "config">> \/ Now' = <<"unmark", "managed">>
    BY <1>1, GoFrom DEF Files
  <1>4. \A next \in Removing : CopyAt(Now) => CopyAt(next)'
    BY <1>1, <1>2 DEF CopyAt, Removing
  <1> QED
    BY <1>1, <1>3, <1>4, CopyTo DEF Removing

LEMMA CopyStep ==
  ASSUME Control, CopyInv, DiskTypes', Step
  PROVE  CopyInv'
  <1>0. \A v, o : At(v, o) => ~Idle /\ Now = <<v, o>>
    BY AtNow
  <1>1. CASE RequirePackage
    <2>1. /\ UNCHANGED <<disk, mine, odd>> /\ ~Idle /\ by' = by /\ Now = <<"require", "package">> /\ (Go \/ Failed)
      BY <1>0, <1>1 DEF RequirePackage, world, kept, past
    <2>2. Now' = <<"backup", "hostlist">> \/ Now'[1] \in Easy
      BY <2>1, GoFrom, Turns
    <2> QED
      BY <2>1, <2>2, CopyRests DEF Removing
  <1>2. CASE RequireMarker
    <2>1. /\ UNCHANGED <<disk, mine, odd>> /\ ~Idle /\ by' = by /\ Now = <<"require", "marker">>
          /\ (Go /\ marker) \/ Skip
      BY <1>0, <1>2 DEF RequireMarker, world, kept, past
    <2>2. CASE Skip
      BY <2>1, <2>2, Turns, CopyRests DEF Removing
    <2>3. CASE Go /\ marker
      <3> DEFINE next == <<"service", "stop">>
      <3>1. Now' = next
        BY <2>1, <2>3, GoFrom
      <3>2. \A g \in Files : (Safe(g) => Safe(g)') /\ (Copied(g) => Copied(g)')
        BY <2>1 DEF Safe, Copied, Intact, disk
      <3>3. CopyAt(Now) => CopyAt(next)'
        BY <2>1, <2>3, <3>2 DEF CopyAt, Removing, disk
      <3> QED
        BY <2>1, <3>1, <3>3, CopyTo
    <2> QED
      BY <2>1, <2>2, <2>3
  <1>3. ASSUME NEW f \in Files, BackupOriginal(f) \/ WriteManaged(f) \/ RestoreOriginal(f) \/ RemoveBackup(f)
        PROVE  CopyInv'
    <2>1. CASE WriteManaged(f)
      <3>1. /\ UNCHANGED <<backup, marker, mine, odd>> /\ ~Idle /\ by' = by /\ Go /\ Now = <<"write", f>>
        BY <1>0, <2>1 DEF WriteManaged, kept, past
      <3> QED
        BY <3>1, CopyWrites
    <2> QED
      BY <1>3, <2>1, CopyBackup, CopyRestore, CopyRemove
  <1>4. CASE SyncConfig
    <2>1. /\ UNCHANGED <<backup, marker, mine>> /\ ~Idle /\ by' = by /\ Now = <<"write", "config">>
          /\ (Go /\ odd' = odd) \/ (Failed /\ file' = file /\ odd' = odd \cup Leaves)
      BY <1>0, <1>4 DEF SyncConfig, kept, past
    <2>2. CASE Go /\ odd' = odd
      BY <2>1, <2>2, CopyWrites DEF Files
    <2>3. CASE Failed /\ file' = file /\ odd' = odd \cup Leaves
      BY <2>1, <2>3, Turns, CopyRests DEF Removing, disk
    <2> QED
      BY <2>1, <2>2, <2>3
  <1>5. CASE WriteMarker
    <2> DEFINE next == <<"service", "start">>
    <2>1. /\ UNCHANGED <<file, backup, mine, odd>> /\ ~Idle /\ by' = by /\ Now = <<"mark", "managed">> /\ Go
      BY <1>0, <1>5 DEF WriteMarker, kept, past
    <2>2. Now' = next
      BY <2>1, GoFrom
    <2>3. CopyAt(Now) => \A g \in Files : Copied(g)' /\ Safe(g)'
      BY <2>1 DEF CopyAt, Safe, Copied
    <2>4. CopyAt(Now) => CopyAt(next)'
      BY <2>3 DEF CopyAt, Undoing
    <2> QED
      BY <2>1, <2>2, <2>4, CopyTo
  <1>6. CASE StartService
    <2>1. /\ UNCHANGED <<disk, mine>> /\ ~Idle /\ by' = by /\ Now = <<"service", "start">> /\ (Go \/ Failed)
          /\ odd \cap {"cut", "stale"} \subseteq odd'
      BY <1>0, <1>6 DEF StartService, kept, past
    <2>2. Now'[1] \in Easy
      BY <2>1, GoFrom, Turns
    <2> QED
      BY <2>1, <2>2, CopyRests DEF Removing
  <1>7. CASE StopService
    <2> DEFINE next == <<"restore", "hostlist">>
    <2>1. /\ UNCHANGED <<disk, mine, odd>> /\ ~Idle /\ by' = by /\ Now = <<"service", "stop">> /\ Go
      BY <1>0, <1>7 DEF StopService, kept, past
    <2>2. Now' = next
      BY <2>1, GoFrom
    <2>3. \A g \in Files : (Safe(g) => Safe(g)') /\ (Copied(g) => Copied(g)')
      BY <2>1 DEF Safe, Copied, Intact, disk
    <2>4. Now \in Undoing /\ Now \notin Removing
      BY <2>1 DEF Undoing, Removing
    <2>5. CopyAt(Now) => CopyAt(next)'
      BY <2>1, <2>3, <2>4 DEF CopyAt, disk
    <2> QED
      BY <2>1, <2>2, <2>5, CopyTo
  <1>8. CASE RemoveMarker
    <2>1. /\ UNCHANGED <<file, backup, mine>> /\ marker' = FALSE /\ odd' = odd \ {"unrecorded"}
          /\ ~Idle /\ by' = by /\ Now = <<"unmark", "managed">> /\ Go
      BY <1>0, <1>8 DEF RemoveMarker, kept, past
    <2>2. Now'[1] \in Easy
      BY <2>1, GoFrom
    <2>3. CASE Lossy
      BY <2>1, <2>3 DEF CopyInv, Lossy
    <2>4. CASE CopyAt(Now)
      <3>1. \A g \in Files : Safe(g)'
        BY <2>1, <2>4 DEF CopyAt, Safe, Copied, Intact
      <3> DEFINE now == Now'
      <3>2. now[1] \in Easy
        BY <2>2
      <3> HIDE DEF now
      <3>3. now[1] \notin {"unmark", "unbackup", "write", "restore", "mark", "service", "backup"}
        BY <3>2 DEF Easy
      <3>4. now \notin {<<"mark", "managed">>} \cup ({"write"} \X Files) /\ now \notin Undoing
            /\ now \notin {<<"backup", "iplist">>, <<"backup", "config">>, <<"restore", "iplist">>, <<"restore", "config">>}
            /\ now \notin {<<"unmark", "managed">>} \cup ({"unbackup"} \X Files)
        BY <3>3 DEF Undoing
      <3>5. CopyAt(Now)'
        BY <2>1, <3>1, <3>4 DEF CopyAt, now
      <3> QED
        BY <3>5 DEF CopyInv
    <2> QED
      BY <2>3, <2>4 DEF CopyInv
  <1>9. CASE StopProxy \/ ConnectSucceeds \/ ConnectPreserves \/ SaveState
    <2>1. /\ UNCHANGED <<disk, mine>> /\ ~Idle /\ by' = by /\ (Go \/ Failed) /\ odd \subseteq odd'
          /\ Now[1] \in Settling \/ Now = <<"stop", "firewall">> \/ Now = <<"stop", "backend">>
      BY <1>0, <1>9 DEF StopProxy, ConnectSucceeds, ConnectPreserves, SaveState, world, kept, past, Settling
    <2>2. Now'[1] \in Easy
      BY <2>1, GoFrom, Turns DEF Easy
    <2> QED
      BY <2>1, <2>2, CopyRests DEF Removing, Settling
  <1>10. CASE ConnectFails
    <2>1. /\ UNCHANGED <<disk, mine>> /\ ~Idle /\ by' = by /\ odd \subseteq odd' /\ Now[1] = "connect"
          /\ Failed \/ todo' = disconnectRuntime(<<>>) \o Save("marked", <<>>)
      BY <1>0, <1>10 DEF ConnectFails, kept, past
    <2>2. Now'[1] \in Easy
      BY <2>1, Turns, MarkedMoves, FreshEasy
    <2> QED
      BY <2>1, <2>2, CopyRests DEF Removing
  <1> QED
    BY <1>1, <1>2, <1>3, <1>4, <1>5, <1>6, <1>7, <1>8, <1>9, <1>10 DEF Step


LEMMA CopyNext ==
  ASSUME Control, CopyInv, [Next]_vars
  PROVE  CopyInv'
  <1>0. DiskTypes'
    BY DiskTypesNext DEF CopyInv
  <1>1. CASE Step
    BY <1>0, <1>1, CopyStep
  <1>2. CASE CallFails
    <2>1. UNCHANGED <<disk, mine>> /\ ~Idle /\ by' = by /\ Failed /\ odd' = odd \cup Leaves
      BY <1>2 DEF CallFails, world, past
    <2> QED
      BY <2>1, Turns, LeavesCut, CopyRests
  <1>3. CASE Kill \/ Reboot
    <2>1. UNCHANGED <<disk, mine>> /\ todo' = <<>> /\ odd \subseteq odd' /\ (~Idle => Leaves \subseteq odd')
      BY <1>3 DEF Kill, Reboot, world, past
    <2>2. Now'[1] \in Easy
      BY <2>1 DEF Now, Idle, Resting, Easy
    <2>3. Now \in Removing => ~Idle
      BY DEF Now, Resting, Removing
    <2> QED
      BY <2>1, <2>2, <2>3, LeavesCut, CopyRests
  <1>4. ASSUME NEW f \in Files, UserEdits(f)
        PROVE  CopyInv'
    <2>1. /\ Idle /\ todo' = todo /\ file' = [file EXCEPT ![f] = "v2"] /\ mine' = [mine EXCEPT ![f] = "v2"]
          /\ UNCHANGED <<backup, marker>>
          /\ odd' = IF marker \/ backup[f] # "absent" THEN odd \cup {"stale"} ELSE odd
      BY <1>4 DEF UserEdits
    <2>2. CASE marker \/ backup[f] # "absent" \/ Lossy
      BY <1>0, <2>1, <2>2 DEF CopyInv, Lossy
    <2>3. CASE ~marker /\ backup[f] = "absent" /\ ~Lossy
      <3> DEFINE next == Resting
      <3>1. Now = next /\ Now' = next
        BY <2>1 DEF Now, Idle
      <3>2. CopyAt(Now) => \A g \in Files : Safe(g)'
        BY <2>1, <2>3 DEF CopyInv, CopyAt, DiskTypes, Safe, Copied, Intact
      <3>3. CopyAt(Now) => CopyAt(next)'
        BY <2>1, <2>3, <3>2 DEF CopyAt, Undoing, Resting
      <3> QED
        BY <1>0, <2>1, <2>3, <3>1, <3>3, CopyTo
    <2> QED
      BY <2>2, <2>3
  <1>5. CASE Starting
    <2>1. UNCHANGED <<disk, mine, odd>> /\ Idle
      BY <1>5, Begins DEF world
    <2>2. Now = Resting
      BY <2>1 DEF Now
    <2>3. Now'[1] \in Easy
      <3>1. PICK who : by' = who /\ Program(todo', who)
        BY <1>5, Begins
      <3>2. Now' \in Fresh0(TagsOf(who))
        BY <3>1, ProgramNow
      <3> QED
        BY <3>2, FreshEasy
    <2> QED
      BY <2>1, <2>2, <2>3, CopyRests DEF Resting, Removing
  <1>6. CASE AutoPrepare \/ AutoDropped \/ UNCHANGED vars
    <2>1. UNCHANGED <<file, backup, marker, mine, odd, todo>>
      BY <1>6 DEF AutoPrepare, AutoDropped, vars, world, disk, past
    <2> QED
      BY <2>1 DEF CopyInv, CopyAt, DiskTypes, Lossy, Now, Idle, Safe, Copied, Intact
  <1> QED
    BY <1>1, <1>2, <1>3, <1>4, <1>5, <1>6 DEF Next, Starting

\* Whatever fails and whenever the process is killed or the router restarts, what the user
\* last wrote to a file of the zapret package is in the file or in the copy
\* backupOriginalFile made of it, but for the two histories OriginalsKept names.
THEOREM OriginalsKeptTheorem == Spec => []OriginalsKept
  <1>1. Init => CopyInv
    <2> SUFFICES ASSUME Init PROVE CopyInv
      OBVIOUS
    <2>1. DiskTypes
      BY DEF Init, DiskTypes, Users
    <2>2. \A f \in Files : Safe(f)
      BY DEF Init, Safe, Intact
    <2>3. Now = Resting /\ ~marker
      BY DEF Init, Now, Idle
    <2>4. CopyAt(Now)
      BY <2>2, <2>3 DEF CopyAt, Undoing, Resting
    <2> QED
      BY <2>1, <2>4 DEF CopyInv
  <1>2. CopyInv => OriginalsKept
    BY DEF CopyInv, CopyAt, Lossy, Safe, Copied, Intact, OriginalsKept
  <1>3. Control /\ CopyInv /\ [Next]_vars => CopyInv'
    BY CopyNext
  <1> QED
    BY <1>1, <1>2, <1>3, ControlAlways, PTL DEF Spec


-------------------------------------------------------------------------------
(* Types. *)

LEMMA Fields == DOMAIN NoRoute = {"node", "mode", "conn", "via"} /\ NoRoute \in Route
  BY DEF NoRoute, Route, Modes, Transports

\* What the state file holds: the five fields, typed.
StateTypes ==
    /\ DOMAIN st = {"node", "mode", "conn", "via", "test"}
    /\ RouteOf(st) \in Route /\ (st.test = None \/ st.test \in Route)

LEMMA RouteFields ==
  ASSUME NEW s
  PROVE  /\ RouteOf(s) = [node |-> s.node, mode |-> s.mode, conn |-> s.conn, via |-> s.via]
         /\ RouteOf(s).node = s.node /\ RouteOf(s).mode = s.mode
         /\ RouteOf(s).conn = s.conn /\ RouteOf(s).via = s.via
  BY Fields DEF RouteOf

LEMMA WithFields ==
  ASSUME NEW r, NEW t
  PROVE  /\ DOMAIN With(r, t) = {"node", "mode", "conn", "via", "test"}
         /\ With(r, t).test = t /\ With(r, t).node = r.node /\ With(r, t).mode = r.mode
         /\ With(r, t).conn = r.conn /\ With(r, t).via = r.via
  BY Fields DEF With

LEMMA WithTyped ==
  ASSUME NEW r \in Route, NEW t, t = None \/ t \in Route
  PROVE  /\ DOMAIN With(r, t) = {"node", "mode", "conn", "via", "test"}
         /\ RouteOf(With(r, t)) \in Route /\ (With(r, t).test = None \/ With(r, t).test \in Route)
  <1>1. RouteOf(With(r, t)) = [node |-> r.node, mode |-> r.mode, conn |-> r.conn, via |-> r.via]
    BY WithFields, RouteFields
  <1> QED
    BY <1>1, WithFields DEF Route

LEMMA CurrentRoute ==
  ASSUME StateTypes
  PROVE  Current \in Route /\ Current.node = st.node /\ Current.mode = st.mode
  <1>1. effectiveActiveTransport(st) \in Transports
    <2>1. st.via \in Transports
      BY RouteFields DEF StateTypes, Route
    <2> QED
      BY <2>1 DEF effectiveActiveTransport, Transports
  <1>2. RouteOf(st) \in Route
    BY DEF StateTypes
  <1>3. Current = [RouteOf(st) EXCEPT !.via = effectiveActiveTransport(st)]
    BY DEF Current
  <1>4. Current \in Route /\ Current.node = RouteOf(st).node /\ Current.mode = RouteOf(st).mode
    BY <1>1, <1>2, <1>3 DEF Route
  <1> QED
    BY <1>4, RouteFields

\* What the saves write.
LEMMA SavedFields ==
  ASSUME StateTypes, goal \in Route, NEW tag \in Up \cup Down
  PROVE  /\ DOMAIN Saved(tag) = {"node", "mode", "conn", "via", "test"}
         /\ RouteOf(Saved(tag)) \in Route /\ (Saved(tag).test = None \/ Saved(tag).test \in Route)
         /\ Saved(tag).test = IF tag = "test" THEN TestRestore ELSE None
         /\ tag \in {"connected", "marked"} => Saved(tag).node = goal.node /\ Saved(tag).mode = goal.mode
         /\ Saved(tag).via = IF tag \in Up THEN "zapret" ELSE IF tag = "connected" THEN "proxy" ELSE "direct"
         /\ Saved(tag).conn => tag \in Up \cup {"connected"}
         /\ tag \in Up => Saved(tag).node = st.node
  <1> DEFINE R == RouteOf(st)
             Good(s, r, t) == s = With(r, t) /\ r \in Route /\ (t = None \/ t \in Route)
  <1>0. R \in Route /\ R.node = st.node
    BY RouteFields DEF StateTypes
  <1>1. \A s, r, t : Good(s, r, t) =>
            /\ DOMAIN s = {"node", "mode", "conn", "via", "test"}
            /\ RouteOf(s) \in Route /\ (s.test = None \/ s.test \in Route)
            /\ s.test = t /\ s.node = r.node /\ s.mode = r.mode /\ s.conn = r.conn /\ s.via = r.via
    BY WithTyped, WithFields
  <1>2. TestRestore = None \/ TestRestore \in Route
    BY CurrentRoute DEF TestRestore, StateTypes
  <1> HIDE DEF R
  <1>3. CASE tag = "test"
    <2> DEFINE r == [R EXCEPT !.conn = TRUE, !.via = "zapret"]
    <2>1. r \in Route /\ r.node = R.node /\ r.via = "zapret"
      BY <1>0 DEF Route, Transports
    <2>2. Good(Saved(tag), r, TestRestore)
      BY <1>2, <1>3, <2>1 DEF Saved, R
    <2> HIDE DEF r, Good
    <2> QED
      BY <1>0, <1>1, <1>3, <2>1, <2>2 DEF Up
  <1>4. CASE tag = "fallback"
    <2> DEFINE r == [R EXCEPT !.conn = TRUE, !.via = "zapret", !.mode = "auto"]
    <2>1. r \in Route /\ r.node = R.node /\ r.via = "zapret"
      BY <1>0 DEF Route, Transports, Modes
    <2>2. Good(Saved(tag), r, None)
      BY <1>4, <2>1 DEF Saved, R
    <2> HIDE DEF r, Good
    <2> QED
      BY <1>0, <1>1, <1>4, <2>1, <2>2 DEF Up
  <1>5. CASE tag = "direct"
    <2> DEFINE r == [R EXCEPT !.conn = FALSE, !.via = "direct", !.mode = "auto"]
    <2>1. r \in Route /\ ~r.conn /\ r.via = "direct"
      BY <1>0 DEF Route, Transports, Modes
    <2>2. Good(Saved(tag), r, None)
      BY <1>5, <2>1 DEF Saved, R
    <2> HIDE DEF r, Good
    <2> QED
      BY <1>1, <1>5, <2>1, <2>2 DEF Up
  <1>6. CASE tag = "failed"
    <2> DEFINE r == [R EXCEPT !.conn = FALSE, !.via = "direct"]
    <2>1. r \in Route /\ ~r.conn /\ r.via = "direct"
      BY <1>0 DEF Route, Transports
    <2>2. Good(Saved(tag), r, None)
      BY <1>6, <2>1 DEF Saved, R
    <2> HIDE DEF r, Good
    <2> QED
      BY <1>1, <1>6, <2>1, <2>2 DEF Up
  <1>7. CASE tag = "marked"
    <2> DEFINE r == [goal EXCEPT !.conn = FALSE, !.via = "direct"]
    <2>1. r \in Route /\ ~r.conn /\ r.via = "direct" /\ r.node = goal.node /\ r.mode = goal.mode
      BY DEF Route, Transports
    <2>2. Good(Saved(tag), r, None)
      BY <1>7, <2>1 DEF Saved
    <2> HIDE DEF r, Good
    <2> QED
      BY <1>1, <1>7, <2>1, <2>2 DEF Up
  <1>8. CASE tag = "connected"
    <2> DEFINE r == [goal EXCEPT !.conn = TRUE, !.via = "proxy"]
    <2>1. r \in Route /\ r.via = "proxy" /\ r.node = goal.node /\ r.mode = goal.mode
      BY DEF Route, Transports
    <2>2. Good(Saved(tag), r, None)
      BY <1>8, <2>1 DEF Saved
    <2> HIDE DEF r, Good
    <2> QED
      BY <1>1, <1>8, <2>1, <2>2 DEF Up
  <1>9. CASE tag = "disconnected"
    <2>1. Good(Saved(tag), NoRoute, None) /\ ~NoRoute.conn /\ NoRoute.via = "direct"
      BY <1>9, Fields DEF Saved, NoRoute
    <2> HIDE DEF Good
    <2> QED
      BY <1>1, <1>9, <2>1 DEF Up
  <1> QED
    BY <1>3, <1>4, <1>5, <1>6, <1>7, <1>8, <1>9 DEF Up, Down


TypeInv == TypeOK /\ StateTypes

\* Operations that begin: what they leave alone and the route they set out for.
LEMMA StartingKeeps ==
  ASSUME TypeInv, Starting
  PROVE  /\ UNCHANGED <<world, st, pkg, mine, odd, faults>> /\ Idle
         /\ goal' \in Route /\ before' \in Route /\ cfg' \in [enabled : BOOLEAN, sel : {"none", "cidrs", "domains"}]
         /\ boot' \in BOOLEAN /\ events' \in 0..MaxEvents /\ (snap' = snap \/ snap' = None)
         /\ by' = "starttest" => st.test = None /\ before' = Current
         /\ by' # "starttest" => before' = before
         /\ by' = "stoptest" => st.test # None /\ goal' = st.test
         /\ by' = "auto" => snap # None /\ Fresh
  <1> USE DEF UserBegins, Begin
  <1>0. /\ Current \in Route /\ NoRoute \in Route /\ before \in Route /\ boot \in BOOLEAN /\ events \in 0..MaxEvents
        /\ cfg \in [enabled : BOOLEAN, sel : {"none", "cidrs", "domains"}] /\ MaxEvents \in Nat
        /\ events < MaxEvents => events + 1 \in 0..MaxEvents
        /\ st.test # None => st.test \in Route
        /\ \A n \in Node, mode \in {"manual", "auto"} : [node |-> n, mode |-> mode, conn |-> TRUE, via |-> "proxy"] \in Route
    BY CurrentRoute, Fields, ZapretBounds DEF TypeInv, TypeOK, StateTypes, Route, Modes, Transports
  <1>1. CASE StartZapretTest
    BY <1>0, <1>1 DEF StartZapretTest
  <1>2. CASE StopZapretTest
    BY <1>0, <1>2 DEF StopZapretTest
  <1>3. CASE Disconnect
    BY <1>0, <1>3 DEF Disconnect
  <1>4. CASE Reapply
    BY <1>0, <1>4 DEF Reapply
  <1>5. CASE RestoreRuntime
    BY <1>0, <1>5 DEF RestoreRuntime
  <1>6. ASSUME NEW on \in BOOLEAN, SetZapretEnabled(on)
        PROVE  /\ UNCHANGED <<world, st, pkg, mine, odd, faults, snap, boot, before>> /\ Idle
               /\ goal' = Current /\ by' = "settings" /\ events' \in 0..MaxEvents
               /\ cfg' \in [enabled : BOOLEAN, sel : {"none", "cidrs", "domains"}]
    BY <1>0, <1>6 DEF SetZapretEnabled
  <1>7. ASSUME NEW sel \in {"none", "cidrs", "domains"}, SetZapretSelectors(sel)
        PROVE  /\ UNCHANGED <<world, st, pkg, mine, odd, faults, snap, boot, before>> /\ Idle
               /\ goal' = Current /\ by' = "settings" /\ events' \in 0..MaxEvents
               /\ cfg' \in [enabled : BOOLEAN, sel : {"none", "cidrs", "domains"}]
    <2>1. /\ cfg' = [enabled |-> cfg.enabled /\ sel # "none", sel |-> sel] /\ before' = before
          /\ \E p : UserBegins("settings", Current, p)
      BY <1>7 DEF SetZapretSelectors
    <2> QED
      BY <1>0, <2>1
  <1>8. ASSUME NEW n \in Node, NEW mode \in {"manual", "auto"}, Connect(n, mode)
        PROVE  /\ UNCHANGED <<world, st, pkg, mine, odd, faults, snap, boot, before, cfg>> /\ Idle
               /\ goal' \in Route /\ by' = "connect" /\ events' \in 0..MaxEvents
    BY <1>0, <1>8 DEF Connect
  <1>9. CASE AutoFallback
    BY <1>0, <1>9 DEF AutoFallback
  <1>10. ASSUME NEW n \in Node, AutoFailback(n)
         PROVE  /\ UNCHANGED <<world, st, pkg, mine, odd, faults, boot, before, cfg, events>> /\ Idle
                /\ goal' \in Route /\ by' = "auto" /\ snap' = None /\ snap # None /\ Fresh
    BY <1>0, <1>10 DEF AutoFailback
  <1> QED
    BY <1>0, <1>1, <1>2, <1>3, <1>4, <1>5, <1>6, <1>7, <1>8, <1>9, <1>10 DEF Starting


Oddities == {"cut", "stale", "unrecorded", "partial", "failback"}

LEMMA LeavesTyped == Leaves \subseteq Oddities
  BY DEF Leaves, Oddities

\* The steps of an operation on the services, the history and the state file.
LEMMA StepTyped ==
  ASSUME TypeInv, Step
  PROVE  /\ svc' \in BOOLEAN /\ proxy' \in {"off", "xray", "on"} /\ odd' \subseteq Oddities
         /\ StateTypes' /\ UNCHANGED kept
  <1>0. /\ svc \in BOOLEAN /\ proxy \in {"off", "xray", "on"} /\ odd \subseteq Oddities /\ Leaves \subseteq Oddities
        /\ StateTypes /\ (st' = st => StateTypes')
    BY LeavesTyped DEF TypeInv, TypeOK, Oddities, StateTypes, RouteOf
  <1>1. CASE RequirePackage \/ RequireMarker \/ WriteMarker \/ StopService
    BY <1>0, <1>1 DEF RequirePackage, RequireMarker, WriteMarker, StopService, world
  <1>2. ASSUME NEW f \in Files, BackupOriginal(f) \/ WriteManaged(f) \/ RestoreOriginal(f) \/ RemoveBackup(f)
        PROVE  UNCHANGED <<svc, proxy, odd, st, kept>>
    BY <1>2 DEF BackupOriginal, WriteManaged, RestoreOriginal, RemoveBackup
  <1>3. CASE SyncConfig
    BY <1>0, <1>3 DEF SyncConfig
  <1>4. CASE StartService
    BY <1>0, <1>4 DEF StartService
  <1>5. CASE RemoveMarker \/ StopProxy
    BY <1>0, <1>5 DEF RemoveMarker, StopProxy
  <1>6. CASE ConnectSucceeds
    BY <1>0, <1>6 DEF ConnectSucceeds
  <1>7. CASE ConnectPreserves
    <2>1. st' = [st EXCEPT !.conn = TRUE]
      BY <1>7 DEF ConnectPreserves
    <2>2. DOMAIN st = {"node", "mode", "conn", "via", "test"} /\ RouteOf(st) \in Route
      BY <1>0 DEF StateTypes
    <2>3. st'.node = st.node /\ st'.mode = st.mode /\ st'.via = st.via /\ st'.test = st.test /\ st'.conn \in BOOLEAN
          /\ DOMAIN st' = DOMAIN st
      BY <2>1, <2>2
    <2>4. RouteOf(st)' \in Route
      <3>1. st.node \in Node \cup {None} /\ st.mode \in Modes /\ st.via \in Transports
        BY <2>2, RouteFields DEF Route
      <3>2. RouteOf(st)' = [node |-> st'.node, mode |-> st'.mode, conn |-> st'.conn, via |-> st'.via]
        BY Fields DEF RouteOf
      <3> QED
        BY <2>3, <3>1, <3>2 DEF Route
    <2>5. StateTypes'
      BY <1>0, <2>2, <2>3, <2>4 DEF StateTypes
    <2> QED
      BY <1>0, <1>7, <2>5 DEF ConnectPreserves, Oddities
  <1>8. CASE ConnectFails
    BY <1>0, <1>8 DEF ConnectFails
  <1>9. CASE SaveState
    <2>1. PICK tag \in Up \cup Down : st' = Saved(tag)
      BY <1>9 DEF SaveState, Up, Down
    <2>2. goal \in Route
      BY DEF TypeInv, TypeOK
    <2>3. StateTypes'
      BY <1>0, <2>1, <2>2, SavedFields DEF StateTypes
    <2> QED
      BY <1>0, <1>9, <2>3 DEF SaveState, world
  <1> QED
    BY <1>0, <1>1, <1>2, <1>3, <1>4, <1>5, <1>6, <1>7, <1>8, <1>9 DEF Step

LEMMA TypeNext ==
  ASSUME TypeInv, [Next]_vars
  PROVE  TypeInv'
  <1>0. /\ DiskTypes' /\ (st' = st => StateTypes') /\ (faults < MaxFaults => faults + 1 \in 0..MaxFaults)
        /\ odd \cup Leaves \subseteq Oddities
    <2>1. DiskTypes'
      BY DiskTypesNext DEF TypeInv, TypeOK, DiskTypes
    <2>2. faults < MaxFaults => faults + 1 \in 0..MaxFaults
      BY ZapretBounds DEF TypeInv, TypeOK
    <2> QED
      BY <2>1, <2>2, LeavesTyped DEF TypeInv, TypeOK, StateTypes, RouteOf, Oddities
  <1>1. CASE Step
    BY <1>0, <1>1, StepTyped DEF TypeInv, TypeOK, StateTypes, DiskTypes, kept, past, Oddities
  <1>2. CASE CallFails \/ Kill
    BY <1>0, <1>2 DEF CallFails, Kill, Fault, world, disk, past, TypeInv, TypeOK, StateTypes, DiskTypes, Oddities
  <1>3. CASE Reboot
    BY <1>0, <1>3 DEF Reboot, Fault, disk, past, TypeInv, TypeOK, StateTypes, DiskTypes, Oddities
  <1>4. ASSUME NEW f \in Files, UserEdits(f)
        PROVE  TypeInv'
    <2>1. events < MaxEvents => events + 1 \in 0..MaxEvents
      BY ZapretBounds DEF TypeInv, TypeOK
    <2> QED
      BY <1>0, <1>4, <2>1 DEF UserEdits, TypeInv, TypeOK, StateTypes, DiskTypes, Oddities
  <1>5. CASE Starting
    BY <1>0, <1>5, StartingKeeps DEF TypeInv, TypeOK, StateTypes, DiskTypes, world, disk, Oddities
  <1>6. CASE AutoPrepare \/ AutoDropped \/ UNCHANGED vars
    BY <1>0, <1>6 DEF AutoPrepare, AutoDropped, vars, world, disk, past, TypeInv, TypeOK, StateTypes, DiskTypes, Oddities
  <1> QED
    BY <1>1, <1>2, <1>3, <1>4, <1>5, <1>6 DEF Next, Starting

LEMMA TypesAlways == Spec => []TypeInv
  <1>1. Init => TypeInv
    <2> SUFFICES ASSUME Init PROVE TypeInv
      OBVIOUS
    <2>1. StateTypes
      BY WithTyped, Fields DEF Init, StateTypes
    <2>2. DiskTypes
      BY DEF Init, DiskTypes, Users
    <2>3. /\ {marker, svc, pkg, boot} \subseteq BOOLEAN /\ proxy \in {"off", "xray", "on"}
          /\ goal \in Route /\ before \in Route /\ odd = {}
      BY Fields DEF Init
    <2>4. cfg \in [enabled : BOOLEAN, sel : {"none", "cidrs", "domains"}]
      BY DEF Init
    <2>5. faults \in 0..MaxFaults /\ events \in 0..MaxEvents
      BY ZapretBounds DEF Init
    <2> QED
      BY <2>1, <2>2, <2>3, <2>4, <2>5 DEF TypeInv, TypeOK, StateTypes, DiskTypes
  <1> QED
    BY <1>1, TypeNext, PTL DEF Spec

\* Every variable of the fallback keeps its type: whatever an operation saves is a route
\* over the fields of state.json, and a test holds the route it returns to.
THEOREM TypeCorrect == Spec => []TypeOK
  <1>1. TypeInv => TypeOK
    BY DEF TypeInv
  <1> QED
    BY <1>1, TypesAlways, PTL


-------------------------------------------------------------------------------
(* The test. *)

LEMMA NowIs ==
  ASSUME Control, ~Idle
  PROVE  /\ todo # <<>> /\ Len(todo) \in Nat \ {0} /\ Now = todo[1].steps[1]
         /\ todo \in Seq([steps : Runs(TagsOf(by)), err : Errs2(TagsOf(by))])
         /\ todo[1].steps \in Runs(TagsOf(by)) /\ DOMAIN todo[1] = {"steps", "err"}
  <1> DEFINE B == [steps : Runs(TagsOf(by)), err : Errs2(TagsOf(by))]
  <1>1. todo # <<>> /\ todo \in Seq(B)
    BY DEF Control, Shape, Idle
  <1>2. Len(todo) \in Nat \ {0}
    <2> HIDE DEF B
    <2> QED
      BY <1>1
  <1>3. todo[1] \in B
    <2> HIDE DEF B
    <2> QED
      BY <1>1, <1>2, ElementOfSeq
  <1>4. Head(todo[1].steps) = todo[1].steps[1]
    BY <1>3, RunHead
  <1> QED
    BY <1>1, <1>2, <1>3, <1>4 DEF Now

LEMMA NowIsNext ==
  ASSUME Control', todo' # <<>>
  PROVE  /\ Now' = todo'[1].steps[1] /\ Len(todo') \in Nat \ {0}
         /\ todo' \in Seq([steps : Runs(TagsOf(by)'), err : Errs2(TagsOf(by)')])
  <1> DEFINE tags == TagsOf(by)'
             B == [steps : Runs(tags), err : Errs2(tags)]
  <1>1. todo' \in Seq(B)
    BY DEF Control, Shape
  <1>2. Len(todo') \in Nat \ {0}
    <2> HIDE DEF B
    <2> QED
      BY <1>1
  <1>3. todo'[1] \in B
    <2> HIDE DEF B
    <2> QED
      BY <1>1, <1>2, ElementOfSeq
  <1>4. Head(todo'[1].steps) = todo'[1].steps[1]
    BY <1>3, RunHead
  <1> QED
    BY <1>1, <1>2, <1>4 DEF Now, Idle

LEMMA ErrsNoUp ==
  ASSUME NEW tags, NEW p \in Errs2(tags), NEW tag \in Up
  PROVE  ~Pends(p, tag)
  <1> DEFINE B == [steps : Handling(tags), err : Errs1(tags)]
  <1> SUFFICES ASSUME NEW i \in 1..Len(p), p[i].steps[1] = <<"save", tag>> PROVE FALSE
    BY DEF Pends
  <1>1. p \in Seq(B)
    BY DEF Errs2, Errs
  <1>2. p[i] \in B
    <2> HIDE DEF B
    <2> QED
      BY <1>1, ElementOfSeq
  <1>3. p[i].steps[1] \notin {"save"} \X Up
    BY <1>2, HandlingRuns
  <1> QED
    BY <1>3

\* A state that says Zapret is saved after nothing else was.
LEMMA PendsMoves ==
  ASSUME Control, ~Idle, by' = by, NEW tag \in Up, Pends(todo', tag),
         Go \/ Skip \/ todo' \in Errs2(TagsOf(by))
  PROVE  Pends(todo, tag) /\ Now[1] \notin Settling
  <1> DEFINE tags == TagsOf(by)
  <1>1. todo' \notin Errs2(tags)
    BY ErrsNoUp
  <1>2. PICK i \in 1..Len(todo') : todo'[i].steps[1] = <<"save", tag>>
    BY DEF Pends
  <1>3. /\ todo # <<>> /\ Len(todo) \in Nat \ {0} /\ Now = todo[1].steps[1]
        /\ todo \in Seq([steps : Runs(tags), err : Errs2(tags)])
        /\ todo[1].steps \in Runs(tags) /\ DOMAIN todo[1] = {"steps", "err"}
    BY NowIs
  <1>4. \A k \in 2..Len(todo) : todo[k].steps[1] = <<"save", tag>> => Pends(todo, tag) /\ Now[1] \notin Settling
    <2> SUFFICES ASSUME NEW k \in 2..Len(todo), todo[k].steps[1] = <<"save", tag>>
                 PROVE  Pends(todo, tag) /\ Now[1] \notin Settling
      OBVIOUS
    <2>1. k \in 1..Len(todo) /\ 1 \in 1..(k - 1)
      BY <1>3
    <2>2. todo[k].steps[1] \in {"save"} \X Up
      OBVIOUS
    <2>3. \A j \in 1..(k - 1) : todo[j].steps[1][1] \notin Settling
      BY <2>1, <2>2 DEF Control, Shape
    <2> QED
      BY <1>3, <2>1, <2>3 DEF Pends
  <1>5. CASE todo' = Tail(todo)
    <2> DEFINE B == [steps : Runs(tags), err : Errs2(tags)]
    <2> HIDE DEF B
    <2>1. todo \in Seq(B) /\ todo # <<>>
      BY <1>3 DEF B
    <2>2. Len(todo') = Len(todo) - 1 /\ todo'[i] = todo[i + 1]
      BY <1>2, <1>5, <2>1
    <2>3. i + 1 \in 2..Len(todo)
      BY <1>2, <1>3, <2>2
    <2> QED
      BY <1>2, <1>4, <2>2, <2>3
  <1>6. CASE <<Now, Now'>> \in Follows /\ todo' # <<>> /\ todo' = [todo EXCEPT ![1].steps = Tail(@)]
    <2>1. Now' \notin {"save"} \X Up
      BY <1>6, FollowsSteps
    <2>2. todo'[1].steps = Tail(todo[1].steps)
      BY <1>3, <1>6
    <2>3. Now' = Head(todo'[1].steps)
      BY <1>6 DEF Now, Idle
    <2>4. Len(todo[1].steps) # 1
      <3>1. Now \notin Ends(tags)
        BY <1>6, FollowsAre DEF Ends, Single
      <3> QED
        BY <1>3, <3>1, RunHead
    <2>5. todo'[1].steps[1] = Now'
      BY <1>3, <2>2, <2>3, <2>4, RunTail
    <2>6. i # 1
      <3>1. <<"save", tag>> \in {"save"} \X Up
        OBVIOUS
      <3>2. todo'[1].steps[1] # <<"save", tag>>
        BY <2>1, <2>5, <3>1
      <3> QED
        BY <1>2, <3>2
    <2> DEFINE B == [steps : Runs(tags), err : Errs2(tags)]
    <2> HIDE DEF B
    <2>7. todo \in Seq(B)
      BY <1>3 DEF B
    <2>8. Len(todo') = Len(todo) /\ todo'[i] = todo[i]
      BY <1>2, <1>6, <2>6, <2>7
    <2> QED
      BY <1>2, <1>3, <1>4, <2>6, <2>8
  <1> QED
    BY <1>1, <1>5, <1>6, Moves DEF Skip


\* A save writes one of the states its operation may save.
LEMMA SaveTag ==
  ASSUME Control, SaveState
  PROVE  \E tag \in TagsOf(by) : Now = <<"save", tag>> /\ st' = Saved(tag) /\ tag \in Up \cup Down
  <1>1. PICK tag \in Up \cup Down : At("save", tag) /\ st' = Saved(tag)
    BY DEF SaveState, Up, Down
  <1>2. ~Idle /\ Now = <<"save", tag>> /\ Go /\ by' = by
    BY <1>1, AtNow DEF SaveState, kept
  <1>3. Now \in Ends(TagsOf(by))
    <2>1. CASE <<Now, Now'>> \in Follows
      BY <1>2, <2>1, FollowsSteps DEF Settling
    <2> QED
      BY <1>2, <2>1, Moves
  <1>4. tag \in TagsOf(by)
    BY <1>2, <1>3 DEF Ends, Single
  <1> QED
    BY <1>1, <1>2, <1>4

\* What a test in progress, or one that is about to be recorded, returns to.
Origin == <<before.node, before.mode>>
TestInv ==
    /\ st.test # None => <<st.test.node, st.test.mode>> = Origin
    /\ snap # None => snap.st.test = None
    /\ ~Idle /\ by = "auto" => st.test = None
    /\ ~Idle /\ by = "stoptest" => <<goal.node, goal.mode>> = Origin
    /\ Pends(todo, "test") => st.test # None \/ (by = "starttest" /\ <<st.node, st.mode>> = Origin)

\* The steps of an operation but its saves leave the recorded route.
LEMMA StepKeepsRoute ==
  ASSUME TypeInv, Step
  PROVE  SaveState \/ (st'.test = st.test /\ st'.node = st.node /\ st'.mode = st.mode /\ st'.via = st.via)
  <1>1. CASE ConnectPreserves
    <2>1. DOMAIN st = {"node", "mode", "conn", "via", "test"}
      BY DEF TypeInv, StateTypes
    <2> QED
      BY <1>1, <2>1 DEF ConnectPreserves
  <1>2. CASE ~ConnectPreserves /\ ~SaveState
    <2>1. st' = st
      BY <1>2 DEF Step, RequirePackage, RequireMarker, WriteMarker, StartService, StopService, BackupOriginal,
                  WriteManaged, RestoreOriginal, RemoveBackup, SyncConfig, RemoveMarker, StopProxy,
                  ConnectSucceeds, ConnectFails
    <2> QED
      BY <2>1
  <1> QED
    BY <1>1, <1>2

LEMMA TestStep ==
  ASSUME Control, TypeInv, TestInv, Step
  PROVE  /\ TestInv'
         /\ st.test # None /\ st'.test = None =>
               by # "auto" /\ (by = "stoptest" => <<st'.node, st'.mode>> = <<before.node, before.mode>>)
  <1>1. ~Idle /\ UNCHANGED <<before, by, goal, snap>>
    BY StepMoves DEF kept, past
  <1>2. Go \/ Skip \/ todo' \in Errs2(TagsOf(by))
    <2>1. Failed => todo' \in Errs2(TagsOf(by))
      BY <1>1, Moves
    <2>2. disconnectRuntime(<<>>) \o Save("marked", <<>>) \in Errs1(TagsOf(by))
      BY TagsAre, DownProgram DEF Down, Errs1
    <2> QED
      BY <2>1, <2>2, StepMoves, ErrsGrow
  <1>3. Pends(todo', "test") => Pends(todo, "test") /\ Now[1] \notin Settling
    BY <1>1, <1>2, PendsMoves DEF Up
  <1>4. CASE st'.test = st.test /\ st'.node = st.node /\ st'.mode = st.mode
    <2>1. Origin' = Origin
      BY <1>1 DEF Origin
    <2> QED
      BY <1>1, <1>3, <1>4, <2>1 DEF TestInv, Pends
  <1>5. CASE SaveState
    <2>1. PICK tag \in TagsOf(by) : Now = <<"save", tag>> /\ st' = Saved(tag) /\ tag \in Up \cup Down
      BY <1>5, SaveTag
    <2>2. /\ st'.test = IF tag = "test" THEN TestRestore ELSE None
          /\ tag \in {"connected", "marked"} => st'.node = goal.node /\ st'.mode = goal.mode
      BY <2>1, SavedFields DEF TypeInv, TypeOK
    <2>3. ~Pends(todo', "test")
      BY <1>3, <2>1 DEF Settling
    <2>4. by = "auto" => tag # "test"
      BY <2>1 DEF TagsOf
    <2>5. by = "stoptest" => tag \in {"connected", "marked"}
      BY <2>1 DEF TagsOf
    <2>6. Origin' = Origin
      BY <1>1 DEF Origin
    <2>7. tag = "test" /\ st'.test # None => <<st'.test.node, st'.test.mode>> = Origin
      <3> SUFFICES ASSUME tag = "test" PROVE <<TestRestore.node, TestRestore.mode>> = Origin
        BY <2>2
      <3>1. Pends(todo, "test")
        BY <1>1, <2>1, NowIs DEF Pends
      <3>2. CASE st.test # None
        BY <3>2 DEF TestRestore, TestInv
      <3>3. CASE st.test = None
        BY <3>1, <3>3, CurrentRoute DEF TestRestore, TestInv, TypeInv
      <3> QED
        BY <3>2, <3>3
    <2>8. TestInv'
      BY <1>1, <2>2, <2>3, <2>4, <2>6, <2>7 DEF TestInv, Pends
    <2> QED
      BY <1>1, <2>2, <2>5, <2>8 DEF TestInv, Origin
  <1> QED
    BY <1>4, <1>5, StepKeepsRoute

LEMMA TestNext ==
  ASSUME Control, TypeInv, TestInv, [Next]_vars
  PROVE  /\ TestInv'
         /\ st.test # None /\ st'.test = None =>
               by # "auto" /\ (by = "stoptest" => <<st'.node, st'.mode>> = <<before.node, before.mode>>)
  <1>1. CASE Step
    BY <1>1, TestStep
  <1>2. CASE CallFails
    <2>1. ~Idle /\ UNCHANGED <<st, before, by, goal, snap>> /\ Failed
      BY <1>2 DEF CallFails, past
    <2>2. todo' \in Errs2(TagsOf(by))
      BY <2>1, Moves
    <2>3. ~Pends(todo', "test")
      BY <2>2, ErrsNoUp DEF Up
    <2> QED
      BY <2>1, <2>3 DEF TestInv, Pends, Origin
  <1>3. CASE Kill \/ Reboot
    <2>1. todo' = <<>> /\ UNCHANGED <<st, before, by, goal>> /\ (snap' = snap \/ snap' = None)
      BY <1>3 DEF Kill, Reboot, past
    <2> QED
      BY <2>1 DEF TestInv, Pends, Origin, Idle
  <1>4. CASE Starting
    <2>1. PICK who : by' = who /\ Program(todo', who)
      BY <1>4, Begins
    <2>2. /\ UNCHANGED st /\ (snap' = snap \/ snap' = None)
          /\ by' = "starttest" => st.test = None /\ before' = Current
          /\ by' # "starttest" => before' = before
          /\ by' = "stoptest" => st.test # None /\ goal' = st.test
          /\ by' = "auto" => snap # None /\ Fresh
      BY <1>4, StartingKeeps
    <2>3. Pends(todo', "test") => st.test # None \/ by' = "starttest"
      BY <2>1 DEF Program
    <2>4. Current.node = st.node /\ Current.mode = st.mode
      BY CurrentRoute DEF TypeInv
    <2>5. by' = "auto" => st.test = None
      <3>1. snap = [st |-> st, cfg |-> cfg] => snap.st = st
        OBVIOUS
      <3> QED
        BY <2>2, <3>1 DEF Fresh, TestInv
    <2>6. by' = "starttest" => Origin' = <<st.node, st.mode>>
      BY <2>2, <2>4 DEF Origin
    <2>7. by' # "starttest" => Origin' = Origin
      BY <2>2 DEF Origin
    <2> QED
      BY <2>2, <2>3, <2>5, <2>6, <2>7 DEF TestInv, Pends
  <1>5. CASE AutoPrepare
    <2>1. UNCHANGED <<st, todo, by, goal, before>> /\ st.test = None /\ snap' = [st |-> st, cfg |-> cfg]
      BY <1>5 DEF AutoPrepare, past
    <2>2. snap'.st = st
      BY <2>1
    <2> QED
      BY <2>1, <2>2 DEF TestInv, Pends, Origin, Idle
  <1>6. CASE (\E f \in Files : UserEdits(f)) \/ AutoDropped \/ UNCHANGED vars
    <2>1. UNCHANGED <<st, todo, by, goal, before>> /\ (snap' = snap \/ snap' = None)
      BY <1>6 DEF UserEdits, AutoDropped, vars, past
    <2> QED
      BY <2>1 DEF TestInv, Pends, Origin, Idle
  <1> QED
    BY <1>1, <1>2, <1>3, <1>4, <1>5, <1>6 DEF Next, Starting

\* The automatic loop never ends a test: autoSelectionSnapshotCurrentLocked drops what it
\* read before the test began.  And StopZapretTest, also after a restart and whatever else
\* was done meanwhile, leaves the node and the mode the test was started over.
THEOREM TestReturnsTheorem == Spec => TestReturns
  <1>1. Init => TestInv
    <2> SUFFICES ASSUME Init PROVE TestInv
      OBVIOUS
    <2>1. st.test = None /\ snap = None /\ todo = <<>>
      BY WithFields DEF Init
    <2> QED
      BY <2>1 DEF TestInv, Pends, Idle
  <1>2. Control /\ TypeInv /\ TestInv /\ [Next]_vars =>
            /\ TestInv'
            /\ [st.test # None /\ st'.test = None =>
                  /\ by # "auto"
                  /\ by = "stoptest" => <<st'.node, st'.mode>> = <<before.node, before.mode>>]_vars
    BY TestNext
  <1> QED
    BY <1>1, <1>2, ControlAlways, TypesAlways, PTL DEF Spec, TestReturns


-------------------------------------------------------------------------------
(* The transport. *)

\* A state that says Zapret is still to be saved, and the states a program ends with.
Rises(p) == \E i \in 1..Len(p) : p[i].steps[1] \in {"save"} \X Up
EndsIn(p, tags) == p # <<>> /\ p[Len(p)].steps[1] \in {"save"} \X tags

LEMMA TailFacts ==
  ASSUME NEW S, NEW p \in Seq(S), p # <<>>
  PROVE  /\ Tail(p) \in Seq(S) /\ Len(Tail(p)) = Len(p) - 1 /\ Len(p) \in Nat \ {0}
         /\ \A i \in 1..(Len(p) - 1) : Tail(p)[i] = p[i + 1]
         /\ Tail(p) = <<>> <=> Len(p) = 1
  <1>1. /\ Tail(p) \in Seq(S) /\ Len(Tail(p)) = Len(p) - 1 /\ Len(p) \in Nat \ {0}
        /\ \A i \in 1..(Len(p) - 1) : Tail(p)[i] = p[i + 1]
    OBVIOUS
  <1>2. Tail(p) = <<>> <=> Len(Tail(p)) = 0
    BY <1>1, EmptySeq
  <1> QED
    BY <1>1, <1>2

\* Where the operation in progress stands.
LEMMA Position ==
  ASSUME Control, ~Idle
  PROVE  /\ Now \in Applying => Rises(todo) /\ ~EndsIn(todo, Down) /\ Guarded(todo) /\ Tail(todo) # <<>>
         /\ Now \in {"save"} \X Up => Rises(todo) /\ Tail(todo) = <<>>
         /\ Now \in Disabling \/ Now \in Lowering => ~Rises(todo)
         /\ EndsIn(todo, Up \cup Down) /\ ~Rises(todo) => EndsIn(todo, Down)
         /\ Now \in Lowering => EndsIn(todo, Down) /\ ~Guarded(todo)
         /\ EndsIn(todo, Up \cup Down) /\ Now[1] # "save" => Tail(todo) # <<>>
  <1> DEFINE B == [steps : Runs(TagsOf(by)), err : Errs2(TagsOf(by))]
             n == Len(todo)
  <1>1. todo # <<>> /\ n \in Nat \ {0} /\ Now = todo[1].steps[1] /\ todo \in Seq(B) /\ 1 \in 1..n /\ n \in 1..n
    BY NowIs
  <1>2. Shape(todo, TagsOf(by))
    BY DEF Control
  <1> HIDE DEF B
  <1>3. Len(Tail(todo)) = n - 1 /\ (n = 1 => Tail(todo) = <<>>) /\ (n # 1 => Tail(todo) # <<>>)
    BY <1>1, TailFacts
  <1>4. \A c \in {"save"} \X Up : c \notin Lowering /\ c \notin {"save"} \X Down
    BY DEF Lowering, Up, Down
  <1>5. \A c \in Lowering : c[1] \in Settling
    BY DEF Lowering, Settling
  <1>6. ASSUME Now \in Applying
        PROVE  Rises(todo) /\ ~EndsIn(todo, Down) /\ Guarded(todo) /\ Tail(todo) # <<>>
    <2>1. n = 2 /\ todo[2].steps[1] \in {"save"} \X Up
      <3>1. 1 + 1 = n /\ todo[1 + 1].steps[1] \in {"save"} \X Up
        BY <1>1, <1>2, <1>6 DEF Shape
      <3>2. 1 + 1 = 2
        OBVIOUS
      <3> QED
        BY <3>1, <3>2
    <2>2. Now \notin Lowering
      BY <1>6 DEF Applying, Lowering
    <2>3. \A i \in 1..n : i = 1 \/ i = 2
      BY <2>1
    <2>4. Guarded(todo)
      BY <1>1, <1>4, <2>1, <2>2, <2>3 DEF Guarded
    <2>5. 2 \in 1..n
      BY <2>1
    <2>6. Rises(todo) /\ ~EndsIn(todo, Down)
      BY <1>4, <2>1, <2>5 DEF Rises, EndsIn
    <2> QED
      BY <1>3, <2>1, <2>4, <2>6
  <1>7. ASSUME Now \in {"save"} \X Up
        PROVE  Rises(todo) /\ Tail(todo) = <<>>
    <2>1. n = 1
      BY <1>1, <1>2, <1>7 DEF Shape
    <2> QED
      BY <1>1, <1>3, <1>7, <2>1 DEF Rises
  <1>8. ASSUME Now \in Disabling \/ Now \in Lowering
        PROVE  ~Rises(todo)
    <2> SUFFICES ASSUME NEW i \in 1..n, todo[i].steps[1] \in {"save"} \X Up PROVE FALSE
      BY DEF Rises
    <2>1. \A j \in 1..(i - 1) : todo[j].steps[1][1] \notin Settling /\ todo[j].steps[1] \notin Disabling
      BY <1>2 DEF Shape
    <2>2. \A c \in {"save"} \X Up : c \notin Disabling
      BY DEF Disabling
    <2>3. i # 1
      BY <1>1, <1>4, <1>8, <2>2
    <2>4. 1 \in 1..(i - 1)
      BY <1>1, <2>3
    <2> QED
      BY <1>1, <1>5, <1>8, <2>1, <2>4
  <1>9. EndsIn(todo, Up \cup Down) /\ ~Rises(todo) => EndsIn(todo, Down)
    BY <1>1 DEF EndsIn, Rises
  <1>10. ASSUME Now \in Lowering
         PROVE  EndsIn(todo, Down) /\ ~Guarded(todo)
    <2>1. EndsIn(todo, Up \cup Down)
      BY <1>1, <1>2, <1>5, <1>10 DEF Shape, EndsIn
    <2>2. ~Guarded(todo)
      <3>1. ~\E j \in 1..(1 - 1) : todo[j].steps[1] \in Disabling
        OBVIOUS
      <3> QED
        BY <1>1, <1>10, <3>1 DEF Guarded
    <2> QED
      BY <1>8, <1>9, <1>10, <2>1, <2>2
  <1>11. EndsIn(todo, Up \cup Down) /\ Now[1] # "save" => Tail(todo) # <<>>
    BY <1>1, <1>3 DEF EndsIn
  <1> QED
    BY <1>6, <1>7, <1>8, <1>9, <1>10, <1>11

\* The next block.
LEMMA TailMoves ==
  ASSUME Control, ~Idle, by' = by, todo' = Tail(todo)
  PROVE  /\ Rises(todo') => Rises(todo)
         /\ Guarded(todo) /\ Now \notin Disabling => Guarded(todo')
         /\ \A tags : EndsIn(todo, tags) /\ Tail(todo) # <<>> => EndsIn(todo', tags)
         /\ Now' \in {"save"} \X Up => Now \in Applying
         /\ Now \in Applying => Now' \in {"save"} \X Up
         /\ Now[1] = "connect" => Now' \in {"save"} \X Down
  <1> DEFINE B == [steps : Runs(TagsOf(by)), err : Errs2(TagsOf(by))]
             n == Len(todo)
             q == Tail(todo)
  <1>1. todo # <<>> /\ n \in Nat \ {0} /\ Now = todo[1].steps[1] /\ todo \in Seq(B) /\ 1 \in 1..n
    BY NowIs
  <1>2. Shape(todo, TagsOf(by))
    BY DEF Control
  <1>3. todo' # <<>> => Now' = todo'[1].steps[1]
    <2>1. Control'
      BY Moves DEF Skip
    <2> QED
      BY <2>1, NowIsNext
  <1> HIDE DEF B
  <1>4. /\ q \in Seq(B) /\ Len(q) = n - 1 /\ (\A i \in 1..(n - 1) : q[i] = todo[i + 1] /\ i + 1 \in 2..n)
        /\ q # <<>> => n - 1 \in 1..(n - 1) /\ 1 \in 1..(n - 1) /\ 2 \in 2..n
        /\ n # 1 => q # <<>> /\ q[1] = todo[2]
    <2>1. q \in Seq(B) /\ Len(q) = n - 1 /\ (\A i \in 1..(n - 1) : q[i] = todo[i + 1]) /\ (q = <<>> <=> n = 1)
      BY <1>1, TailFacts
    <2> HIDE DEF q
    <2>4. n \in Nat \ {0}
      BY <1>1
    <2> HIDE DEF n
    <2>2. \A i \in 1..(n - 1) : i + 1 \in 2..n
      BY <2>4
    <2>3. n # 1 => n - 1 \in 1..(n - 1) /\ 1 \in 1..(n - 1) /\ 2 \in 2..n /\ 1 + 1 = 2
      BY <2>4
    <2> QED
      BY <2>1, <2>2, <2>3
  <1>5. todo' = q
    OBVIOUS
  <1> HIDE DEF q
  <1>6. ASSUME Rises(todo') PROVE Rises(todo)
    <2>1. PICK i \in 1..(n - 1) : q[i].steps[1] \in {"save"} \X Up
      BY <1>4, <1>5, <1>6 DEF Rises
    <2>2. i + 1 \in 1..n
      BY <1>1, <1>4
    <2> QED
      BY <1>4, <2>1, <2>2 DEF Rises
  <1>7. ASSUME Guarded(todo), Now \notin Disabling PROVE Guarded(todo')
    <2> SUFFICES ASSUME NEW i \in 1..(n - 1), q[i].steps[1] \in Lowering
                 PROVE  \E j \in 1..(i - 1) : q[j].steps[1] \in Disabling
      BY <1>4, <1>5 DEF Guarded
    <2>1. i + 1 \in 1..n /\ todo[i + 1].steps[1] \in Lowering
      BY <1>1, <1>4
    <2>2. PICK j \in 1..((i + 1) - 1) : todo[j].steps[1] \in Disabling
      BY <1>7, <2>1 DEF Guarded
    <2>3. j # 1
      BY <1>1, <1>7, <2>2
    <2>4. j - 1 \in 1..(i - 1) /\ j - 1 \in 1..(n - 1) /\ (j - 1) + 1 = j
      BY <1>1, <2>3
    <2> QED
      BY <1>4, <2>2, <2>4
  <1>8. ASSUME NEW tags, EndsIn(todo, tags), q # <<>> PROVE EndsIn(todo', tags)
    <2>1. (n - 1) + 1 = n
      BY <1>1
    <2>2. q[Len(q)] = todo[n]
      BY <1>4, <1>8, <2>1
    <2> QED
      BY <1>5, <1>8, <2>2 DEF EndsIn
  <1>9. ASSUME Now' \in {"save"} \X Up PROVE Now \in Applying
    <2>1. todo' # <<>>
      BY <1>9 DEF Now, Idle, Resting
    <2>2. n # 1
      BY <1>1, <1>4, <1>5, <2>1
    <2>3. 2 \in 2..n /\ todo[2].steps[1] \in {"save"} \X Up
      BY <1>3, <1>4, <1>5, <1>9, <2>1, <2>2
    <2>4. todo[2 - 1].steps[1] \in Applying
      BY <1>2, <2>3 DEF Shape, Prepared
    <2>5. 2 - 1 = 1
      OBVIOUS
    <2> QED
      BY <1>1, <2>4, <2>5
  <1>10. ASSUME Now \in Applying PROVE Now' \in {"save"} \X Up
    <2>1. 1 + 1 = n /\ todo[1 + 1].steps[1] \in {"save"} \X Up
      BY <1>1, <1>2, <1>10 DEF Shape
    <2>2. n = 2 /\ 1 + 1 = 2
      BY <2>1
    <2> QED
      BY <1>3, <1>4, <1>5, <2>1, <2>2
  <1>11. ASSUME Now[1] = "connect" PROVE Now' \in {"save"} \X Down
    <2>1. 1 < n /\ todo[1 + 1].steps[1] \in {"save"} \X Down
      BY <1>1, <1>2, <1>11 DEF Shape, Linked
    <2>2. n # 1 /\ 1 + 1 = 2
      BY <2>1
    <2> QED
      BY <1>3, <1>4, <1>5, <2>1, <2>2
  <1> QED
    BY <1>5, <1>6, <1>7, <1>8, <1>9, <1>10, <1>11 DEF q


\* The next step of the block.
LEMMA StepInBlock ==
  ASSUME Control, ~Idle, by' = by, todo' = [todo EXCEPT ![1].steps = Tail(@)], todo' # <<>>,
         <<Now, Now'>> \in Follows, Control'
  PROVE  /\ Rises(todo') => Rises(todo)
         /\ Guarded(todo) => Guarded(todo')
         /\ \A tags : EndsIn(todo, tags) => EndsIn(todo', tags)
         /\ Now' \notin {"save"} \X Up
  <1> DEFINE B == [steps : Runs(TagsOf(by)), err : Errs2(TagsOf(by))]
             n == Len(todo)
  <1>1. todo # <<>> /\ n \in Nat \ {0} /\ Now = todo[1].steps[1] /\ todo \in Seq(B) /\ 1 \in 1..n
    BY NowIs
  <1>2. Now' = todo'[1].steps[1]
    BY NowIsNext
  <1> HIDE DEF B
  <1>3. Len(todo') = n /\ \A i \in 1..n : i # 1 => todo'[i] = todo[i]
    BY <1>1
  <1> DEFINE a == Now
             b == Now'
  <1> HIDE DEF a, b
  <1>4. /\ a[1] \notin Settling /\ b[1] \notin Settling /\ b \notin {"save"} \X Up
        /\ a \in Disabling <=> b \in Disabling
    <2>1. <<a, b>> \in Follows
      BY DEF a, b
    <2> QED
      BY <2>1, FollowsSteps
  <1>5. a = todo[1].steps[1] /\ b = todo'[1].steps[1]
    BY <1>1, <1>2 DEF a, b
  <1>6. \A c \in Lowering : c[1] \in Settling
    BY DEF Lowering, Settling
  <1>7. Rises(todo') => Rises(todo)
    BY <1>3, <1>4, <1>5 DEF Rises
  <1>8. ASSUME Guarded(todo) PROVE Guarded(todo')
    <2> SUFFICES ASSUME NEW i \in 1..n, todo'[i].steps[1] \in Lowering
                 PROVE  \E j \in 1..(i - 1) : todo'[j].steps[1] \in Disabling
      BY <1>3 DEF Guarded
    <2>1. i # 1
      BY <1>4, <1>5, <1>6
    <2>2. todo[i].steps[1] \in Lowering
      BY <1>3, <2>1
    <2>3. PICK j \in 1..(i - 1) : todo[j].steps[1] \in Disabling
      BY <1>8, <2>2 DEF Guarded
    <2>4. j \in 1..n
      BY <1>1
    <2>5. todo'[j].steps[1] \in Disabling
      BY <1>3, <1>4, <1>5, <2>3, <2>4
    <2> QED
      BY <2>5
  <1>9. ASSUME NEW tags, EndsIn(todo, tags) PROVE EndsIn(todo', tags)
    <2>1. \A c \in {"save"} \X tags : c[1] \in Settling
      BY DEF Settling
    <2>2. n # 1 /\ n \in 1..n
      BY <1>1, <1>4, <1>5, <1>9, <2>1 DEF EndsIn
    <2>3. todo'[n] = todo[n]
      BY <1>3, <2>2
    <2> QED
      BY <1>3, <1>9, <2>3 DEF EndsIn
  <1> QED
    BY <1>4, <1>7, <1>8, <1>9 DEF b

LEMMA GoMoves ==
  ASSUME Control, ~Idle, by' = by, Go
  PROVE  /\ Rises(todo') => Rises(todo)
         /\ Guarded(todo) /\ Now # <<"unmark", "managed">> => Guarded(todo')
         /\ \A tags \in {Down, Up \cup Down} : EndsIn(todo, tags) /\ Now[1] # "save" => EndsIn(todo', tags)
         /\ EndsIn(todo, Up \cup Down) /\ todo' # <<>> => EndsIn(todo', Up \cup Down)
         /\ Now' \in {"save"} \X Up => Now = <<"service", "start">>
         /\ Now = <<"service", "start">> => Now' \in {"save"} \X Up
         /\ Now[1] = "connect" => Now' \in {"save"} \X Down
         /\ Now \in {"save"} \X Up => todo' = <<>>
         /\ todo' # <<>> \/ todo' = Tail(todo)
  <1>0. \/ Now \in Ends(TagsOf(by)) /\ todo' = Tail(todo)
        \/ <<Now, Now'>> \in Follows /\ todo' # <<>> /\ todo' = [todo EXCEPT ![1].steps = Tail(@)]
    BY Moves
  <1>1. CASE Now \in Ends(TagsOf(by)) /\ todo' = Tail(todo)
    <2>1. Now \in Applying => Now = <<"service", "start">>
      BY <1>1 DEF Applying, Ends, Single
    <2>2. Now \in Disabling => Now = <<"unmark", "managed">>
      BY <1>1 DEF Disabling, Ends, Single
    <2>3. \A tags \in {Down, Up \cup Down} : EndsIn(todo, tags) => EndsIn(todo, Up \cup Down)
      BY DEF EndsIn
    <2>4. Now = <<"service", "start">> => Now \in Applying
      BY DEF Applying
    <2> QED
      BY <1>1, <2>1, <2>2, <2>3, <2>4, Position, TailMoves
  <1>2. CASE <<Now, Now'>> \in Follows /\ todo' # <<>> /\ todo' = [todo EXCEPT ![1].steps = Tail(@)]
    <2>1. Control'
      BY Moves
    <2>2. /\ Rises(todo') => Rises(todo)
          /\ Guarded(todo) => Guarded(todo')
          /\ \A tags : EndsIn(todo, tags) => EndsIn(todo', tags)
          /\ Now' \notin {"save"} \X Up
      BY <1>2, <2>1, StepInBlock
    <2> DEFINE a == Now
               b == Now'
    <2> HIDE DEF a, b
    <2>3. <<a, b>> \in Follows
      BY <1>2 DEF a, b
    <2>4. a[1] \notin Settling /\ a # <<"service", "start">>
      BY <2>3, FollowsSteps, FollowsAre
    <2>5. a \notin {"save"} \X Up /\ a[1] # "connect"
      BY <2>4 DEF Settling
    <2> QED
      BY <1>2, <2>2, <2>4, <2>5 DEF a
  <1> QED
    BY <1>0, <1>1, <1>2

\* An error path.
LEMMA ErrsMoves ==
  ASSUME NEW tags, todo' \in Errs2(tags)
  PROVE  /\ ~Rises(todo') /\ (todo' # <<>> => EndsIn(todo', Down))
         /\ Now' \notin {"save"} \X Up /\ Now' \notin Applying
  <1> DEFINE B == [steps : Handling(tags), err : Errs1(tags)]
             p == todo'
  <1>1. p \in Seq(B) /\ (p # <<>> => p[Len(p)].steps[1] \in {"save"} \X Down)
    BY DEF Errs2, Errs
  <1>2. ASSUME NEW i \in 1..Len(p)
        PROVE  /\ p[i].steps[1] \notin {"save"} \X Up /\ p[i].steps[1] \notin Applying
               /\ p[i].steps \in Runs(tags)
    <2>1. p[i] \in B
      <3> HIDE DEF B
      <3> QED
        BY <1>1, ElementOfSeq
    <2> QED
      BY <2>1, HandlingRuns
  <1>3. ~Rises(todo')
    BY <1>2 DEF Rises
  <1>4. CASE p = <<>>
    <2>1. Now' = <<"none", "none">>
      BY <1>4 DEF Now, Idle, Resting
    <2> QED
      BY <1>3, <1>4, <2>1 DEF Applying
  <1>5. CASE p # <<>>
    <2>1. 1 \in 1..Len(p)
      <3> HIDE DEF B
      <3> QED
        BY <1>1, <1>5
    <2>2. Head(p[1].steps) = p[1].steps[1]
      BY <1>2, <2>1, RunHead
    <2>3. Now' = p[1].steps[1]
      BY <1>5, <2>2 DEF Now, Idle
    <2> QED
      BY <1>1, <1>2, <1>3, <1>5, <2>1, <2>3 DEF EndsIn
  <1> QED
    BY <1>4, <1>5


\* Something ended early and left what the state does not say.
Flagged == odd \cap {"unrecorded", "partial"} # {}
Live == st.via = "zapret" /\ st.conn /\ st.node # None
UpSave == {"save"} \X Up
DownSave == {"save"} \X Down

\* How far an operation has come between the proxy and Zapret, and what the state says.
TransportInv ==
    /\ marker \/ (Now \in Applying /\ Now # <<"require", "package">>) => pkg
    /\ marker /\ st.via # "zapret" => Flagged \/ (proxy # "on" /\ (Now = <<"service", "start">> \/ Now \in UpSave))
    /\ st.via = "zapret" /\ proxy = "on" => "partial" \in odd \/ Now \in DownSave
    /\ Rises(todo) => proxy # "on" \/ "partial" \in odd \/ Now = <<"stop", "firewall">>
    /\ marker /\ st.via = "zapret" /\ ~Flagged => Guarded(todo)
    /\ Now = <<"service", "start">> => marker
    /\ Now \in UpSave => marker /\ svc
    /\ proxy = "on" /\ marker /\ svc => Flagged
    /\ Live => (marker /\ svc /\ proxy # "on") \/ odd \cap {"partial", "failback"} # {} \/ EndsIn(todo, Down)
    /\ todo # <<>> => EndsIn(todo, Up \cup Down) \/ ~(st.conn /\ st.node # None)

\* An operation that ends early and says so.
LEMMA TransportEnds ==
  ASSUME TransportInv, UNCHANGED <<marker, pkg, st>>, NEW tags, todo' \in Errs2(tags),
         st.via = "zapret" => "partial" \in odd', st.via # "zapret" /\ marker => "unrecorded" \in odd'
  PROVE  TransportInv'
  <1>1. /\ ~Rises(todo') /\ (todo' # <<>> => EndsIn(todo', Down)) /\ Now' \notin UpSave /\ Now' \notin Applying
    BY ErrsMoves DEF UpSave
  <1>2. Now' # <<"service", "start">>
    BY <1>1 DEF Applying
  <1>3. EndsIn(todo', Down) => EndsIn(todo', Up \cup Down)
    BY DEF EndsIn
  <1>4. /\ marker => pkg
        /\ marker' = marker /\ pkg' = pkg /\ st' = st
    BY DEF TransportInv
  <1>5. /\ st.via = "zapret" => Flagged' /\ "partial" \in odd' /\ (odd \cap {"partial", "failback"})' # {}
        /\ st.via # "zapret" /\ marker => Flagged'
    BY DEF Flagged
  <1>6. Live' => st.via = "zapret"
    BY DEF Live
  <1> QED
    BY <1>1, <1>2, <1>3, <1>4, <1>5, <1>6 DEF TransportInv

\* A step inside a block that leaves the transports alone.
LEMMA TransportQuiet ==
  ASSUME Control, TransportInv, ~Idle, by' = by, Go, UNCHANGED <<marker, svc, proxy, st, pkg, odd>>,
         Now[1] \notin {"save", "connect"}, Now # <<"service", "start">>, Now # <<"unmark", "managed">>,
         Now # <<"stop", "firewall">>, Now' # <<"service", "start">>,
         Now' \in Applying => pkg
  PROVE  TransportInv'
  <1>1. Now \notin UpSave /\ Now \notin DownSave
    BY DEF UpSave, DownSave
  <1>2. /\ Rises(todo') => Rises(todo)
        /\ Guarded(todo) => Guarded(todo')
        /\ EndsIn(todo, Down) => EndsIn(todo', Down)
        /\ EndsIn(todo, Up \cup Down) => EndsIn(todo', Up \cup Down)
        /\ Now' \notin UpSave
        /\ todo' # <<>> => todo # <<>>
    BY GoMoves DEF UpSave, Idle
  <1>3. (Flagged' <=> Flagged) /\ (Live' <=> Live)
    BY DEF Flagged, Live
  <1> QED
    BY <1>1, <1>2, <1>3 DEF TransportInv


LEMMA LeavesFlags ==
  /\ st.via = "zapret" => "partial" \in Leaves
  /\ st.via # "zapret" /\ marker => "unrecorded" \in Leaves
  BY DEF Leaves

\* Disable takes Zapret down only in operations that record another transport.
LEMMA DisablesForDown ==
  ASSUME Control, TransportInv, ~Idle, Now \in Disabling
  PROVE  ~Rises(todo) /\ (Live => EndsIn(todo, Down))
  <1>1. todo # <<>>
    BY DEF Idle
  <1>2. Live => EndsIn(todo, Up \cup Down)
    BY <1>1 DEF TransportInv, Live
  <1> QED
    BY <1>2, Position

LEMMA TransportFiles ==
  ASSUME Control, TransportInv, NEW f \in Files,
         BackupOriginal(f) \/ WriteManaged(f) \/ RestoreOriginal(f) \/ RemoveBackup(f)
  PROVE  TransportInv'
  <1>1. /\ ~Idle /\ by' = by /\ Go /\ UNCHANGED <<marker, svc, proxy, st, pkg, odd>>
        /\ Now \in {"backup", "write", "restore", "unbackup"} \X Files
    BY AtNow DEF BackupOriginal, WriteManaged, RestoreOriginal, RemoveBackup, kept, past
  <1>2. /\ Now[1] \notin {"save", "connect"} /\ Now # <<"service", "start">> /\ Now # <<"unmark", "managed">>
        /\ Now # <<"stop", "firewall">> /\ Now # <<"require", "package">>
    BY <1>1
  <1>3. CASE Now \in {"backup", "write"} \X Files
    <2>1. pkg
      BY <1>2, <1>3 DEF TransportInv, Applying
    <2>2. \/ Now = <<"backup", "hostlist">> \/ Now = <<"backup", "iplist">> \/ Now = <<"backup", "config">>
          \/ Now = <<"write", "hostlist">> \/ Now = <<"write", "iplist">> \/ Now = <<"write", "config">>
      BY <1>3 DEF Files
    <2>3. Now' # <<"service", "start">>
      BY <1>1, <2>2, GoFrom
    <2> QED
      BY <1>1, <1>2, <2>1, <2>3, TransportQuiet
  <1>4. CASE Now \in {"restore", "unbackup"} \X Files
    <2>2. \/ Now = <<"restore", "hostlist">> \/ Now = <<"restore", "iplist">> \/ Now = <<"restore", "config">>
          \/ Now = <<"unbackup", "hostlist">> \/ Now = <<"unbackup", "iplist">> \/ Now = <<"unbackup", "config">>
      BY <1>4 DEF Files
    <2>3. Now' # <<"service", "start">> /\ Now' \notin Applying
      BY <1>1, <2>2, GoFrom DEF Applying
    <2> QED
      BY <1>1, <1>2, <2>3, TransportQuiet
  <1> QED
    BY <1>1, <1>3, <1>4

LEMMA TransportRequires ==
  ASSUME Control, TransportInv, RequirePackage \/ RequireMarker
  PROVE  TransportInv'
  <1>1. CASE RequirePackage
    <2>1. /\ ~Idle /\ by' = by /\ Now = <<"require", "package">> /\ UNCHANGED <<marker, svc, proxy, st, pkg, odd>>
          /\ (pkg /\ Go) \/ (~pkg /\ Failed)
      BY <1>1, AtNow DEF RequirePackage, world, disk, kept, past
    <2>2. CASE pkg /\ Go
      <3>1. Now' = <<"backup", "hostlist">>
        BY <2>1, <2>2, GoFrom
      <3> QED
        BY <2>1, <2>2, <3>1, TransportQuiet
    <2>3. CASE ~pkg /\ Failed
      <3>1. todo' \in Errs2(TagsOf(by))
        BY <2>1, <2>3, Moves
      <3>2. /\ ~Rises(todo') /\ (todo' # <<>> => EndsIn(todo', Down)) /\ Now' \notin UpSave /\ Now' \notin Applying
        BY <3>1, ErrsMoves DEF UpSave
      <3>3. Now' # <<"service", "start">> /\ Now \notin DownSave
        BY <2>1, <3>2 DEF Applying, DownSave
      <3>4. ~marker /\ ~EndsIn(todo, Down)
        BY <2>1, <2>3, Position DEF TransportInv, Applying
      <3>5. (Flagged' <=> Flagged) /\ (Live' <=> Live) /\ (EndsIn(todo', Down) => EndsIn(todo', Up \cup Down))
        BY <2>1 DEF Flagged, Live, EndsIn
      <3> QED
        BY <2>1, <3>2, <3>3, <3>4, <3>5 DEF TransportInv
    <2> QED
      BY <2>1, <2>2, <2>3
  <1>2. CASE RequireMarker
    <2>1. /\ ~Idle /\ by' = by /\ Now = <<"require", "marker">> /\ UNCHANGED <<marker, svc, proxy, st, pkg, odd>>
          /\ (marker /\ Go) \/ (~marker /\ Skip)
      BY <1>2, AtNow DEF RequireMarker, world, disk, kept, past
    <2>2. CASE marker /\ Go
      <3>1. Now' = <<"service", "stop">>
        BY <2>1, <2>2, GoFrom
      <3>2. Now' \notin Applying
        BY <3>1 DEF Applying
      <3> QED
        BY <2>1, <2>2, <3>1, <3>2, TransportQuiet
    <2>3. CASE ~marker /\ Skip
      <3>1. todo' = Tail(todo)
        BY <2>3 DEF Skip
      <3>2. Now \in Disabling /\ Now \notin Applying /\ Now \notin DownSave
        BY <2>1 DEF Disabling, Applying, DownSave
      <3>3. ~Rises(todo) /\ (Live => EndsIn(todo, Down))
        BY <2>1, <3>2, DisablesForDown
      <3>4. ~Rises(todo') /\ Now' \notin UpSave
        BY <2>1, <3>1, <3>2, <3>3, TailMoves DEF UpSave
      <3>5. /\ EndsIn(todo, Down) => EndsIn(todo, Up \cup Down)
            /\ EndsIn(todo, Up \cup Down) => Tail(todo) # <<>>
        BY <2>1, Position DEF EndsIn
      <3>6. \A tags \in {Down, Up \cup Down} : EndsIn(todo, tags) => EndsIn(todo', tags)
        BY <2>1, <3>1, <3>5, TailMoves
      <3>7. Now' \in Fresh0(TagsOf(by))
        BY <2>1, <2>3, Turns
      <3>8. Now' # <<"service", "start">> /\ (Now' \in Applying => Now' = <<"require", "package">>)
        BY <3>7 DEF Fresh0, Starts, Single, Applying, Resting
      <3>9. (Flagged' <=> Flagged) /\ (Live' <=> Live) /\ todo # <<>>
        BY <2>1 DEF Flagged, Live, Idle
      <3> QED
        BY <2>1, <2>3, <3>2, <3>3, <3>4, <3>6, <3>8, <3>9 DEF TransportInv
    <2> QED
      BY <2>1, <2>2, <2>3
  <1> QED
    BY <1>1, <1>2

LEMMA TransportApplies ==
  ASSUME Control, TransportInv, SyncConfig \/ WriteMarker \/ StartService
  PROVE  TransportInv'
  <1>1. CASE SyncConfig
    <2>1. /\ ~Idle /\ by' = by /\ Now = <<"write", "config">> /\ UNCHANGED <<marker, svc, proxy, st, pkg>>
          /\ (Go /\ odd' = odd) \/ (Failed /\ odd' = odd \cup Leaves)
      BY <1>1, AtNow DEF SyncConfig, kept, past
    <2>2. CASE Go /\ odd' = odd
      <3>1. Now' = <<"write", "hostlist">>
        BY <2>1, <2>2, GoFrom
      <3>2. pkg
        BY <2>1 DEF TransportInv, Applying, Files
      <3> QED
        BY <2>1, <2>2, <3>1, <3>2, TransportQuiet
    <2>3. CASE Failed /\ odd' = odd \cup Leaves
      BY <2>1, <2>3, Moves, LeavesFlags, TransportEnds
    <2> QED
      BY <2>1, <2>2, <2>3
  <1>2. CASE WriteMarker
    <2>1. /\ ~Idle /\ by' = by /\ Now = <<"mark", "managed">> /\ UNCHANGED <<svc, proxy, st, pkg, odd>>
          /\ Go /\ marker'
      BY <1>2, AtNow DEF WriteMarker, kept, past
    <2>2. Now' = <<"service", "start">> /\ Now \in Applying
      BY <2>1, GoFrom DEF Applying
    <2>3. Now' \notin UpSave /\ Now \notin DownSave
      BY <2>1, <2>2 DEF UpSave, DownSave
    <2>4. Rises(todo) /\ ~EndsIn(todo, Down) /\ Guarded(todo)
      BY <2>1, <2>2, Position
    <2>5. Guarded(todo') /\ (EndsIn(todo, Up \cup Down) => EndsIn(todo', Up \cup Down)) /\ todo # <<>>
      BY <2>1, <2>4, GoMoves DEF Idle
    <2>6. pkg /\ (proxy # "on" \/ "partial" \in odd)
      BY <2>1, <2>2, <2>4 DEF TransportInv
    <2>7. (Flagged' <=> Flagged) /\ (Live' <=> Live) /\ ("partial" \in odd => Flagged)
      BY <2>1 DEF Flagged, Live
    <2>8. Live => (marker /\ svc /\ proxy # "on") \/ odd \cap {"partial", "failback"} # {}
      BY <2>4 DEF TransportInv
    <2>9. (todo' # <<>> => EndsIn(todo, Up \cup Down) \/ ~(st.conn /\ st.node # None))
      BY <2>5 DEF TransportInv
    <2> QED
      BY <2>1, <2>2, <2>3, <2>5, <2>6, <2>7, <2>8, <2>9 DEF TransportInv
  <1>3. CASE StartService
    <2>1. /\ ~Idle /\ by' = by /\ Now = <<"service", "start">> /\ UNCHANGED <<marker, proxy, st, pkg>>
          /\ \/ Go /\ svc' /\ odd' = IF proxy = "on" THEN odd ELSE odd \ {"partial", "failback"}
             \/ Failed /\ odd' = odd \cup Leaves
      BY <1>3, AtNow DEF StartService, disk, kept, past
    <2>2. CASE Go /\ svc' /\ odd' = IF proxy = "on" THEN odd ELSE odd \ {"partial", "failback"}
      <3>1. Now' \in UpSave /\ Now \in Applying
        BY <2>1, <2>2, GoMoves DEF UpSave, Applying
      <3>2. marker /\ pkg /\ Rises(todo)
        BY <2>1, <3>1, Position DEF TransportInv
      <3>3. proxy = "on" => "partial" \in odd /\ odd' = odd
        BY <2>1, <2>2, <3>2 DEF TransportInv
      <3>4. Guarded(todo)
        BY <2>1, <3>1, Position
      <3>5. Guarded(todo') /\ (EndsIn(todo, Up \cup Down) => EndsIn(todo', Up \cup Down)) /\ todo # <<>>
        BY <2>1, <2>2, <3>4, GoMoves DEF Idle
      <3>6. ("partial" \in odd' => Flagged' /\ (odd \cap {"partial", "failback"})' # {}) /\ (Live' <=> Live)
        BY <2>1 DEF Flagged, Live
      <3>7. Now' # <<"service", "start">> /\ Now' \notin Applying
        BY <3>1 DEF UpSave, Applying
      <3>8. (todo' # <<>> => EndsIn(todo, Up \cup Down) \/ ~(st.conn /\ st.node # None))
        BY <3>5 DEF TransportInv
      <3> QED
        BY <2>1, <2>2, <3>1, <3>2, <3>3, <3>5, <3>6, <3>7, <3>8 DEF TransportInv
    <2>3. CASE Failed /\ odd' = odd \cup Leaves
      BY <2>1, <2>3, Moves, LeavesFlags, TransportEnds
    <2> QED
      BY <2>1, <2>2, <2>3
  <1> QED
    BY <1>1, <1>2, <1>3


LEMMA TransportDisables ==
  ASSUME Control, TransportInv, StopService \/ RemoveMarker \/ StopProxy
  PROVE  TransportInv'
  <1>1. CASE StopService
    <2>1. /\ ~Idle /\ by' = by /\ Now = <<"service", "stop">> /\ UNCHANGED <<marker, proxy, st, pkg, odd>>
          /\ Go /\ ~svc'
      BY <1>1, AtNow DEF StopService, disk, kept, past
    <2>2. Now' = <<"restore", "hostlist">>
      BY <2>1, GoFrom
    <2>3. Now \in Disabling /\ Now \notin UpSave /\ Now \notin DownSave /\ Now' \notin UpSave /\ Now' \notin Applying
      BY <2>1, <2>2 DEF Disabling, UpSave, DownSave, Applying
    <2>4. ~Rises(todo) /\ (Live => EndsIn(todo, Down))
      BY <2>1, <2>3, DisablesForDown
    <2>5. /\ ~Rises(todo') /\ (Guarded(todo) => Guarded(todo')) /\ (EndsIn(todo, Down) => EndsIn(todo', Down))
          /\ (EndsIn(todo, Up \cup Down) => EndsIn(todo', Up \cup Down)) /\ todo # <<>>
      BY <2>1, <2>4, GoMoves DEF Idle
    <2>6. (Flagged' <=> Flagged) /\ (Live' <=> Live)
      BY <2>1 DEF Flagged, Live
    <2> QED
      BY <2>1, <2>2, <2>3, <2>4, <2>5, <2>6 DEF TransportInv
  <1>2. CASE RemoveMarker
    <2>1. /\ ~Idle /\ by' = by /\ Now = <<"unmark", "managed">> /\ UNCHANGED <<svc, proxy, st, pkg>>
          /\ Go /\ ~marker' /\ odd' = odd \ {"unrecorded"}
      BY <1>2, AtNow DEF RemoveMarker, kept, past
    <2>2. Now' \in Fresh0(TagsOf(by))
      BY <2>1, GoFrom
    <2>3. Now \in Disabling /\ Now \notin DownSave
      BY <2>1 DEF Disabling, DownSave
    <2>4. ~Rises(todo) /\ (Live => EndsIn(todo, Down))
      BY <2>1, <2>3, DisablesForDown
    <2>5. /\ ~Rises(todo') /\ (EndsIn(todo, Down) => EndsIn(todo', Down)) /\ Now' \notin UpSave
          /\ (EndsIn(todo, Up \cup Down) => EndsIn(todo', Up \cup Down)) /\ todo # <<>>
      BY <2>1, <2>4, GoMoves DEF Idle, UpSave
    <2>6. Now' # <<"service", "start">> /\ (Now' \in Applying => Now' = <<"require", "package">>)
      BY <2>2 DEF Fresh0, Starts, Single, Applying, Resting
    <2>7. (Live' <=> Live) /\ ("partial" \in odd => "partial" \in odd')
      BY <2>1 DEF Live
    <2> QED
      BY <2>1, <2>3, <2>4, <2>5, <2>6, <2>7 DEF TransportInv
  <1>3. CASE StopProxy
    <2>1. /\ ~Idle /\ by' = by /\ (Now = <<"stop", "firewall">> \/ Now = <<"stop", "backend">>)
          /\ UNCHANGED <<marker, svc, st, pkg, odd>> /\ Go /\ proxy' # "on"
      BY <1>3, AtNow DEF StopProxy, disk, kept, past
    <2>2. Now' \in Fresh0(TagsOf(by)) \cup {<<"stop", "backend">>}
      BY <2>1, GoFrom
    <2>3. Now \notin Disabling /\ Now \notin UpSave /\ Now \notin DownSave
      BY <2>1 DEF Disabling, UpSave, DownSave
    <2>4. /\ (Guarded(todo) => Guarded(todo')) /\ (EndsIn(todo, Down) => EndsIn(todo', Down)) /\ Now' \notin UpSave
          /\ (EndsIn(todo, Up \cup Down) => EndsIn(todo', Up \cup Down)) /\ todo # <<>>
      BY <2>1, GoMoves DEF Idle, UpSave
    <2>5. Now' # <<"service", "start">> /\ (Now' \in Applying => Now' = <<"require", "package">>)
      BY <2>2 DEF Fresh0, Starts, Single, Applying, Resting
    <2>6. (Flagged' <=> Flagged) /\ (Live' <=> Live)
      BY <2>1 DEF Flagged, Live
    <2>7. /\ marker /\ st.via # "zapret" => Flagged
          /\ Live => (marker /\ svc) \/ odd \cap {"partial", "failback"} # {} \/ EndsIn(todo, Down)
      BY <2>1, <2>3 DEF TransportInv
    <2> QED
      BY <2>1, <2>4, <2>5, <2>6, <2>7 DEF TransportInv
  <1> QED
    BY <1>1, <1>2, <1>3

\* Over a managed package the state names, a node is applied only after Disable.
LEMMA LoweringFlagged ==
  ASSUME Control, TransportInv, ~Idle, Now \in Lowering
  PROVE  (marker => Flagged) /\ ~Rises(todo) /\ EndsIn(todo, Down) /\ todo # <<>>
  <1>1. ~Rises(todo) /\ EndsIn(todo, Down) /\ ~Guarded(todo)
    BY Position
  <1>2. Now # <<"service", "start">> /\ Now \notin UpSave
    BY DEF Lowering, UpSave, Up, Down
  <1> QED
    BY <1>1, <1>2 DEF TransportInv, Idle

LEMMA TransportConnects ==
  ASSUME Control, TypeInv, TransportInv, ConnectSucceeds \/ ConnectPreserves \/ ConnectFails
  PROVE  TransportInv'
  <1>0. /\ ~Idle /\ by' = by /\ UNCHANGED <<marker, svc, pkg>>
        /\ \E p \in {"mark", "keep", "auto"} : Now = <<"connect", p>>
    BY AtNow DEF ConnectSucceeds, ConnectPreserves, ConnectFails, disk, kept, past
  <1>1. Now[1] = "connect" /\ Now \in Lowering /\ Now \notin DownSave
    BY <1>0 DEF Lowering, DownSave
  <1>2. (marker => Flagged) /\ ~Rises(todo) /\ EndsIn(todo, Down) /\ todo # <<>>
    BY <1>0, <1>1, LoweringFlagged
  <1>3. /\ marker => pkg
        /\ st.via = "zapret" /\ proxy = "on" => "partial" \in odd
    BY <1>1 DEF TransportInv
  <1>4. CASE ConnectSucceeds
    <2>1. Go /\ UNCHANGED <<st, odd>>
      BY <1>4 DEF ConnectSucceeds
    <2>2. ~Rises(todo') /\ EndsIn(todo', Down) /\ Now' \in DownSave
      BY <1>0, <1>1, <1>2, <2>1, GoMoves DEF DownSave
    <2>3. Now' \notin UpSave /\ Now' \notin Applying /\ Now' # <<"service", "start">>
      BY <2>2 DEF DownSave, UpSave, Applying, Up, Down
    <2>4. (Flagged' <=> Flagged) /\ (Live' <=> Live) /\ EndsIn(todo', Up \cup Down)
      BY <2>1, <2>2 DEF Flagged, Live, EndsIn
    <2> QED
      BY <1>0, <1>2, <1>3, <2>1, <2>2, <2>3, <2>4 DEF TransportInv
  <1>5. CASE ConnectPreserves
    <2>1. /\ Failed /\ st' = [st EXCEPT !.conn = TRUE] /\ (proxy' = "on" => proxy = "on")
          /\ odd' = IF st.via = "zapret" THEN odd \cup {"failback"} ELSE odd
      BY <1>5 DEF ConnectPreserves
    <2>2. todo' \in Errs2(TagsOf(by))
      BY <1>0, <2>1, Moves
    <2>3. ~Rises(todo') /\ (todo' # <<>> => EndsIn(todo', Down)) /\ Now' \notin UpSave /\ Now' \notin Applying
      BY <2>2, ErrsMoves DEF UpSave
    <2>4. Now' # <<"service", "start">>
      BY <2>3 DEF Applying
    <2>5. st'.via = st.via
      <3>1. DOMAIN st = {"node", "mode", "conn", "via", "test"}
        BY DEF TypeInv, StateTypes
      <3> QED
        BY <2>1, <3>1
    <2>6. (Flagged => Flagged') /\ (EndsIn(todo', Down) => EndsIn(todo', Up \cup Down)) /\ odd \subseteq odd'
      BY <2>1 DEF Flagged, EndsIn
    <2>7. Live' => (odd \cap {"partial", "failback"})' # {}
      BY <2>1, <2>5 DEF Live
    <2> QED
      BY <1>0, <1>2, <1>3, <2>1, <2>3, <2>4, <2>5, <2>6, <2>7 DEF TransportInv
  <1>6. CASE ConnectFails
    <2>1. /\ st' = st /\ (proxy' = "on" => proxy = "on")
          /\ \/ Failed /\ odd' = odd \cup Leaves
             \/ todo' = disconnectRuntime(<<>>) \o Save("marked", <<>>) /\ odd' = odd
      BY <1>6 DEF ConnectFails
    <2>2. CASE Failed /\ odd' = odd \cup Leaves
      BY <1>0, <2>1, <2>2, Moves, LeavesFlags, TransportEnds
    <2>3. CASE todo' = disconnectRuntime(<<>>) \o Save("marked", <<>>) /\ odd' = odd
      <3>1. todo' \in Errs2(TagsOf(by)) /\ todo' # <<>>
        <4>1. todo' \in Errs1(TagsOf(by))
          BY <2>3, TagsAre, DownProgram DEF Down, Errs1
        <4>2. Len(todo') # 0
          <5>1. /\ disconnectRuntime(<<>>) \in Seq([steps : Handling(TagsOf(by)), err : {<<>>}])
                /\ Len(disconnectRuntime(<<>>)) = 2
            BY TagsAre, DisconnectProgram
          <5>2. << <<"save", "marked">> >> \in Handling(TagsOf(by))
            BY TagsAre, HandlingLists DEF Down
          <5>3. Save("marked", <<>>) \in Seq([steps : Handling(TagsOf(by)), err : {<<>>}])
            BY <5>2, TryBlock DEF Save
          <5> DEFINE B == [steps : Handling(TagsOf(by)), err : {<<>>}]
                     d == disconnectRuntime(<<>>)
                     r == Save("marked", <<>>)
          <5>4. d \in Seq(B) /\ r \in Seq(B) /\ Len(d) = 2 /\ todo' = d \o r
            BY <2>3, <5>1, <5>3
          <5> HIDE DEF B, d, r
          <5> QED
            BY <5>4
        <4> QED
          BY <4>1, <4>2, ErrsGrow
      <3>2. ~Rises(todo') /\ EndsIn(todo', Down) /\ Now' \notin UpSave /\ Now' \notin Applying
        BY <3>1, ErrsMoves DEF UpSave
      <3>3. Now' # <<"service", "start">>
        BY <3>2 DEF Applying
      <3>4. (Flagged' <=> Flagged) /\ (Live' <=> Live) /\ EndsIn(todo', Up \cup Down)
        BY <2>1, <2>3, <3>2 DEF Flagged, Live, EndsIn
      <3> QED
        BY <1>0, <1>2, <1>3, <2>1, <2>3, <3>2, <3>3, <3>4 DEF TransportInv
    <2> QED
      BY <2>1, <2>2, <2>3
  <1> QED
    BY <1>4, <1>5, <1>6

LEMMA TransportSaves ==
  ASSUME Control, TypeInv, TransportInv, SaveState
  PROVE  TransportInv'
  <1>0. ~Idle /\ by' = by /\ UNCHANGED <<marker, svc, proxy, pkg, odd>> /\ Go
    BY AtNow DEF SaveState, world, disk, kept, past
  <1>1. PICK tag \in Up \cup Down : Now = <<"save", tag>> /\ st' = Saved(tag)
    BY SaveTag
  <1>2. /\ st'.via = IF tag \in Up THEN "zapret" ELSE IF tag = "connected" THEN "proxy" ELSE "direct"
    BY <1>1, SavedFields DEF TypeInv, TypeOK
  <1>3. Now # <<"service", "start">> /\ Now # <<"stop", "firewall">> /\ (Flagged' <=> Flagged)
    BY <1>0, <1>1 DEF Flagged
  <1>4. CASE tag \in Up
    <2>1. Now \in UpSave /\ Now \notin DownSave
      BY <1>1, <1>4 DEF UpSave, DownSave, Up, Down
    <2>2. todo' = <<>> /\ Rises(todo)
      BY <1>0, <2>1, GoMoves, Position DEF UpSave
    <2>3. Now' = Resting /\ ~Rises(todo') /\ Guarded(todo')
      BY <2>2 DEF Now, Idle, Rises, Guarded
    <2>4. Now' # <<"service", "start">> /\ Now' \notin UpSave /\ Now' \notin Applying
      BY <2>3 DEF Resting, UpSave, Applying
    <2>5. marker /\ svc /\ pkg /\ (proxy # "on" \/ "partial" \in odd)
      BY <1>3, <2>1, <2>2 DEF TransportInv
    <2>6. st'.via = "zapret"
      BY <1>2, <1>4
    <2> QED
      BY <1>0, <1>3, <2>2, <2>3, <2>4, <2>5, <2>6 DEF TransportInv
  <1>5. CASE tag \in Down
    <2>1. Now \in Lowering /\ Now \notin UpSave
      BY <1>1, <1>5 DEF Lowering, UpSave, Up, Down
    <2>2. (marker => Flagged) /\ ~Rises(todo) /\ EndsIn(todo, Down)
      BY <1>0, <2>1, LoweringFlagged
    <2>3. EndsIn(todo, Up \cup Down)
      BY <2>2 DEF EndsIn
    <2>4. ~Rises(todo') /\ (todo' # <<>> => EndsIn(todo', Up \cup Down)) /\ Now' \notin UpSave
      BY <1>0, <1>3, <2>2, <2>3, GoMoves DEF UpSave
    <2>5. Now' \in Fresh0(TagsOf(by))
      BY <1>0, <1>1, GoFrom DEF Settling
    <2>6. Now' # <<"service", "start">> /\ (Now' \in Applying => Now' = <<"require", "package">>)
      BY <2>5 DEF Fresh0, Starts, Single, Applying, Resting
    <2>7. st'.via # "zapret"
      BY <1>2, <1>5 DEF Up, Down
    <2>8. ~Live' /\ (marker => pkg)
      BY <2>7 DEF Live, TransportInv
    <2> QED
      BY <1>0, <1>3, <2>2, <2>4, <2>6, <2>7, <2>8 DEF TransportInv
  <1> QED
    BY <1>4, <1>5


LEMMA TransportNext ==
  ASSUME Control, TypeInv, TransportInv, [Next]_vars
  PROVE  TransportInv'
  <1>1. CASE Step
    BY <1>1, TransportFiles, TransportRequires, TransportApplies, TransportDisables, TransportConnects,
       TransportSaves DEF Step
  <1>2. CASE CallFails
    <2>1. ~Idle /\ by' = by /\ Failed /\ odd' = odd \cup Leaves /\ UNCHANGED <<marker, pkg, st>>
      BY <1>2 DEF CallFails, world, disk, past
    <2> QED
      BY <2>1, Moves, LeavesFlags, TransportEnds
  <1>3. CASE Kill \/ (Reboot /\ ~(Idle /\ st.via # "zapret"))
    <2>1. todo' = <<>> /\ odd' = odd \cup Leaves /\ UNCHANGED <<marker, pkg, st>>
      BY <1>3 DEF Kill, Reboot, world, disk, past
    <2>2. todo' \in Errs2({})
      BY <2>1, ErrsGrow
    <2> QED
      BY <2>1, <2>2, LeavesFlags, TransportEnds
  <1>4. CASE Reboot /\ Idle /\ st.via # "zapret"
    <2>1. todo' = <<>> /\ todo = <<>> /\ UNCHANGED <<marker, pkg, st, odd>> /\ proxy' # "on"
      BY <1>4 DEF Reboot, disk, past, Idle
    <2>2. Now' = Resting /\ Now = Resting /\ ~Rises(todo')
      BY <2>1 DEF Now, Idle, Rises
    <2>3. /\ Resting # <<"service", "start">> /\ Resting \notin UpSave /\ Resting \notin Applying
      BY DEF Resting, UpSave, Applying
    <2>4. (Flagged' <=> Flagged) /\ ~Live'
      BY <1>4, <2>1 DEF Flagged, Live
    <2> QED
      BY <1>4, <2>1, <2>2, <2>3, <2>4 DEF TransportInv
  <1>5. CASE Starting
    <2>1. Idle /\ UNCHANGED <<marker, svc, proxy, st, pkg, odd>>
      BY <1>5, Begins DEF world, disk
    <2>2. PICK who : by' = who /\ Program(todo', who)
      BY <1>5, Begins
    <2>3. todo = <<>> /\ Now = Resting /\ ~EndsIn(todo, Down)
      BY <2>1 DEF Now, Idle, EndsIn
    <2>4. Resting # <<"service", "start">> /\ Resting \notin UpSave /\ Resting \notin DownSave
      BY DEF Resting, UpSave, DownSave
    <2>5. Now' \in Fresh0(TagsOf(who))
      BY <2>2, ProgramNow
    <2>6. Now' # <<"service", "start">> /\ (Now' \in Applying => Now' = <<"require", "package">>)
      BY <2>5 DEF Fresh0, Starts, Single, Applying, Resting
    <2>7. todo' # <<>> => Now' = todo'[1].steps[1]
      BY <2>2, NowIsNext DEF Program, Control
    <2>8. Now' \notin UpSave
      <3>1. CASE todo' = <<>>
        BY <3>1 DEF Now, Idle, Resting, UpSave
      <3>2. CASE todo' # <<>>
        BY <2>2, <2>7, <3>2 DEF Program, UpSave
      <3> QED
        BY <3>1, <3>2
    <2>9. Rises(todo') => st.via = "zapret" \/ Now' = <<"stop", "firewall">>
      <3> SUFFICES ASSUME Rises(todo') PROVE st.via = "zapret" \/ Now' = <<"stop", "firewall">>
        OBVIOUS
      <3>1. PICK i \in 1..Len(todo') : todo'[i].steps[1] \in {"save"} \X Up
        BY DEF Rises
      <3>2. PICK tag \in Up : todo'[i].steps[1] = <<"save", tag>>
        BY <3>1
      <3>3. Pends(todo', tag)
        BY <3>2 DEF Pends
      <3>4. todo' # <<>>
        BY <3>1
      <3> QED
        BY <2>2, <2>7, <3>3, <3>4 DEF Program
    <2>10. /\ st.via = "zapret" => Guarded(todo')
           /\ todo' # <<>> => EndsIn(todo', Up \cup Down) \/ ~(st.conn /\ st.node # None)
      BY <2>2 DEF Program, EndsIn
    <2>11. (Flagged' <=> Flagged) /\ (Live' <=> Live)
      BY <2>1 DEF Flagged, Live
    <2> QED
      BY <2>1, <2>3, <2>4, <2>6, <2>8, <2>9, <2>10, <2>11 DEF TransportInv
  <1>6. CASE (\E f \in Files : UserEdits(f)) \/ AutoPrepare \/ AutoDropped \/ UNCHANGED vars
    <2>1. UNCHANGED <<todo, marker, svc, proxy, st, pkg>> /\ (odd' = odd \/ odd' = odd \cup {"stale"})
      BY <1>6 DEF UserEdits, AutoPrepare, AutoDropped, vars, world, disk, past
    <2>2. /\ Now' = Now /\ (Flagged' <=> Flagged) /\ (Live' <=> Live) /\ ("partial" \in odd <=> "partial" \in odd')
          /\ (odd \cap {"partial", "failback"})' = odd \cap {"partial", "failback"}
      BY <2>1 DEF Now, Idle, Flagged, Live
    <2> QED
      BY <2>1, <2>2 DEF TransportInv
  <1> QED
    BY <1>1, <1>2, <1>3, <1>4, <1>5, <1>6 DEF Next, Starting

\* Between operations Zapret and the interception of the proxy never work on the same
\* traffic, and a connected state that says Zapret is true of a managed, running package,
\* but for the early ends that TransportAsRecorded names.
THEOREM TransportAsRecordedTheorem == Spec => []TransportAsRecorded
  <1>1. Init => TransportInv
    <2> SUFFICES ASSUME Init PROVE TransportInv
      OBVIOUS
    <2>1. st.via = "direct" /\ todo = <<>> /\ ~marker /\ proxy = "off"
      BY WithFields DEF Init, NoRoute
    <2>2. Now = Resting /\ ~Rises(todo) /\ ~Live
      BY <2>1 DEF Now, Idle, Rises, Live
    <2>3. Resting # <<"service", "start">> /\ Resting \notin UpSave /\ Resting \notin Applying
      BY DEF Resting, UpSave, Applying
    <2> QED
      BY <2>1, <2>2, <2>3 DEF TransportInv
  <1>2. TransportInv => TransportAsRecorded
    <2>1. Idle => ~EndsIn(todo, Down)
      BY DEF Idle, EndsIn
    <2> QED
      BY <2>1 DEF TransportInv, TransportAsRecorded, Flagged, Live
  <1>3. Control /\ TypeInv /\ TransportInv /\ [Next]_vars => TransportInv'
    BY TransportNext
  <1> QED
    BY <1>1, <1>2, <1>3, ControlAlways, TypesAlways, PTL DEF Spec
==============================================================================
