---------------------------- MODULE DocumentStore ----------------------------
(***************************************************************************)
(* What the store promises to its users: one value per document.  An       *)
(* update replaces one part of the current value and nothing else, or has  *)
(* no effect; a value is lost only when the medium damages the file, and   *)
(* then it is the default again; a document of a newer version is never    *)
(* touched.                                                                *)
(***************************************************************************)
EXTENDS Naturals

CONSTANTS
    Doc,                 \* the documents
    Edits(_),            \* the updates of a document
    Applied(_, _, _),    \* the value of a document after an update
    Initial(_),          \* what a document is when nothing was ever stored
    Damaged,             \* the value of a file that cannot be decoded
    Foreign              \* the value of a file of a newer version

VARIABLES
    value,               \* the value of every document
    damages              \* how often the medium damaged a file

Init == damages = 0

Readable(d) == value[d] \notin {Damaged, Foreign}

Update(d) == /\ Readable(d)
             /\ \E e \in Edits(d) : value' = [value EXCEPT ![d] = Applied(d, e, @)]
             /\ UNCHANGED damages

Damage(d) == /\ value[d] # Foreign
             /\ value' = [value EXCEPT ![d] = Damaged]
             /\ damages' = damages + 1

Reset(d) == /\ value[d] = Damaged
            /\ value' = [value EXCEPT ![d] = Initial(d)]
            /\ UNCHANGED damages

Next == \E d \in Doc : Update(d) \/ Damage(d) \/ Reset(d)

Spec == Init /\ [][Next]_<<value, damages>>
==============================================================================
