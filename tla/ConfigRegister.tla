--------------------------- MODULE ConfigRegister ---------------------------
(***************************************************************************)
(* What the webhook's configuration promises to admission requests: it is  *)
(* one register that only ever takes a usable document, keeps it until the *)
(* next one or a restart, and that each request reads in one step together *)
(* with the mutators compiled from the same document.                      *)
(***************************************************************************)
CONSTANTS Request, Usable, Expressions, Nil, Unread

VARIABLES value, got

Snapshot(d) == [config |-> d, mutators |-> IF d = Nil THEN Nil ELSE Expressions[d]]

Init == value = Nil /\ got = [r \in Request |-> Unread]

Load == value' \in Usable /\ UNCHANGED got

Restart == value' = Nil /\ got' = [r \in Request |-> Unread]

Read(r) ==
    /\ got[r] = Unread
    /\ got' = [got EXCEPT ![r] = Snapshot(value)]
    /\ UNCHANGED value

Leave(r) ==
    /\ got' = [got EXCEPT ![r] = Unread]
    /\ UNCHANGED value

Next == Load \/ Restart \/ \E r \in Request : Read(r) \/ Leave(r)

Spec == Init /\ [][Next]_<<value, got>>
=============================================================================
