-------------------------- MODULE MessageDelivery --------------------------
(***************************************************************************)
(* What the path from the composer to the messages table promises: a       *)
(* message the user sent is accepted once and then posted once; it is      *)
(* never given up and never posted twice.  Outbox implements this.         *)
(***************************************************************************)
CONSTANT Messages

VARIABLE delivery

Init == delivery = [m \in Messages |-> "unsent"]

Accept(m) ==
    /\ delivery[m] = "unsent"
    /\ delivery' = [delivery EXCEPT ![m] = "accepted"]

Post(m) ==
    /\ delivery[m] = "accepted"
    /\ delivery' = [delivery EXCEPT ![m] = "posted"]

Next == \E m \in Messages : Accept(m) \/ Post(m)

Spec == Init /\ [][Next]_delivery
=============================================================================
