----------------------------- MODULE MCDelivery -----------------------------
(***************************************************************************)
(* Small instances of Delivery for TLC.                                    *)
(***************************************************************************)
EXTENDS DeliveryRefinement, TLC

CONSTANTS bob, m1, m2

OneSession == {bob}

OneMessage == {m1}

TwoMessages == {m1, m2}

(* A session may write to itself: resolveRecipient does not exclude it.    *)
ToSelf(a, r, t) == [from |-> bob, to |-> bob, ack |-> a, reply |-> r, ttl |-> t]

(* Every combination of required responses.                                *)
AnyResponse == {ToSelf(a, r, None) : a \in BOOLEAN, r \in BOOLEAN}

Question == {ToSelf(TRUE, TRUE, None)}

MessageSymmetry == Permutations(Message)
=============================================================================
