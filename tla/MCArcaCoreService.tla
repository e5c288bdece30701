------------------------- MODULE MCArcaCoreService -------------------------
(* Two clients asking for the same build, a table of one operation, and    *)
(* calls that overlap.                                                     *)
EXTENDS ArcaCoreService

CONSTANTS ann, bob, orders, billing

MCRequests == {[who |-> ann, key |-> "once", payload |-> orders],
               [who |-> bob, key |-> "once", payload |-> orders]}
MCHeld == {j \in MCRequests : j.who = ann}
=============================================================================
