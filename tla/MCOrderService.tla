--------------------------- MODULE MCOrderService ---------------------------
(* A small instance of OrderService: two users, and bodies that differ in what
   the handler must not trust (a client-chosen ID, another user as the owner)
   and in their total. *)
EXTENDS OrderService

CONSTANTS alice, bob, o1, o2, o3

Body(id, user, items) == [ID |-> id, UserID |-> user, Items |-> items]

Cheap == << [Price |-> 1, Quantity |-> 2] >>
Dear == << [Price |-> 5, Quantity |-> 1], [Price |-> 2, Quantity |-> 3] >>

MCBodies == { Body(NoId, bob, Cheap), Body(o1, alice, Dear) }
=============================================================================
