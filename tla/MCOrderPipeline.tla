--------------------------- MODULE MCOrderPipeline ---------------------------
(* One order on its way, one process of each kind. *)
EXTENDS OrderPipeline

CONSTANTS alice

MCKind == [m \in Messages |-> m]
MCBodies == { [ID |-> NoId, UserID |-> alice, Items |-> << [Price |-> 1, Quantity |-> 2] >>] }
MCSubjects == Slots
=============================================================================
