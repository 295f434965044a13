-------------------------- MODULE MCOrderConsumers --------------------------
(* One worker of each kind, as docker-compose.yml deploys them, and messages
   that are named after their kind. *)
EXTENDS OrderConsumers

MCKind == [m \in Messages |-> m]
=============================================================================
