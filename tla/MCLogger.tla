------------------------------ MODULE MCLogger ------------------------------
(* Model-checking values for Logger. *)
EXTENDS Logger

MCSlots == [engine |-> 1, gateway |-> 2]

=============================================================================
