------------------------------ MODULE MCRemap ------------------------------
(* Three PEs with light and heavy shares of every part.  Parts 0 and 2 may
   change names, part 1 is to be heavier than both. *)
EXTENDS Remap

MCInputs == {f \in [PE -> [PE -> {0, 1, 2}]] :
               /\ f[0][0] = 1 /\ f[0][1] < 2 /\ f[0][2] > 0
               /\ f[1][0] # 1 /\ f[1][1] = 1 /\ f[1][2] = 0
               /\ f[2][2] > 0}
Uneven   == [a \in PE |-> IF a = 1 THEN <<90>> ELSE <<50 + a>>]
=============================================================================
