-------------------------------- MODULE MCWire --------------------------------
(* Wire with one URB of each kind: odd lengths, the longest frame that keeps
   its length, and one whose reply does not. *)
EXTENDS Wire

U(kind, out, n, pkts) == [kind |-> kind, out |-> out, len |-> n, pkts |-> pkts]
AllKinds == {U("ctrl", TRUE, 5, 0), U("bulk", FALSE, 65500, 0),
             U("iso", FALSE, 13, 2), U("int", TRUE, 65496, 0)}
=============================================================================
