--------------------------- MODULE MCReservations ---------------------------
(* Two blocks, one of them with two sub-blocks; two hosts to a slice; room   *)
(* for none, one (with a host too many) or two slices on a sub-block.       *)
EXTENDS Reservations

MCBlocks == [b1 |-> {"s1", "s2"}, b2 |-> {"s3"}]
MCFreeHosts == {0, 3, 4}
AllModes == [force : BOOLEAN, validate : BOOLEAN]
=============================================================================
