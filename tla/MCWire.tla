------------------------------- MODULE MCWire -------------------------------
(***************************************************************************)
(* A file of nine pieces, so that the bitfield made for eight hashes lacks *)
(* the bit of the last one, which is the piece worked on.                  *)
(***************************************************************************)
EXTENDS Wire

\* Nothing, the first and the last piece, and the eighth.
SomeBitFields ==
  {[id |-> BitField, payload |-> <<0, 0>>, announced |-> {}],
   [id |-> BitField, payload |-> <<128, 128>>, announced |-> {0, 8}],
   [id |-> BitField, payload |-> <<1, 0>>, announced |-> {7}]}
=============================================================================
