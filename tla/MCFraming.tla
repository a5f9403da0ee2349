------------------------------- MODULE MCFraming -------------------------------
(* Values for the constants of Framing, beside those of MCPackUnpack.       *)
EXTENDS MCPackUnpack, Framing

\* Two timestamps, as they are in memory, of milliseconds since 1970: the second
\* is 0x019AF2350102, with the identifier and the type of an answer in it.
MCStamps == {<<4, 3, 2, 1, 140, 1, 0, 0>>, <<2, 1, 53, 242, 154, 1, 0, 0>>}

\* An answer for the vehicle "51001", whose first character is 0x35.
MCBodies == {<<<<53, 49, 48, 48, 49, 0, 0, 0>>, <<1>>>>}

=============================================================================
