----------------------------- MODULE MCPackUnpack -----------------------------
(* Values for the constants of PackUnpack.                                  *)
EXTENDS PackUnpack

Letters(c, n) == [k \in 1 .. n |-> c]

\* Texts of every length that is treated in a way of its own: 0, some, the
\* longest that fits its length byte, and the shortest that does not.
MCVersions == {<<>>, Letters(115, 2), Letters(104, 3), Letters(97, 254), Letters(97, 255)}
MCUsers    == {<<>>, <<85, 86, 87>>, Letters(85, 254), Letters(85, 255), Letters(85, 256)}

\* The three versions of test.h, by their first letters.
MCTestVersions == {Letters(115, 7), Letters(104, 7), Letters(97, 7)}
MCTestUsers    == {Letters(85, 13)}

=============================================================================
