------------------------------ MODULE MCConverter ------------------------------
(* Values for the constants of Converter that a configuration cannot write.  *)
EXTENDS Converter

MCHexChars == {" ", "0", "7", "b", "F", "x"}
MCDecChars == {"0", "5", "9", "x"}
MCBehind == {"", "0", "9"}
MCByteValues == {0, 9, 10, 16, 175, 255}
MCTimes == {<<0, 0, 0>>, <<7, 59, 59>>, <<8, 0, 0>>, <<19, 30, 9>>, <<23, 59, 59>>}

=============================================================================
