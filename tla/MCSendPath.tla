------------------------------ MODULE MCSendPath ------------------------------
(* Values for the constants of SendPath that a configuration cannot write.  *)
EXTENDS SendPath

MCNullRead == {Null}
MCAnyRead  == {Null, Junk}

=============================================================================
