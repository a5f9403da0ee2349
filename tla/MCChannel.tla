------------------------------- MODULE MCChannel -------------------------------
(* Values for the constants of Channel that a configuration cannot write.    *)
EXTENDS Channel

MCNullRead == {Null}

=============================================================================
