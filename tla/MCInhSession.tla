----------------------------- MODULE MCInhSession -----------------------------
(* Values for the constants of InhSession that a configuration cannot write. *)
EXTENDS InhSession

MCTimers == {"inh", "state"}

=============================================================================
