------------------------------ MODULE ConnReport ------------------------------
(***************************************************************************)
(* What a channel of the Controller promises to the application's callback *)
(* (on_up_connect_state and on_down_connect_state of controller.h): which  *)
(* states it is told, and how they follow the socket that the channel      *)
(* opens and closes.  Module Channel implements it, as long as no stop()   *)
(* overlaps another stop() or a start(); module InhSession lives on it.    *)
(***************************************************************************)

VARIABLES
    live,            \* the channel has a socket
    owed,            \* a socket was closed and the application not yet told
    told             \* the last state that the application was told

reportVars == <<live, owed, told>>

ReportInit == live = FALSE /\ owed = FALSE /\ told = "CLOSED"

\* start() opens a socket, perhaps before the loss of the last one is told.
Open ==
    /\ ~live
    /\ live' = TRUE
    /\ UNCHANGED <<owed, told>>

\* stop(), in the handler of a lost connection, closes it.
Close ==
    /\ live /\ ~owed
    /\ live' = FALSE
    /\ owed' = TRUE
    /\ UNCHANGED told

\* CONNECTED is told of a socket that is open, once, and after every loss.
TellConnected ==
    /\ live /\ ~owed
    /\ told # "CONNECTED"
    /\ told' = "CONNECTED"
    /\ UNCHANGED <<live, owed>>

\* LOST is told once for each socket that was closed.
TellLost ==
    /\ owed
    /\ told' = "LOST"
    /\ owed' = FALSE
    /\ UNCHANGED live

ReportNext == Open \/ Close \/ TellConnected \/ TellLost

=============================================================================
