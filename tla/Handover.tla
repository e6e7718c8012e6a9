------------------------------ MODULE Handover ------------------------------
(***************************************************************************)
(* What the two loops promise each other over Bluetooth without quick      *)
(* reconnect: the connection is handed over in turn and never twice. main  *)
(* sets it up, the tcp_start permit carries it to io_loop, io_loop runs    *)
(* it, the restart broadcast carries it back.                              *)
(***************************************************************************)
VARIABLES
    holder,  \* who holds the connection
    phase    \* whether main sets a connection up or waits for its end

vars == <<holder, phase>>

Init == holder = "main" /\ phase = "setup"

\* main has sent the parameters to the phone and notifies io_loop.
Offer   == holder = "main" /\ holder' = "permit" /\ phase = "setup" /\ phase' = "waiting"
\* io_loop takes the permit and waits for the phone.
Take    == holder = "permit" /\ holder' = "io_loop" /\ UNCHANGED phase
\* The attempt or the session is over: io_loop broadcasts the restart.
Return  == holder = "io_loop" /\ holder' = "restart" /\ UNCHANGED phase
\* main is woken and starts over.
Restart == holder = "restart" /\ holder' = "main" /\ phase = "waiting" /\ phase' = "setup"

Next == Offer \/ Take \/ Return \/ Restart

Spec == Init /\ [][Next]_vars
=============================================================================
