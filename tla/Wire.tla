-------------------------------- MODULE Wire --------------------------------
(***************************************************************************)
(* What a session promises for one direction: the packets of one end reach *)
(* the other in the order they were sent and at most once. A lossy wire,   *)
(* one whose packets the proxies look into, may swallow packets on the     *)
(* way; a wire that is not lossy delivers them all.                        *)
(***************************************************************************)
EXTENDS Naturals

VARIABLES sent,      \* number of packets sent: they are numbered from 1
          flight,    \* the numbers of those on the way
          arrived,   \* those delivered: the number of each, and when it came
          lossy

wireVars == <<sent, flight, arrived, lossy>>

Init == sent = 0 /\ flight = {} /\ arrived = {} /\ lossy \in BOOLEAN

Send == sent' = sent + 1 /\ flight' = flight \cup {sent'} /\ UNCHANGED <<arrived, lossy>>

\* The oldest packet on the way comes, after all that came before.
Deliver ==
    \E d \in arrived' :
        /\ d.n \in flight /\ \A k \in flight : d.n <= k
        /\ \A e \in arrived : e.at < d.at
        /\ arrived' = arrived \cup {d}
        /\ flight' = flight \ {d.n}
        /\ UNCHANGED <<sent, lossy>>

Swallow ==
    /\ lossy
    /\ \E n \in flight : flight' = flight \ {n}
    /\ UNCHANGED <<sent, arrived, lossy>>

Next == Send \/ Deliver \/ Swallow

Spec == Init /\ [][Next]_wireVars
=============================================================================
