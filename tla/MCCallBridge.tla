---------------------------- MODULE MCCallBridge ----------------------------
(***************************************************************************)
(* Finite configurations of CallBridge for TLC.                            *)
(***************************************************************************)
EXTENDS CallBridge

\* The defaults of config.rs; the two halves of the bridge on their own; a paced
\* bridge that sends DATA only.
Default == [media |-> TRUE, mic |-> TRUE, start |-> TRUE, stop |-> TRUE,
            firstAudio |-> TRUE, needed |-> 0]
MicOnly == [Default EXCEPT !.media = FALSE]
MediaOnly == [Default EXCEPT !.mic = FALSE]
Paced == [MediaOnly EXCEPT !.start = FALSE, !.stop = FALSE, !.firstAudio = FALSE,
                           !.needed = 2]

\* A jitter buffer that the ring cannot fill.
Starved == [Paced EXCEPT !.needed = RingCapacity + 1]

SomeConfigs == {MicOnly, MediaOnly, Paced, Starved}
OneChannel == {1}
=============================================================================
