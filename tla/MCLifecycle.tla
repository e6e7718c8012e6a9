---------------------------- MODULE MCLifecycle ----------------------------
(***************************************************************************)
(* Finite configurations of Lifecycle for TLC. Each set names the options  *)
(* a run varies; the rest are at their defaults (config.rs).               *)
(***************************************************************************)
EXTENDS Lifecycle, TLC

CONSTANTS t1, t2

Default == [wired |-> FALSE, dhu |-> FALSE, aaServer |-> FALSE, quick |-> FALSE,
            keep |-> FALSE, usbFirst |-> FALSE, dial |-> TRUE, poweroff |-> FALSE,
            stopOnBye |-> FALSE]

\* Bluetooth and Wi-Fi: a save turns the keepalive on and swaps the USB order.
WirelessConfigs == {Default, [Default EXCEPT !.keep = TRUE, !.usbFirst = TRUE]}
QuickConfig     == [Default EXCEPT !.quick = TRUE, !.stopOnBye = TRUE, !.poweroff = TRUE]
\* The quick handover, a wired phone, and a test setup with desktop head unit
\* and AA server: a saved configuration moves between them.
VariedConfigs   == {QuickConfig, [Default EXCEPT !.aaServer = TRUE, !.dhu = TRUE],
                    [Default EXCEPT !.wired = TRUE, !.stopOnBye = TRUE]}
StopConfigs     == {[Default EXCEPT !.stopOnBye = TRUE]}

\* Bluetooth tasks are interchangeable.
Symmetry == Permutations(Tasks)
=============================================================================
