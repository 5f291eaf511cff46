---------------------------- MODULE MCLifecycle ----------------------------
(* Instances of Lifecycle for TLC.  The Builder makes servers whose acceptor *)
(* is open; the default constructor makes the others.                        *)
EXTENDS Lifecycle

BuiltInit == LifecycleInit /\ acceptorOpen
BuiltSpec == BuiltInit /\ [][LifecycleNext]_lifecycleVars
=============================================================================
