---------------------------- MODULE MCEventLoop ----------------------------
(* Instances of EventLoop for TLC. *)
EXTENDS EventLoop, TLC

CONSTANTS c1, c2

ChannelSymmetry == Permutations(Channels)
=============================================================================
