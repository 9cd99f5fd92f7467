--------------------------- MODULE MCSocketLifecycle ---------------------------
EXTENDS SocketLifecycle, TLC

\* Everything blocks, or nothing does.
BothModes == {<<TRUE, TRUE>>, <<FALSE, FALSE>>}

\* Nothing distinguishes one request from another.
PeerSymmetry == Permutations(Peers)

=============================================================================
