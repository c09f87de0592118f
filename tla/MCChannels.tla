----------------------------- MODULE MCChannels -----------------------------
(* An instance of Channels for TLC.                                        *)
EXTENDS Channels

\* node 0 sends to node 1 on a packet channel
OneChannel == {[send |-> <<0, 0>>, recv |-> <<1, 0>>, type |-> "pkt"]}

\* node 0 sends to either of two endpoints of node 1
TwoReceivers == OneChannel \cup {[send |-> <<0, 0>>, recv |-> <<1, 1>>, type |-> "pkt"]}
=============================================================================
