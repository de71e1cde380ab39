----------------------------- MODULE MCChannels -----------------------------
(* Small instances of Channels for TLC: one plain channel and one timer. *)
EXTENDS Channels

CONSTANTS plain, timeout

OnlyReceives == {<< plain >>}
BothOrders == {<< plain >>, << plain, timeout >>, << timeout, plain >>}
=============================================================================
