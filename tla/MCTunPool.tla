----------------------------- MODULE MCTunPool -----------------------------
(* Two processes, and three names that get_interface confuses: it looks for *)
(* tun0 when asked for Tun0, and takes tun0 2 for tun0.                     *)
EXTENDS TunPool

Plain == [word |-> "tun0", upper |-> FALSE, number |-> FALSE]
Capital == [Plain EXCEPT !.upper = TRUE]
Numbered == [Plain EXCEPT !.number = TRUE]

MCNames == {Plain, Capital, Numbered}
=============================================================================
