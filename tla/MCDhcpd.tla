------------------------------ MODULE MCDhcpd ------------------------------
(* Dhcpd for TLC: the clients are interchangeable model values.            *)
EXTENDS Dhcpd, TLC

CONSTANTS m1, m2

Symmetry == Permutations(Macs)
=============================================================================
