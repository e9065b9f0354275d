------------------------------ MODULE MCRTable ------------------------------
(* Model values for RTable: 2-bit addresses, two interfaces, three prefixes. *)
(* Two routes share a prefix and differ in next hop; their address has a     *)
(* host bit set, which the CLI accepts, so that the order by address differs *)
(* from the order by mask.  The last route sorts behind them and matches     *)
(* none of their destinations.                                               *)
EXTENDS RTable

Word(b1, b2) == <<b1, b2>>

MCRoutes ==
    { [ip |-> Word(1,1), mask |-> Word(1,0), gw |-> Word(0,0), iface |-> "eth1"],
      [ip |-> Word(1,1), mask |-> Word(1,0), gw |-> Word(0,1), iface |-> "eth0"],
      [ip |-> Word(1,0), mask |-> Word(1,1), gw |-> Word(1,1), iface |-> "eth1"],
      [ip |-> Word(0,0), mask |-> Word(1,0), gw |-> Word(1,1), iface |-> "eth0"] }
=============================================================================
