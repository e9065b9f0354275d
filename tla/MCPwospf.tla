------------------------------ MODULE MCPwospf ------------------------------
(* A chain o - a - b, in which LSUs must be passed on and floods overlap;  *)
(* a chain a - o - b, in which one router hears that the other is lost;    *)
(* and one subnet that all three are attached to, in which LSUs cross.     *)
EXTENDS Pwospf

CONSTANTS o, a, b, s1, s2

Chain == [s \in {s1, s2} |-> IF s = s1 THEN {o, a} ELSE {a, b}]
Lan == [s \in {s1, s2} |-> IF s = s1 THEN {o, a, b} ELSE {}]
Middle == [s \in {s1, s2} |-> IF s = s1 THEN {o, a} ELSE {o, b}]
Nets == {Chain, Lan, Middle}
Events == [n \in Nets |-> IF n = Chain THEN 2 ELSE 1]
InFlight == [n \in Nets |-> IF n = Chain THEN 2 ELSE IF n = Middle THEN 1 ELSE 0]
=============================================================================
