------------------------------- MODULE MCPaths -------------------------------
(* Constants for Paths: one path that carries data under each congestion   *)
(* control, and paths that come and go with little or no data.             *)
EXTENDS Paths

CONSTANTS a1, a2, a3

Connection(control, addrs, packets) ==
  [cong_control |-> control, addrs |-> addrs, packets |-> packets]

SetupsTwo == {Connection("aimd", {a1}, 5), Connection("vegas", {a1}, 4),
              Connection("aimd", {a1, a2}, 0)}
SetupsThree == {Connection("aimd", {a1, a2, a3}, 0)}
=============================================================================
