---- MODULE MCDrain ----
(* Small instances of the work pool and the shutdown for TLC. *)
EXTENDS Drain

CONSTANTS r1, r2, c1

TwoRequests == {r1, r2}
OneRpc      == {c1}
NoHang      == {}

====
