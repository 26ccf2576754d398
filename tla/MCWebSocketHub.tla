---------------------------- MODULE MCWebSocketHub ----------------------------
(***************************************************************************)
(* WebSocketHub on two small instances: several clients that compete for   *)
(* one place in the hub, and one client that keeps changing its            *)
(* subscription while messages arrive.                                     *)
(***************************************************************************)
EXTENDS WebSocketHub, TLC

CONSTANTS c1, c2, info

Sub(levels, limited, batched) == [levels |-> levels, limited |-> limited, batched |-> batched]

\* Several clients: one level, accepted by default, and no subscriptions.
Two == {c1, c2}
One == {c1}
Info == {info}
None == {}
ClientSymmetry == Permutations(Two)

\* One client: a subscription that batches the messages logged, and one that refuses
\* them and is rate-limited.
BatchOrRefuse == {Sub({info}, FALSE, TRUE), Sub({}, TRUE, FALSE)}
=============================================================================
