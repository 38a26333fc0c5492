------------------------------ MODULE MCTcpRpc ------------------------------
(***************************************************************************)
(* An instance of TcpRpc for TLC: two of two requests and an event, and    *)
(* the connections that the budgets of connect() and the resets open.      *)
(***************************************************************************)
EXTENDS TcpRpc

CONSTANTS r1, r2, e1, n1, n2

\* The handler of r1 may throw, and its response may be too long.
MixedAnswers == [r \in Requests |-> IF r = r1 THEN {"ok", "err", "huge"} ELSE {"ok"}]

\* Two messages and a connect(); a message, a connect() and a close(); a message, a close()
\* and a server that comes back.
Budget(connects, closes, listens, sends_) ==
  [connect |-> connects, close |-> closes, listen |-> listens, send |-> sends_]
MCBudgets == {Budget(1, 0, 1, 2), Budget(1, 1, 1, 1), Budget(0, 1, 2, 1)}
=============================================================================
