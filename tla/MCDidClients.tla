----------------------------- MODULE MCDidClients -----------------------------
(* Two calls of the screen and one of the backend, which retries once.     *)
EXTENDS DidClients

CONSTANTS screen1, screen2, backend

MCHookCalls == {screen1, screen2}
MCCalls == MCHookCalls \cup {backend}
MCRetryCount == [c \in MCCalls |-> IF c = backend THEN 1 ELSE 0]
MCAsks == [c \in MCCalls |->
    CASE c = screen1 -> {"resolve", "create", "rotate"}
      [] c = screen2 -> {"resolve", "rotate", "deactivate"}
      [] c = backend -> {"rotate", "deactivate"}]
=============================================================================
