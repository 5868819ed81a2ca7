-------------------------- MODULE MCSessionHandoff --------------------------
(* Small instances of SessionHandoff.  Token 1 is a user's, 2 is generated. *)
EXTENDS SessionHandoff

Turns == {<<1>>, <<1, 1>>, <<1, 2, 2>>, <<1, 2, 2, 1>>}

Flags(gate, gs, yield, errs, pool) ==
    [gate |-> gate, gs |-> gs, yield |-> yield, errs |-> errs, pool |-> pool]

\* Every path, every failure and no pools; or the pools with plain and spec
\* sessions, without demotion, graphs, yields and failures.
Sound == {Flags(TRUE, TRUE, TRUE, TRUE, 0), Flags(FALSE, FALSE, FALSE, FALSE, 2)}
WithGate == {Flags(TRUE, FALSE, FALSE, FALSE, 2)}
WithYield == {Flags(FALSE, FALSE, TRUE, FALSE, 2)}
WithErrors == {Flags(FALSE, FALSE, FALSE, TRUE, 2)}
WithGraph == {Flags(FALSE, TRUE, FALSE, FALSE, 2)}
=============================================================================
