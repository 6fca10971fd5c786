--------------------------- MODULE ConnectionLife ---------------------------
(***************************************************************************)
(* What the users of TcpServer and TcpClient rely on: the connection       *)
(* callback of a connection is called once when it is up and, at most      *)
(* once, after its close or its owner's end, when it is down.              *)
(***************************************************************************)
CONSTANT Conns
VARIABLE life

\* "none", "new": made and not yet established, "up", "closed": close_callback_
\* was called, "down": the connection callback was called again.
Moves == {<<"none", "new">>, <<"none", "up">>, <<"new", "up">>,
          <<"up", "closed">>, <<"closed", "down">>, <<"up", "down">>}

LInit == life = [c \in Conns |-> "none"]

Move(c) == \E m \in Moves : life[c] = m[1] /\ life' = [life EXCEPT ![c] = m[2]]

LNext == \E c \in Conns : Move(c)

LSpec == LInit /\ [][LNext]_life
=============================================================================
