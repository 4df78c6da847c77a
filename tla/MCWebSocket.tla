----------------------------- MODULE MCWebSocket -----------------------------
(* A small instance of WebSocket for TLC.                                  *)
EXTENDS WebSocket

(* A payload with each form of length, and one that is refused.            *)
MCPayloads ==
  [op \in Opcode |->
     CASE op = "text"         -> {<<1>>, <<1, 0>>, <<0, 1, 1>>, <<0, 1, 1, 0>>}
       [] op = "binary"       -> {<<0>>}
       [] op = "continuation" -> {<< >>, <<1>>}
       [] OTHER               -> {<<1>>}]

MCReplies == {<<1>>, <<1, 0>>, <<0, 1, 1>>}
MCMasks   == {<<1, 0, 1, 1>>}

=============================================================================
