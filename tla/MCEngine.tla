------------------------------ MODULE MCEngine ------------------------------
(* A small instance of Engine for TLC. *)
EXTENDS Engine

\* A letter, the first two bytes of a character of three, a last byte, and
\* the token that ends a turn.
Vocabulary == ("letter" :> <<"ascii">>) @@ ("half" :> <<"lead3", "rest">>)
              @@ ("rest" :> <<"rest">>) @@ ("stop" :> <<>>)

Modes == (1 :> "collect") @@ (2 :> "stream")
Prompts == (1 :> 3) @@ (2 :> 5)
=============================================================================
