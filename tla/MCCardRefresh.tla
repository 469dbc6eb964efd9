---------------------------- MODULE MCCardRefresh ----------------------------
(***************************************************************************)
(* Instances of CardRefresh for TLC: a card in the chat where people tap,  *)
(* another in the same chat, and one in a chat where nobody does.          *)
(***************************************************************************)
EXTENDS CardRefresh, TLC

CONSTANTS mine, near, far, none, h1, h2

Together == [c \in Tapped |-> {near} \cap Cards]

Invocations == Permutations({h1, h2})
=============================================================================
