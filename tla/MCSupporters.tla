----------------------------- MODULE MCSupporters -----------------------------
(* Instances of Supporters for TLC. *)
EXTENDS Supporters, TLC

\* Two changes of a pledge, whose deliveries may overtake each other; or one, and somebody who leaves
\* the bot, asks to be erased or comes back, or a sweep that stops.
MCBudgets == {[pledges |-> 2, grants |-> 1, moves |-> 0], [pledges |-> 1, grants |-> 1, moves |-> 1]}

=============================================================================
