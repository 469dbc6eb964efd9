------------------------------ MODULE MCDelivery ------------------------------
(* Small instances of Delivery for TLC. *)
EXTENDS Delivery

CONSTANTS h1

\* A notified participant between two edits; three cards of which two are inline in turn.
MCPlans == {<<<<"notify", "other">>, <<"card", "other">>, <<"screen", "caller">>>>,
            <<<<"card", "inline">>, <<"card", "inline">>, <<"reply", "caller">>>>}

=============================================================================
