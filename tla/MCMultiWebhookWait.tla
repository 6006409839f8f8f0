------------------------ MODULE MCMultiWebhookWait ------------------------
(***************************************************************************)
(* Two expected calls, callbacks of either with two payloads, and an       *)
(* execution that enters two waits.                                        *)
(***************************************************************************)
EXTENDS MultiWebhookWait

CONSTANTS h1, h2, alice, bob, x, y

MCHandlers == {h1, h2}
MCKeys == {alice, bob}
MCPayloads == {x, y}
===========================================================================
