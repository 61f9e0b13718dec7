--------------------------- MODULE MC_EventHandlers ---------------------------
(* Instantiates EventHandlers for TLC with three listener identities.     *)
EXTENDS EventHandlers

CONSTANTS h1, h2, h3

MCHandlers == {h1, h2, h3}
=============================================================================
