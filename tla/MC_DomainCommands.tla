------------------------- MODULE MC_DomainCommands -------------------------
(* The domains of the DevTools protocol that the wrappers address.        *)
EXTENDS DomainCommands

MCProtocolDomains == {"Database", "DOM", "Log", "Overlay", "ServiceWorker",
                      "Storage"}
=============================================================================
