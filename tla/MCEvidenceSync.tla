--------------------------- MODULE MCEvidenceSync ---------------------------
(* A DB system with a database in it, or a user with an API key.            *)
EXTENDS EvidenceSync, TLC

CONSTANTS parent, child

MCResource == {parent, child}
MCParent == parent :> Root @@ child :> parent
MCLineage == parent :> {parent} @@ child :> {parent, child}
=============================================================================
