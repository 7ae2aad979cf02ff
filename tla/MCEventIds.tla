------------------------------ MODULE MCEventIds ------------------------------
(* Values for the constants of EventIds. *)
EXTENDS EventIds

MCEventTypes == {"connect", "warning"}
MCDefaultEvents == {"connect", "warning"}
MCLists == {{}, {"warning"}}
=============================================================================
