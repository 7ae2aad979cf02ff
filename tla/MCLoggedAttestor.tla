--------------------------- MODULE MCLoggedAttestor ---------------------------
(* Values for the constants of LoggedAttestor. *)
EXTENDS LoggedAttestor

MCLists == {{}, {"pay"}, {Entry, "listfunds", "signmessage"}}
=============================================================================
