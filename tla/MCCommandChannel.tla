--------------------------- MODULE MCCommandChannel ---------------------------
(***************************************************************************)
(* Three commands in one or two sessions.                                  *)
(***************************************************************************)
EXTENDS CommandChannel

MCMode == {"rule", "global"}
=============================================================================
