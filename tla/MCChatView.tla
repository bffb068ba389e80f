----------------------------- MODULE MCChatView -----------------------------
(***************************************************************************)
(* Few messages: with five the vector grows four times and once takes an   *)
(* element in place.                                                       *)
(***************************************************************************)
EXTENDS ChatView
=============================================================================
