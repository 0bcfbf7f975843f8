----------------------------- MODULE MCSessionIO -----------------------------
(* One client that may enter the world twice. *)
EXTENDS SessionIO
=============================================================================
