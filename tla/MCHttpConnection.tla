-------------------------- MODULE MCHttpConnection --------------------------
(* HttpConnection with buffers of a few units. *)
EXTENDS HttpConnection
=============================================================================
