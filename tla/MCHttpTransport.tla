--------------------------- MODULE MCHttpTransport ---------------------------
(* HttpTransport on a small instance. *)
EXTENDS HttpTransport

CONSTANTS e1, e2
=============================================================================
