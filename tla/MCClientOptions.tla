-------------------------- MODULE MCClientOptions ---------------------------
(***************************************************************************)
(* Two clients, the http.Client of the standard library, one in its place  *)
(* and lists of up to three options.                                         *)
(***************************************************************************)
EXTENDS ClientOptions
=============================================================================
