----------------------------- MODULE MCRegistry -----------------------------
(***************************************************************************)
(* A small instance of TokenTypeRegistry: one built-in, one URI to         *)
(* register, and the empty string, which is not a URI.                     *)
(***************************************************************************)
EXTENDS TokenTypeRegistry

MCBuiltin == { "urn:ietf:params:oauth:token-type:jwt" }
MCExtension == "urn:example:custom"
MCURI == MCBuiltin \cup { MCExtension, GrantTypeTokenExchange }
MCStr == MCURI \cup { "", "not-a-uri", ErrCodeInvalidRequest,
                      ErrCodeInvalidClient, ErrCodeUnsupportedGrantType }

MCAsked == MCBuiltin \cup { MCExtension, "" }
=============================================================================
