---------------------------- MODULE MCErrorChain ----------------------------
(***************************************************************************)
(* Model values for ErrorChain: two codes, a description, a structural     *)
(* failure and one of a parameter.                                         *)
(***************************************************************************)
EXTENDS ErrorChain

MCCode == {"invalid_target", "invalid_client"}
MCText == {"text"}
MCFailure == { Validation("request", "", "nil_request"),
               Validation("response", "subject_token", "missing") }
=============================================================================
