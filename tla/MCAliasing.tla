----------------------------- MODULE MCAliasing -----------------------------
(***************************************************************************)
(* One parameter, which forms have with one value or with none, and the    *)
(* list of token types.                                                    *)
(***************************************************************************)
EXTENDS Aliasing

MCStr == {"", "a"}
MCField == {"resource", "types"}
MCForms == { [resource |-> <<"a">>, types |-> <<>>],
             [resource |-> <<>>, types |-> <<>>] }
MCBuiltins == <<"a">>
=============================================================================
