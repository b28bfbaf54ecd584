----------------------------- MODULE MCDescribe -----------------------------
(***************************************************************************)
(* Every SDK configuration with up to two API methods, one permission,     *)
(* lists of at most one element, and the HTTP methods GET and PATCH (the   *)
(* last case of both conversion switches).                                 *)
(***************************************************************************)
EXTENDS Describe

MCMethods == {"ma", "mb"}
MCPerms == {"p"}
MCBursts == {1}
MCVerbs == {"get", "patch"}

=============================================================================
