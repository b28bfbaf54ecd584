----------------------------- MODULE MCFrontEnd -----------------------------
(***************************************************************************)
(* A small instance of FrontEnd: paths of up to five characters over one   *)
(* letter and "/", so that every split case occurs (one, two and three     *)
(* pieces, empty pieces, a remainder holding separators); a verb the       *)
(* gateway knows and one it does not; an empty and a non-empty body.       *)
(***************************************************************************)
EXTENDS FrontEnd

MCChars == {"a"}
MCVerbs == {"GET", "HEAD"}
MCBodies == {<<>>, <<"b">>}
MCStatuses == {200, 404}

=============================================================================
