--------------------------- MODULE MCRateLimitKey ---------------------------
(***************************************************************************)
(* RateLimitKey with one service "s", the API methods "a" and "aa", and    *)
(* entities of up to two characters; burst 1, so one call spends a bucket. *)
(* MCRateLimitKey.cfg keeps ":" out of the entities; the _colon cfg lets   *)
(* an entity hold it, as an IPv6 address or a forwarded header may.        *)
(***************************************************************************)
EXTENDS RateLimitKey

MCServices == {<<"s">>}
MCMethods == {<<"a">>, <<"a", "a">>}
MCPlainChars == {"a"}
MCColonChars == {"a", ":"}

=============================================================================
