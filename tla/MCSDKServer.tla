---------------------------- MODULE MCSDKServer -----------------------------
(***************************************************************************)
(* A small instance of SDKServer: two API methods, one handler given to    *)
(* New and one registered later by a goroutine, two RPCs, and options with *)
(* and without M2M validation, with and without a domain.                  *)
(***************************************************************************)
EXTENDS SDKServer

CONSTANTS ma, mb, r1, c1, c2

MCMethods == {ma, mb}
MCRegistrars == {r1}
MCRegMethod == [r \in MCRegistrars |-> mb]
MCCalls == {c1, c2}

\* A backend checking M2M tokens, one that sets no domain, one whose
\* options New rejects, and one with a domain but M2MValidation off.
MCOptions ==
    { [address |-> "addr", domain |-> "dom", audience |-> "aud",
       m2mValidation |-> TRUE, settingsValid |-> TRUE, handlers |-> {ma}],
      [address |-> "addr", domain |-> Empty, audience |-> Empty,
       m2mValidation |-> FALSE, settingsValid |-> TRUE, handlers |-> {ma}],
      [address |-> "addr", domain |-> Empty, audience |-> Empty,
       m2mValidation |-> TRUE, settingsValid |-> TRUE, handlers |-> {}],
      [address |-> "addr", domain |-> "dom", audience |-> Empty,
       m2mValidation |-> FALSE, settingsValid |-> TRUE, handlers |-> {}] }

=============================================================================
