------------------------------- MODULE MCBoot -------------------------------
(***************************************************************************)
(* Boot started with every config that sets or leaves out the Auth0       *)
(* domain, the public address and the sync period, and lists up to two     *)
(* services, each with or without a name, an address, an audience and a    *)
(* timeout.  One service name, so two services may share it.               *)
(***************************************************************************)
EXTENDS Boot

MCNames == {"a"}

MCServiceRecords ==
    [name : MCNames \cup {""}, address : {"", "addr"},
     m2mAudience : {"", "aud"}, timeout : {0, 30}]

MCConfigs ==
    {[publicAddress |-> p, adminAddress |-> "", auth0Domain |-> d,
      auth0Audience |-> "aud", auth0ClientID |-> "id",
      auth0ClientSecret |-> "secret", redisAddress |-> "", syncPeriod |-> t,
      services |-> svcs] :
        p \in {"", ":8080"}, d \in {"", "https://tenant/"}, t \in {0, 30},
        svcs \in {<<>>} \cup [1..1 -> MCServiceRecords]
                        \cup [1..2 -> MCServiceRecords]}

=============================================================================
