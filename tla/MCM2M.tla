------------------------------- MODULE MCM2M --------------------------------
(***************************************************************************)
(* M2M with a lifetime below the ten-minute margin (5: the timer fires at  *)
(* once), one equal to it (10) and two above it (15 and 60), in minutes.  *)
(***************************************************************************)
EXTENDS M2M

MCExpiresIn == {5, 10, 15, 60}

=============================================================================
