----------------------------- MODULE MCControl -----------------------------
(* Instances of Control for TLC: control connections are numbered.       *)
EXTENDS Control, TLC

\* One OpenSIPS process.
OneOpenSIPS == (1 :> "opensips")

\* Two OpenSIPS connections and a management client.
WithManagement == (1 :> "opensips") @@ (2 :> "opensips") @@ (3 :> "management")

\* One OpenSIPS connection and a management client.
OneOfEach == (1 :> "opensips") @@ (2 :> "management")
=============================================================================
