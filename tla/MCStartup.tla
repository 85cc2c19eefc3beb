----------------------------- MODULE MCStartup -----------------------------
(***************************************************************************)
(* Two replicas on a new or a half migrated database, during the rollout   *)
(* of a new configuration: another secret, another provider and no         *)
(* development login.                                                      *)
(***************************************************************************)
EXTENDS Startup

CONSTANTS r1, r2, feishu, old, new

MCMigrations == 1..2

MCConfigurations ==
    {[secret |-> old, provider |-> web, dev |-> TRUE],
     [secret |-> new, provider |-> feishu, dev |-> FALSE]}

=============================================================================
