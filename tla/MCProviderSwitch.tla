-------------------------- MODULE MCProviderSwitch --------------------------
(***************************************************************************)
(* Web and two chat platforms, two administrators and two webhook calls.   *)
(* The third platform is registered but has no credentials.                *)
(***************************************************************************)
EXTENDS ProviderSwitch, TLC

CONSTANTS feishu, wecom, dingtalk, h1, h2, a1, a2, e1, e2

\* Calls are alike, and so are administrators and events.
Symmetry == Permutations(Hooks) \cup Permutations(Admins) \cup Permutations(Events)

=============================================================================
