---------------------------- MODULE MCEventStream ----------------------------
(***************************************************************************)
(* Three rows, one client that resumes and one that starts over.           *)
(***************************************************************************)
EXTENDS EventStream

CONSTANTS browser, resuming

=============================================================================
