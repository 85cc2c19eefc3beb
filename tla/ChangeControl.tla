---------------------------- MODULE ChangeControl ----------------------------
(***************************************************************************)
(* What the operation life cycle promises, with no database, worker or     *)
(* cluster in it: a change is proposed by somebody; a change that is gated *)
(* starts only after somebody else consented to it; a change starts at     *)
(* most once, touches its target at most once and only while it is         *)
(* started; and a change that was refused or that ended never moves again. *)
(*                                                                         *)
(* Operations implements this specification: see Control and               *)
(* ImplementsChangeControl there, and the proof in OperationsProofs.       *)
(***************************************************************************)
EXTENDS Naturals

CONSTANTS Changes, People, Nobody

VARIABLES
    phase,      \* where each change stands
    proposer,   \* who proposed it
    gated,      \* the changes that need consent before they start
    consent,    \* who consented to each change
    effects     \* how many times each change has touched its target

vars == <<phase, proposer, gated, consent, effects>>

Init ==
    /\ phase = [c \in Changes |-> "absent"]
    /\ proposer = [c \in Changes |-> Nobody]
    /\ gated = {}
    /\ consent = [c \in Changes |-> {}]
    /\ effects = [c \in Changes |-> 0]

Propose(c, who) ==
    /\ phase[c] = "absent"
    /\ proposer' = [proposer EXCEPT ![c] = who]
    /\ \/ /\ phase' = [phase EXCEPT ![c] = "proposed"]
          /\ gated' = gated \cup {c}
       \/ /\ phase' = [phase EXCEPT ![c] = "authorised"]
          /\ gated' = gated
    /\ UNCHANGED <<consent, effects>>

Authorise(c, who) ==
    /\ phase[c] = "proposed"
    /\ who # proposer[c]
    /\ phase' = [phase EXCEPT ![c] = "authorised"]
    /\ consent' = [consent EXCEPT ![c] = @ \cup {who}]
    /\ UNCHANGED <<proposer, gated, effects>>

Refuse(c, who) ==
    /\ phase[c] = "proposed"
    /\ who # proposer[c]
    /\ phase' = [phase EXCEPT ![c] = "refused"]
    /\ UNCHANGED <<proposer, gated, consent, effects>>

Start(c) ==
    /\ phase[c] = "authorised"
    /\ phase' = [phase EXCEPT ![c] = "started"]
    /\ UNCHANGED <<proposer, gated, consent, effects>>

TakeEffect(c) ==
    /\ phase[c] = "started"
    /\ effects[c] = 0
    /\ effects' = [effects EXCEPT ![c] = 1]
    /\ UNCHANGED <<phase, proposer, gated, consent>>

End(c) ==
    /\ phase[c] = "started"
    /\ phase' = [phase EXCEPT ![c] = "ended"]
    /\ UNCHANGED <<proposer, gated, consent, effects>>

Next ==
    \E c \in Changes :
        \/ \E who \in People : Propose(c, who) \/ Authorise(c, who) \/ Refuse(c, who)
        \/ Start(c) \/ TakeEffect(c) \/ End(c)

Spec == Init /\ [][Next]_vars

=============================================================================
