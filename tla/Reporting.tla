----------------------------- MODULE Reporting -----------------------------
(***************************************************************************)
(* What a person who asked for a change in a chat may rely on: whatever    *)
(* the chat is told of the outcome is the outcome that was recorded, it is *)
(* told after that was recorded, and only if the chat had asked.  Messages *)
(* may be repeated; they are never taken back and never contradict.        *)
(***************************************************************************)
CONSTANTS Changes, Outcomes, Unknown

VARIABLES
    asked,      \* the changes that were asked for in a chat
    recorded,   \* the recorded outcome of each change, or Unknown
    heard       \* the outcomes the chat was told, for each change

vars == <<asked, recorded, heard>>

Init ==
    /\ asked = {}
    /\ recorded = [c \in Changes |-> Unknown]
    /\ heard = [c \in Changes |-> {}]

Ask(c) ==
    /\ recorded[c] = Unknown
    /\ asked' = asked \cup {c}
    /\ UNCHANGED <<recorded, heard>>

Record(c) ==
    /\ recorded[c] = Unknown
    /\ \E outcome \in Outcomes : recorded' = [recorded EXCEPT ![c] = outcome]
    /\ UNCHANGED <<asked, heard>>

Tell(c) ==
    /\ c \in asked
    /\ recorded[c] # Unknown
    /\ heard' = [heard EXCEPT ![c] = @ \cup {recorded[c]}]
    /\ UNCHANGED <<asked, recorded>>

Next == \E c \in Changes : Ask(c) \/ Record(c) \/ Tell(c)

Spec == Init /\ [][Next]_vars

=============================================================================
