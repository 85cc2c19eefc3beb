----------------------------- MODULE EventStream -----------------------------
(***************************************************************************)
(* The event stream of the console: rows of operation_events, numbered by  *)
(* a database sequence, and the Events handler that polls them for each    *)
(* connected client from a cursor.                                         *)
(*                                                                         *)
(* A row takes its number when it is inserted, which names it here, and    *)
(* becomes visible when its transaction commits: rows of other             *)
(* transactions may overtake it, and a rollback leaves a gap.  The handler *)
(* sends the number in the data of an event, never as the id of the event. *)
(* A client that reconnects therefore starts from the beginning, unless    *)
(* (Resuming) it puts the number into the Last-Event-ID header by itself.  *)
(***************************************************************************)
EXTENDS Naturals, FiniteSets, SequencesExt

CONSTANTS
    Clients,
    Resuming,   \* clients that resume from the last event they received
    Limit,      \* rows of a poll (100)
    MaxRows,    \* bound: rows inserted
    MaxDrops    \* bound: broken connections explored

Events == 1..MaxRows

ASSUME ConstantsAssumption ==
    /\ Resuming \subseteq Clients
    /\ Limit \in Nat \ {0}
    /\ {MaxRows, MaxDrops} \subseteq Nat

VARIABLES
    last,     \* the sequence of operation_events.id
    row,      \* "absent", "open" (not committed), "committed", "expired" or "undone"
    after,    \* the cursor of each client's handler
    flight,   \* events sent to each client that have not arrived yet
    got,      \* events a client received: all of them if it resumes, otherwise those
              \* of its present connection
    seen,     \* events each client ever received
    late,     \* ghost: rows that committed behind the cursor of a client
    drops

vars == <<last, row, after, flight, got, seen, late, drops>>

tableVars == <<last, row>>
clientVars == <<after, flight, got, seen>>

Init ==
    /\ last = 0
    /\ row = [e \in Events |-> "absent"]
    /\ after = [c \in Clients |-> 0]
    /\ flight = [c \in Clients |-> <<>>]
    /\ got = [c \in Clients |-> <<>>]
    /\ seen = [c \in Clients |-> {}]
    /\ late = [c \in Clients |-> {}]
    /\ drops = 0

(***************************************************************************)
(* Writers                                                                 *)
(***************************************************************************)

\* AppendEvent, inside the transaction that settles an operation or on its own.
Insert ==
    /\ last < MaxRows
    /\ last' = last + 1
    /\ row' = [row EXCEPT ![last + 1] = "open"]
    /\ UNCHANGED <<clientVars, late, drops>>

Commit(e) ==
    /\ row[e] = "open"
    /\ row' = [row EXCEPT ![e] = "committed"]
    /\ late' = [c \in Clients |-> IF after[c] > e THEN late[c] \cup {e} ELSE late[c]]
    /\ UNCHANGED <<last, clientVars, drops>>

\* The transition or its notification fails; the number is lost.
Rollback(e) ==
    /\ row[e] = "open"
    /\ row' = [row EXCEPT ![e] = "undone"]
    /\ UNCHANGED <<last, clientVars, late, drops>>

\* The row becomes older than 24 hours.
Expire(e) ==
    /\ row[e] = "committed"
    /\ row' = [row EXCEPT ![e] = "expired"]
    /\ UNCHANGED <<last, clientVars, late, drops>>

(***************************************************************************)
(* The handler and its clients                                             *)
(***************************************************************************)

\* Mutant: the stream waits for every number to appear.
VisibleGapless(n) == {e \in Events : row[e] = "committed" /\ e = n + 1}

Visible(n) == {e \in Events : row[e] = "committed" /\ e > n}

\* ORDER BY id.
InNumberOrder(rows) ==
    CHOOSE s \in [1..Cardinality(rows) -> rows] : \A i, j \in DOMAIN s : i < j => s[i] < s[j]

\* Mutant: the last rows, newest first.
RecentEventsNewest(n) ==
    Reverse(InNumberOrder({e \in Visible(n) : Cardinality({f \in Visible(n) : f > e}) < Limit}))

\* LIMIT: the first rows behind the cursor.
FirstVisible(n) == {e \in Visible(n) : Cardinality({f \in Visible(n) : f < e}) < Limit}

RecentEvents(n) == InNumberOrder(FirstVisible(n))

\* One turn of the loop: query, send, move the cursor.
Poll(c) ==
    /\ RecentEvents(after[c]) # <<>>
    /\ flight' = [flight EXCEPT ![c] = @ \o RecentEvents(after[c])]
    /\ after' = [after EXCEPT ![c] = Last(RecentEvents(after[c]))]
    /\ UNCHANGED <<tableVars, got, seen, late, drops>>

Receive(c) ==
    /\ flight[c] # <<>>
    /\ flight' = [flight EXCEPT ![c] = Tail(@)]
    /\ got' = [got EXCEPT ![c] = Append(@, Head(flight[c]))]
    /\ seen' = [seen EXCEPT ![c] = @ \cup {Head(flight[c])}]
    /\ UNCHANGED <<tableVars, after, late, drops>>

\* Mutant: the cursor of what was sent, whether or not it arrived.
LastEventIDSent(c) == after[c]

LastEventID(c) == IF c \in Resuming /\ got[c] # <<>> THEN Last(got[c]) ELSE 0

\* The connection breaks (or the query fails, which ends the handler): what was under
\* way is lost, and the next handler starts from the header of its request.
Reconnect(c) ==
    /\ drops < MaxDrops
    /\ drops' = drops + 1
    /\ after' = [after EXCEPT ![c] = LastEventID(c)]
    /\ flight' = [flight EXCEPT ![c] = <<>>]
    /\ got' = IF c \in Resuming THEN got ELSE [got EXCEPT ![c] = <<>>]
    /\ UNCHANGED <<tableVars, seen, late>>

Next ==
    \/ Insert
    \/ \E e \in Events : Commit(e) \/ Rollback(e) \/ Expire(e)
    \/ \E c \in Clients : Poll(c) \/ Receive(c) \/ Reconnect(c)

Spec == Init /\ [][Next]_vars

\* The handler's ticker keeps firing and an open connection delivers.
Fairness == \A c \in Clients : WF_vars(Poll(c)) /\ WF_vars(Receive(c))

FairSpec == Spec /\ Fairness

(***************************************************************************)
(* Properties                                                              *)
(***************************************************************************)

\* A client receives events in the order of their numbers and none twice: over all of
\* its connections if it resumes, within one otherwise (store.go:523, api.go:887-897).
InOrder ==
    \A c \in Clients :
        \A i, j \in DOMAIN got[c] : i < j => got[c][i] < got[c][j]

\* The committed rows that the cursor of a client passed without sending them.
Skipped(c) ==
    {e \in Events : /\ row[e] = "committed"
                    /\ e <= after[c]
                    /\ e \notin seen[c] \cup ToSet(flight[c])}

\* A client misses an event for one reason only: the event committed after one with a
\* greater number had been sent (store.go:403-416, 463-466, 523); broken connections
\* lose nothing.
SkipsExplained == \A c \in Clients : Skipped(c) \subseteq late[c]

\* Every other event arrives unless it expires first, whatever gaps the numbers have and
\* although a connection breaks.
EventuallyReceived ==
    \A c \in Clients, e \in Events :
        row[e] = "committed" ~> (e \in seen[c] \cup late[c] \/ row[e] = "expired")

=============================================================================
