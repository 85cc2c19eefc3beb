----------------------------- MODULE TokenCache -----------------------------
(***************************************************************************)
(* The access token that a chat adapter keeps (tenantToken of feishu,      *)
(* accessToken of wecom and dingtalk): the callers of one replica, its     *)
(* worker and its handlers, ask for it under a mutex, fetch a new one when *)
(* the kept one has less than a margin left, and send with what they got.  *)
(* The platform is external: it issues tokens, judges the token of a       *)
(* message when the message arrives, and may invalidate what it issued.    *)
(* The adapters differ in what they take for a token: wecom and dingtalk   *)
(* look at the status of the answer and at the token in it, feishu at      *)
(* neither, so that an answer without a token goes out as the token "".    *)
(*                                                                         *)
(* A token is kept as whether there is one, and what is left of it, twice: *)
(* left, until the time the adapter wrote down when the answer came in,    *)
(* and good, until the platform stops taking it.  The two differ by the    *)
(* time the answer was under way.  Go's mutex hands itself over in the     *)
(* order of the waiters once one has waited a millisecond, which is less   *)
(* than a tick.  A caller makes one call in a tick; what it came to is     *)
(* seen until the next.                                                    *)
(***************************************************************************)
EXTENDS Naturals, FiniteSets, Sequences

CONSTANTS
    Callers,
    Lifetime,         \* of a token, as the platform says (two hours)
    Margin,           \* time before the expiry when a token is fetched anew (1 min)
    Timeout,          \* cut-off of an HTTP call (10 s)
    Trusting,         \* the adapter takes an answer without a token for one (feishu)
    MaxInvalidations  \* bound: early invalidations explored

ASSUME ConstantsAssumption ==
    /\ IsFiniteSet(Callers)
    /\ {Lifetime, Margin, Timeout} \subseteq Nat \ {0}
    /\ MaxInvalidations \in Nat
    /\ Trusting \in BOOLEAN
    /\ Margin >= 2 * Timeout
    /\ Lifetime > 2 * Timeout

VARIABLES
    cache,         \* the kept token, if there is one
    queue,         \* callers at the mutex, the first of them holds it
    pc,            \* what each caller is doing
    token,         \* what is good of the token each caller has
    bare,          \* callers that were answered without a token
    spent,         \* time spent in the current HTTP call
    waited,        \* time spent at the mutex, before holding it
    invalidations

vars == <<cache, queue, pc, token, bare, spent, waited, invalidations>>

Empty == [held |-> FALSE, left |-> 0, good |-> 0]

Init ==
    /\ cache = Empty
    /\ queue = <<>>
    /\ pc = [c \in Callers |-> "idle"]
    /\ token = [c \in Callers |-> 0]
    /\ bare = {}
    /\ spent = [c \in Callers |-> 0]
    /\ waited = [c \in Callers |-> 0]
    /\ invalidations = 0

Ended == {"idle", "failed", "accepted", "refused"}

OnTheWire == {"fetching", "answered", "sending"}

Holds(c) == queue # <<>> /\ Head(queue) = c

\* Send, Check or ExchangeCode calls for the token.
Ask(c) ==
    /\ pc[c] = "idle"
    /\ pc' = [pc EXCEPT ![c] = "asking"]
    /\ queue' = Append(queue, c)
    /\ waited' = [waited EXCEPT ![c] = 0]
    /\ UNCHANGED <<cache, token, bare, spent, invalidations>>

\* Mutants: no margin; kept for ever.
FreshWithoutMargin == cache.held /\ cache.left > 0
FreshForEver == cache.held

\* token # "" and now before expires minus the margin
Fresh == cache.held /\ cache.left > Margin

Unlock == queue' = Tail(queue)

BeginsCall(c, step) ==
    /\ pc' = [pc EXCEPT ![c] = step]
    /\ spent' = [spent EXCEPT ![c] = 0]

TakeKept(c) ==
    /\ Holds(c)
    /\ pc[c] = "asking"
    /\ Fresh
    /\ token' = [token EXCEPT ![c] = cache.good]
    /\ BeginsCall(c, "sending")
    /\ Unlock
    /\ UNCHANGED <<cache, bare, waited, invalidations>>

Stale(c) == ~Fresh

BeginFetch(c) ==
    /\ Holds(c)
    /\ pc[c] = "asking"
    /\ Stale(c)
    /\ BeginsCall(c, "fetching")
    /\ UNCHANGED <<cache, queue, token, bare, waited, invalidations>>

PlatformIssues(c) ==
    /\ pc[c] = "fetching"
    /\ pc' = [pc EXCEPT ![c] = "answered"]
    /\ token' = [token EXCEPT ![c] = Lifetime]
    /\ UNCHANGED <<cache, queue, bare, spent, waited, invalidations>>

\* The answer is JSON, does not name an error, and has no token in it.
PlatformOmits(c) ==
    /\ pc[c] = "fetching"
    /\ pc' = [pc EXCEPT ![c] = "answered"]
    /\ bare' = bare \cup {c}
    /\ UNCHANGED <<cache, queue, token, spent, waited, invalidations>>

\* The expiry is computed when the answer has been read; an answer may leave out the
\* lifetime, which is then zero.
EndFetch(c) ==
    /\ pc[c] = "answered"
    /\ c \in bare => Trusting
    /\ \E said \in {0, Lifetime} :
           cache' = IF c \in bare THEN Empty
                    ELSE [held |-> TRUE, left |-> said, good |-> token[c]]
    /\ BeginsCall(c, "sending")
    /\ Unlock
    /\ UNCHANGED <<token, bare, waited, invalidations>>

\* The call fails, the answer is not JSON or names an error, or the adapter looks for the
\* token and there is none; the kept token stays, and the next caller in the queue
\* starts a fetch of its own.
FailFetch(c) ==
    /\ pc[c] \in {"fetching", "answered"}
    /\ pc' = [pc EXCEPT ![c] = "failed"]
    /\ Unlock
    /\ UNCHANGED <<cache, token, bare, spent, waited, invalidations>>

\* The platform gets the message and looks at its token.
Judge(c) ==
    /\ pc[c] = "sending"
    /\ pc' = [pc EXCEPT ![c] = IF token[c] > 0 THEN "accepted" ELSE "refused"]
    /\ UNCHANGED <<cache, queue, token, bare, spent, waited, invalidations>>

\* The message does not arrive, or is refused for another reason.
FailSend(c) ==
    /\ pc[c] = "sending"
    /\ pc' = [pc EXCEPT ![c] = "failed"]
    /\ UNCHANGED <<cache, queue, token, bare, spent, waited, invalidations>>

\* The platform takes none of the tokens any more that it has issued.
Invalidate ==
    /\ invalidations < MaxInvalidations
    /\ invalidations' = invalidations + 1
    /\ cache' = [cache EXCEPT !.good = 0]
    /\ token' = [c \in Callers |-> 0]
    /\ UNCHANGED <<queue, pc, bare, spent, waited>>

Less(n) == IF n > 0 THEN n - 1 ELSE 0

\* Mutant: a client without a cut-off for the token.
InTimeUnlimited(c) == pc[c] = "sending" => spent[c] < Timeout

\* The HTTP client cuts a call off.
InTime(c) == pc[c] \in OnTheWire => spent[c] < Timeout

\* A caller that waits, but does not hold the mutex.
Waits(c) == pc[c] = "asking" /\ ~Holds(c)

\* Time passes, except between steps that need no answer from outside.
Tick ==
    /\ \A c \in Callers : InTime(c) /\ ~(pc[c] = "asking" /\ Holds(c))
    /\ cache' = [cache EXCEPT !.left = Less(@), !.good = Less(@)]
    /\ token' = [c \in Callers |-> IF pc[c] \in Ended THEN 0 ELSE Less(token[c])]
    /\ bare' = {c \in bare : pc[c] \notin Ended}
    /\ spent' = [c \in Callers |-> IF pc[c] \in OnTheWire /\ spent[c] <= Timeout
                                   THEN spent[c] + 1 ELSE 0]
    /\ waited' = [c \in Callers |-> IF Waits(c) THEN waited[c] + 1 ELSE waited[c]]
    /\ pc' = [c \in Callers |-> IF pc[c] \in Ended THEN "idle" ELSE pc[c]]
    /\ UNCHANGED <<queue, invalidations>>

CallStep(c) == TakeKept(c) \/ BeginFetch(c)

Answer(c) ==
    \/ PlatformIssues(c) \/ PlatformOmits(c) \/ EndFetch(c) \/ FailFetch(c)
    \/ Judge(c) \/ FailSend(c)

Next ==
    \/ \E c \in Callers : Ask(c) \/ CallStep(c) \/ Answer(c)
    \/ Invalidate
    \/ Tick

Spec == Init /\ [][Next]_vars

\* Callers go on, a call ends at its cut-off, time passes, and the outbox asks again
\* after each failure; a platform that is asked again and again answers with a token at
\* some time, and gets a message that has a good one.
Fairness ==
    /\ WF_vars(Tick)
    /\ \A c \in Callers :
           /\ WF_vars(Ask(c)) /\ WF_vars(CallStep(c)) /\ WF_vars(Answer(c))
           /\ SF_vars(PlatformIssues(c))
           /\ SF_vars(EndFetch(c) /\ c \notin bare)
           /\ SF_vars(Judge(c) /\ token[c] > 0)

FairSpec == Spec /\ Fairness

(***************************************************************************)
(* Properties                                                              *)
(***************************************************************************)

\* Types of the adapter's fields and of the callers; whoever is between the lock and
\* the unlock holds the mutex, and nobody stands in the queue twice.
TypeOK ==
    /\ cache \in [held : BOOLEAN, left : 0..Lifetime, good : 0..Lifetime]
    /\ queue \in Seq(Callers)
    /\ pc \in [Callers -> Ended \cup OnTheWire \cup {"asking"}]
    /\ token \in [Callers -> 0..Lifetime]
    /\ bare \subseteq Callers
    /\ spent \in [Callers -> 0..Timeout]
    /\ waited \in [Callers -> Nat]
    /\ invalidations \in 0..MaxInvalidations
    /\ \A i, j \in 1..Len(queue) : i # j => queue[i] # queue[j]
    /\ \A c \in Callers : pc[c] \in {"fetching", "answered"} => Holds(c)
    /\ \A c \in Callers :
           pc[c] \in {"asking", "fetching", "answered"} <=> \E i \in 1..Len(queue) : queue[i] = c

\* No message carries an expired token: the margin outlasts a slow answer and a slow
\* send together (60 s against twice 10 s), and a lifetime that the answer leaves out is
\* taken for none.  A message is refused for its token only when the platform took back
\* what it issued, or when this very call got an answer without a token, and the adapter
\* is feishu's, which looks neither at the status nor at the token (client.go:33, 50-58);
\* no other caller sends the empty token that such an answer left in the cache.
RefusalsExplained ==
    \A c \in Callers : pc[c] = "refused" => invalidations > 0 \/ (Trusting /\ c \in bare)

\* A token is fetched only while the kept one is due: of the callers that wait for a
\* fetch, none repeats it when it succeeded (client.go:31-35: the test is under the lock).
FetchedWhenDue ==
    \A c \in Callers :
        pc[c] \in {"fetching", "answered"} /\ cache.held => cache.left <= Margin

\* However often the platform fails, a caller waits at most for one HTTP call of each
\* other caller.  It can wait that long, since each starts a fetch of its own: a send
\* takes more than the cut-off of its own calls (client.go:31-42).
WaitBounded ==
    \A c \in Callers : waited[c] <= (Cardinality(Callers) - 1) * Timeout

\* A token that the platform invalidated is refused until it would have expired, and an
\* empty one is not kept for the next call; so the adapter heals by itself.
RefusalsEnd == \A c \in Callers : pc[c] = "refused" ~> pc[c] = "accepted"

=============================================================================
