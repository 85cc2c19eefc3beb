--------------------------- MODULE ProviderSwitch ---------------------------
(***************************************************************************)
(* Which chat platform may talk to the service, and what becomes of the    *)
(* events it delivers: the stored choice of the active message provider,   *)
(* the administrators who change it (Select and the transaction of         *)
(* SetActiveMessageProvider), and the webhook calls that create operations *)
(* under it, ask for approval and answer.                                  *)
(*                                                                         *)
(* That transaction runs READ COMMITTED and locks nothing it reads: each   *)
(* of its statements is a step of its own.  So is each database access and *)
(* each send of a webhook call.  A platform delivers an event again when a *)
(* call was not answered, or was answered late; every delivery is a call   *)
(* of its own.  Ghosts: raced collects the operations whose creation       *)
(* crossed a change of the active provider in one of the ways that         *)
(* Overlooked spells out, faulted the calls that stopped or whose card the *)
(* platform did not take, cards how often it took the card of each event.  *)
(***************************************************************************)
EXTENDS Naturals, FiniteSets

CONSTANTS
    Providers,    \* web and the chat platforms
    web,
    Registered,   \* providers the registry of every replica holds
    Configured,   \* those with credentials
    Initial,      \* CHATOPS_MESSAGE_PROVIDER
    Hooks,        \* webhook calls, each of one event
    Events,       \* event ids of a platform
    Admins,       \* administrators changing the setting
    None

Chats == Providers \ {web}

ASSUME ConstantsAssumption ==
    /\ web \in Registered /\ web \in Configured
    /\ Registered \subseteq Providers /\ Configured \subseteq Providers
    /\ Initial \in Registered
    /\ None \notin Providers

VARIABLES
    setting,    \* the row active_message_provider of system_settings
    hook,       \* progress of each webhook call
    operation,  \* the operation each webhook call created
    admin,      \* progress of each change of the setting
    raced, faulted, cards

vars == <<setting, hook, operation, admin, raced, faulted, cards>>

ghosts == <<raced, faulted, cards>>

Free == [pc |-> "free", provider |-> None, event |-> None]
Quiet == [pc |-> "quiet", target |-> None, current |-> None]
NoOperation == [provider |-> None, event |-> None, gated |-> FALSE, status |-> "none"]

Init ==
    /\ setting = None
    /\ hook = [h \in Hooks |-> Free]
    /\ operation = [h \in Hooks |-> NoOperation]
    /\ admin = [a \in Admins |-> Quiet]
    /\ raced = {}
    /\ faulted = {}
    /\ cards = [p \in Chats |-> [e \in Events |-> 0]]

\* GetActiveMessageProvider: a missing row means web.
Active == IF setting = None THEN web ELSE setting

\* Startup stores the configured provider unless a choice is stored.
InitializeActiveMessageProvider ==
    /\ setting = None
    /\ setting' = Initial
    /\ UNCHANGED <<hook, operation, admin, ghosts>>

(***************************************************************************)
(* Webhooks                                                                *)
(***************************************************************************)

Admitted(p) == p = Active /\ p \in Registered \ {web}

\* Webhook reads the active provider; another platform gets 404.
AdmitWebhook(h, p, e) ==
    /\ hook[h].pc = "free"
    /\ p \in Chats
    /\ Admitted(p)
    /\ hook' = [hook EXCEPT ![h] = [pc |-> "admitted", provider |-> p, event |-> e]]
    /\ UNCHANGED <<setting, operation, admin, ghosts>>

\* A change of the setting under way that will not see a new operation of p: it has
\* counted already, or it counts those of the provider it read before.
Overlooks(a, p) ==
    \/ admin[a].pc = "write"
    \/ admin[a].pc = "count" /\ admin[a].current # p

Overlooked(p) == p # Active \/ \E a \in Admins : Overlooks(a, p)

Goes(h, pc) == hook' = [hook EXCEPT ![h].pc = pc]

\* The idempotency key is provider:event, and unique.
KeyTaken(h) ==
    \E other \in Hooks : /\ operation[other].provider = hook[h].provider
                         /\ operation[other].event = hook[h].event

\* The command passes its checks and becomes an unfinished operation of that
\* platform, whatever the active provider is by now.  On an environment that requires
\* approval it is pending, and its card is next.
CreateFromWebhook(h, gated) ==
    /\ hook[h].pc = "admitted"
    /\ ~KeyTaken(h)
    /\ Goes(h, IF gated THEN "card" ELSE "reply")
    /\ operation' = [operation EXCEPT ![h] =
                        [provider |-> hook[h].provider, event |-> hook[h].event,
                         gated |-> gated, status |-> "unfinished"]]
    /\ raced' = IF Overlooked(hook[h].provider) THEN raced \cup {h} ELSE raced
    /\ UNCHANGED <<setting, admin, faulted, cards>>

\* Mutant: a delivery that finds the operation there asks for approval again.
CreateAgainWithCard(h) ==
    /\ hook[h].pc = "admitted"
    /\ KeyTaken(h)
    /\ Goes(h, "card")
    /\ UNCHANGED <<setting, operation, admin, ghosts>>

\* The insert fails on the key: the reply reports an error, and no card is sent.
CreateAgain(h) ==
    /\ hook[h].pc = "admitted"
    /\ KeyTaken(h)
    /\ Goes(h, "reply")
    /\ UNCHANGED <<setting, operation, admin, ghosts>>

\* Decode refuses the event, or it is no command.
RefuseWebhook(h) ==
    /\ hook[h].pc = "admitted"
    /\ Goes(h, "done")
    /\ UNCHANGED <<setting, operation, admin, ghosts>>

\* Identity, permission or arguments refuse the command: only a reply.
RefuseCommand(h) ==
    /\ hook[h].pc = "admitted"
    /\ Goes(h, "reply")
    /\ UNCHANGED <<setting, operation, admin, ghosts>>

\* Mutant: the card goes to the active platform.
SendCardToActive(h) ==
    /\ hook[h].pc = "card"
    /\ Goes(h, "reply")
    /\ cards' = IF Active \in Chats THEN [cards EXCEPT ![Active][hook[h].event] = @ + 1] ELSE cards
    /\ UNCHANGED <<setting, operation, admin, raced, faulted>>

\* The card goes straight to the platform of the event, not through the outbox.
SendCard(h) ==
    /\ hook[h].pc = "card"
    /\ Goes(h, "reply")
    /\ cards' = [cards EXCEPT ![hook[h].provider][hook[h].event] = @ + 1]
    /\ UNCHANGED <<setting, operation, admin, raced, faulted>>

\* Its error is dropped.
LoseCard(h) ==
    /\ hook[h].pc = "card"
    /\ Goes(h, "reply")
    /\ faulted' = faulted \cup {h}
    /\ UNCHANGED <<setting, operation, admin, raced, cards>>

\* The reply is sent, with its error dropped, and the platform gets its 200.
Reply(h) ==
    /\ hook[h].pc = "reply"
    /\ Goes(h, "done")
    /\ UNCHANGED <<setting, operation, admin, ghosts>>

\* The replica stops, or the platform hangs up and the context of the call ends.
StopWebhook(h) ==
    /\ hook[h].pc \in {"admitted", "card", "reply"}
    /\ Goes(h, "done")
    /\ faulted' = faulted \cup {h}
    /\ UNCHANGED <<setting, operation, admin, raced, cards>>

\* A rejection or the end of the execution finishes the operation.
FinishOperation(h) ==
    /\ operation[h].status = "unfinished"
    /\ operation' = [operation EXCEPT ![h].status = "finished"]
    /\ UNCHANGED <<setting, hook, admin, ghosts>>

(***************************************************************************)
(* Changing the setting                                                    *)
(***************************************************************************)
HasUnfinished(p) ==
    \E h \in Hooks : operation[h].provider = p /\ operation[h].status = "unfinished"

\* Select: the provider is registered and configured, and its health check passes
\* (a check that fails ends the request and changes nothing here).
CheckProvider(a, p) ==
    /\ setting # None
    /\ admin[a].pc = "quiet"
    /\ p \in Registered \cap Configured
    /\ admin' = [admin EXCEPT ![a] = [pc |-> "read", target |-> p, current |-> None]]
    /\ UNCHANGED <<setting, hook, operation, ghosts>>

ReadCurrent(a) ==
    /\ admin[a].pc = "read"
    /\ admin' = [admin EXCEPT ![a] =
                    IF Active = admin[a].target
                    THEN Quiet
                    ELSE [@ EXCEPT !.pc = "count", !.current = Active]]
    /\ UNCHANGED <<setting, hook, operation, ghosts>>

\* Mutant: the operations of the new provider are counted, not those of the old one.
BlockedByTarget(a) == HasUnfinished(admin[a].target)

Blocked(a) == HasUnfinished(admin[a].current)

\* ErrConflict ends the transaction while the current provider owns unfinished work.
CountUnfinished(a) ==
    /\ admin[a].pc = "count"
    /\ admin' = [admin EXCEPT ![a] = IF Blocked(a) THEN Quiet ELSE [@ EXCEPT !.pc = "write"]]
    /\ UNCHANGED <<setting, hook, operation, ghosts>>

\* The upsert and the commit.
WriteSetting(a) ==
    /\ admin[a].pc = "write"
    /\ setting' = admin[a].target
    /\ admin' = [admin EXCEPT ![a] = Quiet]
    /\ UNCHANGED <<hook, operation, ghosts>>

\* An error, or a replica that stops, rolls the transaction back.
AbandonSwitch(a) ==
    /\ admin[a].pc # "quiet"
    /\ admin' = [admin EXCEPT ![a] = Quiet]
    /\ UNCHANGED <<setting, hook, operation, ghosts>>

Next ==
    \/ InitializeActiveMessageProvider
    \/ \E h \in Hooks :
           \/ \E p \in Chats, e \in Events : AdmitWebhook(h, p, e)
           \/ \E gated \in BOOLEAN : CreateFromWebhook(h, gated)
           \/ CreateAgain(h) \/ RefuseWebhook(h) \/ RefuseCommand(h)
           \/ SendCard(h) \/ LoseCard(h) \/ Reply(h) \/ StopWebhook(h)
           \/ FinishOperation(h)
    \/ \E a \in Admins :
           \/ \E p \in Providers : CheckProvider(a, p)
           \/ ReadCurrent(a) \/ CountUnfinished(a) \/ WriteSetting(a) \/ AbandonSwitch(a)

Spec == Init /\ [][Next]_vars

(***************************************************************************)
(* Properties                                                              *)
(***************************************************************************)

HookState ==
    [pc : {"free", "admitted", "card", "reply", "done"},
     provider : Chats \cup {None}, event : Events \cup {None}]

OperationState ==
    [provider : Chats \cup {None}, event : Events \cup {None},
     gated : BOOLEAN, status : {"none", "unfinished", "finished"}]

AdminState ==
    [pc : {"quiet", "read", "count", "write"},
     target : Registered \cup {None}, current : Registered \cup {None}]

\* Types of the setting, the webhooks and the operations (store.go:260-313); a change
\* goes on past its first read only if it changes something.
TypeOK ==
    /\ setting \in Registered \cup {None}
    /\ hook \in [Hooks -> HookState]
    /\ operation \in [Hooks -> OperationState]
    /\ admin \in [Admins -> AdminState]
    /\ \A a \in Admins : admin[a].pc \in {"count", "write"} => admin[a].current # admin[a].target
    /\ raced \subseteq Hooks /\ faulted \subseteq Hooks
    /\ cards \in [Chats -> [Events -> Nat]]

\* The operations of the provider that is not active any more.
Orphans == {h \in Hooks : /\ operation[h].status = "unfinished"
                          /\ operation[h].provider # Active}

\* An unfinished operation is left behind by a change of provider only if it was
\* created after that change committed, after it had counted, or while it was counting
\* for a provider that another administrator had replaced (store.go:290-306,
\* api.go:33-42).  Every other change is refused.
OrphansExplained == Orphans \subseteq raced

\* However often a platform delivers an event, and however its deliveries overlap, the
\* event becomes one operation and asks for approval once at most (api.go:114, 130-138).
DeliveredOnce ==
    /\ \A h, other \in Hooks :
           (/\ h # other /\ operation[h].status # "none"
            /\ operation[h].provider = operation[other].provider)
           => operation[h].event # operation[other].event
    /\ \A p \in Chats, e \in Events : cards[p][e] <= 1

\* When the call that created an operation is over, the chat has been asked to approve
\* it if it needs approval, unless that call was stopped or its send failed: nothing
\* asks again, since another delivery of the event only finds the key (api.go:134-139).
MissingCardsExplained ==
    \A h \in Hooks :
        (operation[h].gated /\ hook[h].pc = "done" /\ h \notin faulted)
            => cards[operation[h].provider][operation[h].event] = 1

=============================================================================
