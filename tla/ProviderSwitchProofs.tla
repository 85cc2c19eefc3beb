------------------------- MODULE ProviderSwitchProofs -------------------------
(***************************************************************************)
(* Proofs about ProviderSwitch, for every set of platforms, of webhook     *)
(* calls, of events and of administrators.                                 *)
(*                                                                         *)
(* An operation that was not created in a race has the active provider and *)
(* is seen by every change of the setting that is under way; so none of    *)
(* these can write before it ends.  An event's key makes its operation     *)
(* unique, and only the call that created an operation sends its card.     *)
(***************************************************************************)
EXTENDS ProviderSwitch, TLAPS

Exists(h) == operation[h].status # "none"

\* No change of the setting that is under way overlooks the unfinished operation of h.
SeenByChanges(h) ==
    /\ operation[h].provider = Active
    /\ \A a \in Admins : ~Overlooks(a, operation[h].provider)

SwitchInv ==
    \A h \in Hooks \ raced : operation[h].status = "unfinished" => SeenByChanges(h)

\* An operation has the key of its call, which is done with it or has its card to send.
OwnKey ==
    \A h \in Hooks :
        /\ hook[h].pc # "free" => hook[h].provider \in Chats /\ hook[h].event \in Events
        /\ hook[h].pc \in {"free", "admitted"} => operation[h] = NoOperation
        /\ hook[h].pc = "card" => Exists(h)
        /\ operation[h] = NoOperation \/
              /\ Exists(h)
              /\ operation[h].provider = hook[h].provider
              /\ operation[h].event = hook[h].event

KeysUnique ==
    \A h, other \in Hooks :
        (h # other /\ Exists(h) /\ operation[h].provider = operation[other].provider)
            => operation[h].event # operation[other].event

\* A card that was sent is that of an operation; none is sent while one is to be sent.
CardInv ==
    /\ \A p \in Chats, e \in Events :
           /\ cards[p][e] <= 1
           /\ cards[p][e] = 1 => \E h \in Hooks : operation[h].provider = p /\ operation[h].event = e
    /\ \A h \in Hooks :
           /\ hook[h].pc = "card" => cards[hook[h].provider][hook[h].event] = 0
           /\ (operation[h].gated /\ hook[h].pc \in {"reply", "done"} /\ h \notin faulted)
                  => cards[hook[h].provider][hook[h].event] = 1

IInv == TypeOK /\ OwnKey /\ SwitchInv /\ KeysUnique /\ CardInv

-----------------------------------------------------------------------------
\* The first state, in which nothing was delivered.
LEMMA InitIInv == Init => IInv
<1> SUFFICES ASSUME Init PROVE IInv
  OBVIOUS
<1> USE DEF Init
<1>1. TypeOK
  <2>1. Free \in HookState /\ NoOperation \in OperationState /\ Quiet \in AdminState
    BY DEF Free, HookState, NoOperation, OperationState, Quiet, AdminState
  <2>2. \A a \in Admins : admin[a].pc \notin {"count", "write"}
    BY DEF Quiet
  <2>3. QED
    BY <2>1, <2>2 DEF TypeOK
<1>2. OwnKey /\ SwitchInv /\ KeysUnique /\ CardInv
  BY DEF OwnKey, SwitchInv, KeysUnique, CardInv, Free, NoOperation, Exists
<1>3. QED
  BY <1>1, <1>2 DEF IInv

\* A record of its type in the place of one keeps the table's type.
LEMMA TableTypes ==
    ASSUME TypeOK
    PROVE  /\ \A h \in Hooks, state \in HookState : [hook EXCEPT ![h] = state] \in [Hooks -> HookState]
           /\ \A h \in Hooks, state \in OperationState :
                  [operation EXCEPT ![h] = state] \in [Hooks -> OperationState]
           /\ \A a \in Admins, state \in AdminState : [admin EXCEPT ![a] = state] \in [Admins -> AdminState]
  BY DEF TypeOK

\* A hook that goes on stays a hook.
LEMMA GoesType ==
    ASSUME TypeOK, NEW h \in Hooks, NEW pc \in {"card", "reply", "done"}, Goes(h, pc)
    PROVE  /\ hook' \in [Hooks -> HookState]
           /\ \A other \in Hooks : /\ hook'[other].provider = hook[other].provider
                                   /\ hook'[other].event = hook[other].event
                                   /\ hook'[other].pc = IF other = h THEN pc ELSE hook[other].pc
<1>1. hook \in [Hooks -> HookState] /\ hook[h] \in HookState
  BY DEF TypeOK
<1> DEFINE state == [hook[h] EXCEPT !.pc = pc]
<1>2. state \in HookState
  BY <1>1 DEF HookState
<1>3. hook' = [hook EXCEPT ![h] = state]
  BY <1>1 DEF Goes
<1>4. state.provider = hook[h].provider /\ state.event = hook[h].event /\ state.pc = pc
  BY <1>1 DEF HookState
<1> HIDE DEF state
<1>5. QED
  BY <1>1, <1>2, <1>3, <1>4

\* Every step keeps the types.
LEMMA TypeStep ==
    ASSUME IInv, [Next]_vars
    PROVE  TypeOK'
<1> USE ConstantsAssumption DEF IInv
<1>1. ASSUME UNCHANGED <<setting, operation, admin>>, hook' \in [Hooks -> HookState],
             raced' \subseteq Hooks, faulted' \subseteq Hooks,
             cards' \in [Chats -> [Events -> Nat]]
      PROVE  TypeOK'
  BY <1>1 DEF TypeOK
<1>2. ASSUME NEW a \in Admins, NEW state \in AdminState, admin' = [admin EXCEPT ![a] = state],
             state.pc \in {"count", "write"} => state.current # state.target,
             setting' \in Registered \cup {None}, UNCHANGED <<hook, operation, ghosts>>
      PROVE  TypeOK'
  BY <1>2, TableTypes DEF TypeOK, ghosts
<1>3. ASSUME InitializeActiveMessageProvider
      PROVE  TypeOK'
  BY <1>3 DEF InitializeActiveMessageProvider, ghosts, TypeOK
<1>4. ASSUME NEW h \in Hooks, NEW p \in Chats, NEW e \in Events, AdmitWebhook(h, p, e)
      PROVE  TypeOK'
  <2>1. [pc |-> "admitted", provider |-> p, event |-> e] \in HookState
    BY DEF HookState
  <2>2. QED
    BY <1>1, <1>4, <2>1, TableTypes DEF AdmitWebhook, ghosts, TypeOK
<1>5. ASSUME NEW h \in Hooks, NEW gated \in BOOLEAN, CreateFromWebhook(h, gated)
      PROVE  TypeOK'
  <2>1. [provider |-> hook[h].provider, event |-> hook[h].event,
         gated |-> gated, status |-> "unfinished"] \in OperationState
    BY DEF TypeOK, HookState, OperationState
  <2>2. operation' \in [Hooks -> OperationState]
    BY <1>5, <2>1, TableTypes DEF CreateFromWebhook
  <2>3. hook' \in [Hooks -> HookState]
    BY <1>5, GoesType DEF CreateFromWebhook
  <2>4. QED
    BY <1>5, <2>2, <2>3 DEF CreateFromWebhook, TypeOK
<1>6. ASSUME NEW h \in Hooks, CreateAgain(h) \/ RefuseWebhook(h) \/ RefuseCommand(h) \/ Reply(h)
      PROVE  TypeOK'
  <2>1. hook' \in [Hooks -> HookState]
    BY <1>6, GoesType DEF CreateAgain, RefuseWebhook, RefuseCommand, Reply
  <2>2. UNCHANGED <<setting, operation, admin, raced, faulted, cards>>
    BY <1>6 DEF CreateAgain, RefuseWebhook, RefuseCommand, Reply, ghosts
  <2>3. QED
    BY <1>1, <2>1, <2>2 DEF TypeOK
<1>7. ASSUME NEW h \in Hooks, SendCard(h)
      PROVE  TypeOK'
  <2>1. hook[h].provider \in Chats /\ hook[h].event \in Events
    BY <1>7 DEF SendCard, OwnKey
  <2>2. cards' \in [Chats -> [Events -> Nat]]
    BY <1>7, <2>1 DEF SendCard, TypeOK
  <2>3. hook' \in [Hooks -> HookState]
    BY <1>7, GoesType DEF SendCard
  <2>4. QED
    BY <1>1, <1>7, <2>2, <2>3 DEF SendCard, TypeOK
<1>8. ASSUME NEW h \in Hooks, LoseCard(h) \/ StopWebhook(h)
      PROVE  TypeOK'
  <2>1. hook' \in [Hooks -> HookState]
    BY <1>8, GoesType DEF LoseCard, StopWebhook
  <2>2. UNCHANGED <<setting, operation, admin, raced, cards>> /\ faulted' = faulted \cup {h}
    BY <1>8 DEF LoseCard, StopWebhook
  <2>3. QED
    BY <1>1, <2>1, <2>2 DEF TypeOK
<1>9. ASSUME NEW h \in Hooks, FinishOperation(h)
      PROVE  TypeOK'
  <2> DEFINE state == [operation[h] EXCEPT !.status = "finished"]
  <2>1. state \in OperationState
    BY DEF TypeOK, OperationState
  <2>2. operation' = [operation EXCEPT ![h] = state]
    BY <1>9 DEF FinishOperation, TypeOK
  <2>3. operation' \in [Hooks -> OperationState]
    BY <2>1, <2>2, TableTypes
  <2>4. QED
    BY <1>9, <2>3 DEF FinishOperation, ghosts, TypeOK
<1>10. ASSUME NEW a \in Admins, NEW p \in Providers, CheckProvider(a, p)
       PROVE  TypeOK'
  <2>1. [pc |-> "read", target |-> p, current |-> None] \in AdminState
    BY <1>10 DEF CheckProvider, AdminState
  <2>2. QED
    BY <1>2, <1>10, <2>1 DEF CheckProvider, TypeOK
<1>11. ASSUME NEW a \in Admins, ReadCurrent(a)
       PROVE  TypeOK'
  <2> DEFINE state == IF Active = admin[a].target THEN Quiet
                      ELSE [admin[a] EXCEPT !.pc = "count", !.current = Active]
  <2>1. Active \in Registered
    BY DEF Active, TypeOK
  <2>2. state \in AdminState /\ (state.pc \in {"count", "write"} => state.current # state.target)
    BY <2>1 DEF TypeOK, AdminState, Quiet
  <2>3. admin' = [admin EXCEPT ![a] = state]
    BY <1>11 DEF ReadCurrent
  <2> HIDE DEF state
  <2>4. QED
    BY <1>2, <1>11, <2>2, <2>3 DEF ReadCurrent, TypeOK
<1>12. ASSUME NEW a \in Admins, CountUnfinished(a)
       PROVE  TypeOK'
  <2> DEFINE state == IF Blocked(a) THEN Quiet ELSE [admin[a] EXCEPT !.pc = "write"]
  <2>1. state \in AdminState /\ (state.pc \in {"count", "write"} => state.current # state.target)
    BY <1>12 DEF CountUnfinished, TypeOK, AdminState, Quiet
  <2>2. admin' = [admin EXCEPT ![a] = state]
    BY <1>12 DEF CountUnfinished
  <2> HIDE DEF state
  <2>3. QED
    BY <1>2, <1>12, <2>1, <2>2 DEF CountUnfinished, TypeOK
<1>13. ASSUME NEW a \in Admins, WriteSetting(a) \/ AbandonSwitch(a)
       PROVE  TypeOK'
  <2>1. Quiet \in AdminState /\ Quiet.pc = "quiet"
    BY DEF AdminState, Quiet
  <2>2. admin[a].target \in Registered \cup {None}
    BY DEF TypeOK, AdminState
  <2>3. QED
    BY <1>2, <1>13, <2>1, <2>2 DEF WriteSetting, AbandonSwitch, TypeOK
<1>14. CASE UNCHANGED vars
  BY <1>14 DEF vars, TypeOK
<1>15. QED
  BY <1>3, <1>4, <1>5, <1>6, <1>7, <1>8, <1>9, <1>10, <1>11, <1>12, <1>13, <1>14 DEF Next

-----------------------------------------------------------------------------
\* What the steps of a call do to the keys.
LEMMA OwnKeyStep ==
    ASSUME IInv, [Next]_vars
    PROVE  OwnKey'
<1> USE DEF IInv
<1> DEFINE Key(h) ==
        /\ hook'[h].pc # "free" => hook'[h].provider \in Chats /\ hook'[h].event \in Events
        /\ hook'[h].pc \in {"free", "admitted"} => operation'[h] = NoOperation
        /\ hook'[h].pc = "card" => operation'[h].status # "none"
        /\ operation'[h] = NoOperation \/
              /\ operation'[h].status # "none"
              /\ operation'[h].provider = hook'[h].provider
              /\ operation'[h].event = hook'[h].event
<1>1. ASSUME NEW h \in Hooks, hook'[h] = hook[h], operation'[h] = operation[h]
      PROVE  Key(h)
  BY <1>1 DEF OwnKey, Exists
<1>2. ASSUME NEW other \in Hooks, NEW h \in Hooks, NEW p \in Chats, NEW e \in Events, AdmitWebhook(h, p, e)
      PROVE  Key(other)
  <2>1. other # h => hook'[other] = hook[other]
    BY <1>2 DEF AdmitWebhook, TypeOK
  <2>2. hook'[h] = [pc |-> "admitted", provider |-> p, event |-> e] /\ operation[h] = NoOperation
    BY <1>2 DEF AdmitWebhook, TypeOK, OwnKey
  <2>3. operation' = operation
    BY <1>2 DEF AdmitWebhook
  <2>4. QED
    BY <1>1, <2>1, <2>2, <2>3
<1>3. ASSUME NEW other \in Hooks, NEW h \in Hooks, NEW gated \in BOOLEAN, CreateFromWebhook(h, gated)
      PROVE  Key(other)
  <2>1. /\ hook'[other].provider = hook[other].provider
        /\ hook'[other].event = hook[other].event
        /\ hook'[h].pc \in {"card", "reply"}
        /\ other # h => hook'[other].pc = hook[other].pc /\ operation'[other] = operation[other]
    BY <1>3, GoesType DEF CreateFromWebhook, TypeOK
  <2>2. operation'[h] = [provider |-> hook[h].provider, event |-> hook[h].event,
                         gated |-> gated, status |-> "unfinished"]
    BY <1>3 DEF CreateFromWebhook, TypeOK
  <2>3. hook[h].provider \in Chats /\ hook[h].event \in Events
    BY <1>3 DEF CreateFromWebhook, OwnKey
  <2>4. CASE other = h
    BY <2>1, <2>2, <2>3, <2>4
  <2>5. CASE other # h
    BY <2>1, <2>5 DEF OwnKey, Exists
  <2>6. QED
    BY <2>4, <2>5
<1>4. ASSUME NEW other \in Hooks, NEW h \in Hooks,
             \/ CreateAgain(h) \/ RefuseWebhook(h) \/ RefuseCommand(h)
             \/ SendCard(h) \/ LoseCard(h) \/ Reply(h) \/ StopWebhook(h)
      PROVE  Key(other)
  <2>1. /\ hook'[other].provider = hook[other].provider
        /\ hook'[other].event = hook[other].event
        /\ hook'[h].pc \in {"reply", "done"} /\ hook[h].pc # "free"
        /\ other # h => hook'[other].pc = hook[other].pc
    BY <1>4, GoesType DEF CreateAgain, RefuseWebhook, RefuseCommand, SendCard, LoseCard, Reply, StopWebhook
  <2>2. operation' = operation
    BY <1>4 DEF CreateAgain, RefuseWebhook, RefuseCommand, SendCard, LoseCard, Reply, StopWebhook
  <2>3. QED
    BY <2>1, <2>2 DEF OwnKey, Exists
<1>5. ASSUME NEW other \in Hooks, NEW h \in Hooks, FinishOperation(h)
      PROVE  Key(other)
  <2>1. hook' = hook /\ (other # h => operation'[other] = operation[other])
    BY <1>5 DEF FinishOperation, TypeOK
  <2>2. /\ operation[h].status # "none"
        /\ operation'[h].status = "finished"
        /\ operation'[h].provider = operation[h].provider
        /\ operation'[h].event = operation[h].event
    BY <1>5 DEF FinishOperation, TypeOK, OperationState
  <2>3. operation[h] # NoOperation
    BY <2>2 DEF NoOperation
  <2>4. QED
    BY <2>1, <2>2, <2>3 DEF OwnKey, Exists
<1>6. ASSUME NEW other \in Hooks, UNCHANGED <<hook, operation>>
      PROVE  Key(other)
  BY <1>1, <1>6
<1>7. \A h \in Hooks : Key(h)
  BY <1>2, <1>3, <1>4, <1>5, <1>6 DEF Next, vars, InitializeActiveMessageProvider, CheckProvider,
     ReadCurrent, CountUnfinished, WriteSetting, AbandonSwitch
<1>8. QED
  BY <1>7 DEF OwnKey, Exists

\* Every step keeps the operations outside races in sight of the changes under way.
LEMMA SwitchStep ==
    ASSUME IInv, [Next]_vars
    PROVE  SwitchInv'
<1> USE DEF IInv
<1>1. ASSUME NEW h \in Hooks \ raced, operation[h].status = "unfinished"
      PROVE  /\ operation[h].provider \in Chats /\ operation[h].provider = Active
             /\ \A a \in Admins : ~Overlooks(a, operation[h].provider)
  BY <1>1 DEF SwitchInv, SeenByChanges, OwnKey, NoOperation
<1>2. ASSUME UNCHANGED <<setting, admin>>, raced \subseteq raced',
             \A h \in Hooks : operation'[h].status = "unfinished" =>
                 \/ operation'[h] = operation[h]
                 \/ ~Overlooked(operation'[h].provider) \/ h \in raced'
      PROVE  SwitchInv'
  <2> SUFFICES ASSUME NEW h \in Hooks, h \notin raced', operation'[h].status = "unfinished"
               PROVE  SeenByChanges(h)'
    BY DEF SwitchInv
  <2>1. /\ operation'[h].provider = Active
        /\ \A a \in Admins : ~Overlooks(a, operation'[h].provider)
    BY <1>1, <1>2 DEF Overlooked
  <2>2. QED
    BY <1>2, <2>1 DEF SeenByChanges, Overlooks, Active
<1>3. ASSUME UNCHANGED <<operation, raced>>,
             \A h \in Hooks \ raced : operation[h].status = "unfinished" => SeenByChanges(h)'
      PROVE  SwitchInv'
  BY <1>3 DEF SwitchInv
<1>4. CASE InitializeActiveMessageProvider
  <2>1. \A h \in Hooks \ raced : operation[h].status # "unfinished"
    BY <1>1, <1>4 DEF InitializeActiveMessageProvider, Active, Chats
  <2>2. QED
    BY <1>3, <1>4, <2>1 DEF InitializeActiveMessageProvider, ghosts
<1>5. ASSUME NEW h \in Hooks, NEW gated \in BOOLEAN, CreateFromWebhook(h, gated)
      PROVE  SwitchInv'
  <2>1. \A other \in Hooks \ {h} : operation'[other] = operation[other]
    BY <1>5 DEF CreateFromWebhook, TypeOK
  <2>2. operation'[h].provider = hook[h].provider
    BY <1>5 DEF CreateFromWebhook, TypeOK
  <2>3. ~Overlooked(hook[h].provider) \/ h \in raced'
    BY <1>5 DEF CreateFromWebhook
  <2>4. QED
    BY <1>2, <1>5, <2>1, <2>2, <2>3 DEF CreateFromWebhook
<1>6. ASSUME NEW h \in Hooks, FinishOperation(h)
      PROVE  SwitchInv'
  <2>1. \A other \in Hooks : operation'[other].status = "unfinished" => operation'[other] = operation[other]
    BY <1>6 DEF FinishOperation, TypeOK, OperationState
  <2>2. QED
    BY <1>2, <1>6, <2>1 DEF FinishOperation, ghosts
<1>7. ASSUME NEW a \in Admins, admin'[a].pc \in {"quiet", "read"},
             \A b \in Admins \ {a} : admin'[b] = admin[b],
             UNCHANGED <<setting, operation, raced>>
      PROVE  SwitchInv'
  BY <1>1, <1>3, <1>7 DEF SeenByChanges, Overlooks, Active
<1>8. ASSUME NEW a \in Admins, (\E p \in Providers : CheckProvider(a, p)) \/ AbandonSwitch(a)
      PROVE  SwitchInv'
  BY <1>7, <1>8 DEF CheckProvider, AbandonSwitch, Quiet, TypeOK, ghosts
<1>9. ASSUME NEW a \in Admins, ReadCurrent(a)
      PROVE  SwitchInv'
  <2>1. \A b \in Admins \ {a} : admin'[b] = admin[b]
    BY <1>9 DEF ReadCurrent, TypeOK
  <2>2. admin'[a].pc = "quiet" \/ (admin'[a].pc = "count" /\ admin'[a].current = Active)
    BY <1>9 DEF ReadCurrent, Quiet, TypeOK, AdminState
  <2>3. UNCHANGED <<setting, operation, raced>>
    BY <1>9 DEF ReadCurrent, ghosts
  <2>4. QED
    BY <1>1, <1>3, <2>1, <2>2, <2>3 DEF SeenByChanges, Overlooks, Active
<1>10. ASSUME NEW a \in Admins, CountUnfinished(a)
       PROVE  SwitchInv'
  <2>1. \A b \in Admins \ {a} : admin'[b] = admin[b]
    BY <1>10 DEF CountUnfinished, TypeOK
  <2>2. UNCHANGED <<setting, operation, raced>>
    BY <1>10 DEF CountUnfinished, ghosts
  <2>3. CASE Blocked(a)
    <3>1. admin'[a].pc = "quiet"
      BY <1>10, <2>3 DEF CountUnfinished, Quiet, TypeOK
    <3>2. QED
      BY <1>7, <2>1, <2>2, <3>1
  <2>4. CASE ~Blocked(a)
    <3>1. \A h \in Hooks \ raced : operation[h].status # "unfinished"
      BY <1>1, <1>10, <2>4 DEF CountUnfinished, Blocked, HasUnfinished, Overlooks
    <3>2. QED
      BY <1>3, <2>2, <3>1
  <2>5. QED
    BY <2>3, <2>4
<1>11. ASSUME NEW a \in Admins, WriteSetting(a)
       PROVE  SwitchInv'
  <2>1. \A h \in Hooks \ raced : operation[h].status # "unfinished"
    BY <1>1, <1>11 DEF WriteSetting, Overlooks
  <2>2. QED
    BY <1>3, <1>11, <2>1 DEF WriteSetting, ghosts
<1>12. CASE UNCHANGED <<setting, admin, operation, raced>>
  BY <1>2, <1>12
<1>13. QED
  BY <1>4, <1>5, <1>6, <1>8, <1>9, <1>10, <1>11, <1>12 DEF Next, vars, AdmitWebhook, CreateAgain,
     RefuseWebhook, RefuseCommand, SendCard, LoseCard, Reply, StopWebhook, ghosts

-----------------------------------------------------------------------------
\* What a step does to the operations: one is created under a key that is not taken, one
\* is finished, or none changes.
LEMMA OperationStep ==
    ASSUME IInv, [Next]_vars
    PROVE  \/ \E h \in Hooks, gated \in BOOLEAN : CreateFromWebhook(h, gated)
           \/ \A h \in Hooks : /\ operation'[h].provider = operation[h].provider
                               /\ operation'[h].event = operation[h].event
                               /\ operation'[h].gated = operation[h].gated
                               /\ Exists(h)' <=> Exists(h)
<1>1. CASE \E h \in Hooks : FinishOperation(h)
  BY <1>1 DEF FinishOperation, IInv, TypeOK, OperationState, Exists
<1>2. CASE UNCHANGED operation
  BY <1>2 DEF Exists
<1>3. QED
  BY <1>1, <1>2 DEF Next, vars, InitializeActiveMessageProvider, AdmitWebhook, CreateAgain,
     RefuseWebhook, RefuseCommand, SendCard, LoseCard, Reply, StopWebhook,
     CheckProvider, ReadCurrent, CountUnfinished, WriteSetting, AbandonSwitch

\* An operation comes into being under a key that no other has.
LEMMA Created ==
    ASSUME IInv, NEW h \in Hooks, NEW gated \in BOOLEAN, CreateFromWebhook(h, gated)
    PROVE  /\ \A other \in Hooks \ {h} : /\ operation'[other] = operation[other]
                                         /\ \/ operation[other].provider # hook[h].provider
                                            \/ operation[other].event # hook[h].event
           /\ operation'[h].provider = hook[h].provider
           /\ operation'[h].event = hook[h].event
           /\ operation'[h].gated = gated
           /\ Exists(h)'
  BY DEF CreateFromWebhook, KeyTaken, IInv, TypeOK, Exists

\* Every step keeps the keys of the operations apart.
LEMMA KeysStep ==
    ASSUME IInv, [Next]_vars
    PROVE  KeysUnique'
<1>1. ASSUME NEW h \in Hooks, NEW gated \in BOOLEAN, CreateFromWebhook(h, gated)
      PROVE  KeysUnique'
  BY <1>1, Created DEF IInv, KeysUnique, Exists
<1>2. CASE \A h \in Hooks : /\ operation'[h].provider = operation[h].provider
                            /\ operation'[h].event = operation[h].event
                            /\ Exists(h)' <=> Exists(h)
  BY <1>2 DEF IInv, KeysUnique
<1>3. QED
  BY <1>1, <1>2, OperationStep

\* Every step keeps the count of cards.
LEMMA CardStep ==
    ASSUME IInv, [Next]_vars
    PROVE  CardInv'
<1> USE DEF IInv
<1>1. ASSUME UNCHANGED cards, faulted \subseteq faulted',
             \A h \in Hooks : /\ operation'[h].provider = operation[h].provider
                              /\ operation'[h].event = operation[h].event
                              /\ operation'[h].gated = operation[h].gated,
             \A h \in Hooks : hook'[h] = hook[h] \/
                 /\ hook'[h].provider = hook[h].provider
                 /\ hook'[h].event = hook[h].event
                 /\ hook'[h].pc \in {"reply", "done"}
                 /\ hook[h].pc = "reply" \/ h \in faulted' \/ ~operation[h].gated
      PROVE  CardInv'
  <2>1. \A p \in Chats, e \in Events :
            /\ cards'[p][e] <= 1
            /\ cards'[p][e] = 1 => \E h \in Hooks : operation'[h].provider = p /\ operation'[h].event = e
    BY <1>1 DEF CardInv
  <2>2. \A h \in Hooks :
            /\ hook'[h].pc = "card" => cards'[hook'[h].provider][hook'[h].event] = 0
            /\ (operation'[h].gated /\ hook'[h].pc \in {"reply", "done"} /\ h \notin faulted')
                   => cards'[hook'[h].provider][hook'[h].event] = 1
    BY <1>1 DEF CardInv
  <2>3. QED
    BY <2>1, <2>2 DEF CardInv
<1>2. ASSUME NEW h \in Hooks, NEW p \in Chats, NEW e \in Events, AdmitWebhook(h, p, e)
      PROVE  CardInv'
  <2>1. hook'[h].pc = "admitted" /\ \A other \in Hooks \ {h} : hook'[other] = hook[other]
    BY <1>2 DEF AdmitWebhook, TypeOK
  <2>2. UNCHANGED <<cards, faulted, operation>>
    BY <1>2 DEF AdmitWebhook, ghosts
  <2>3. QED
    BY <2>1, <2>2 DEF CardInv
<1>3. ASSUME NEW h \in Hooks, NEW gated \in BOOLEAN, CreateFromWebhook(h, gated)
      PROVE  CardInv'
  <2>1. /\ hook'[h].pc = IF gated THEN "card" ELSE "reply"
        /\ hook'[h].provider = hook[h].provider
        /\ hook'[h].event = hook[h].event
        /\ \A other \in Hooks \ {h} : hook'[other].pc = hook[other].pc
        /\ \A other \in Hooks : /\ hook'[other].provider = hook[other].provider
                                /\ hook'[other].event = hook[other].event
    BY <1>3, GoesType DEF CreateFromWebhook
  <2>2. UNCHANGED <<cards, faulted>>
    BY <1>3 DEF CreateFromWebhook
  <2>3. hook[h].provider \in Chats /\ hook[h].event \in Events /\ operation[h] = NoOperation
    BY <1>3 DEF CreateFromWebhook, OwnKey
  <2>4. cards[hook[h].provider][hook[h].event] = 0
    <3>1. \A other \in Hooks : ~(/\ operation[other].provider = hook[h].provider
                                 /\ operation[other].event = hook[h].event)
      BY <1>3 DEF CreateFromWebhook, KeyTaken
    <3>2. cards[hook[h].provider][hook[h].event] # 1
      BY <2>3, <3>1 DEF CardInv
    <3>3. /\ cards[hook[h].provider][hook[h].event] <= 1
          /\ cards[hook[h].provider][hook[h].event] \in Nat
      BY <2>3 DEF CardInv, TypeOK
    <3>4. QED
      BY <3>2, <3>3
  <2>5. \A p \in Chats, e \in Events :
            /\ cards'[p][e] <= 1
            /\ cards'[p][e] = 1 => \E other \in Hooks : operation'[other].provider = p /\ operation'[other].event = e
    <3> SUFFICES ASSUME NEW p \in Chats, NEW e \in Events
                 PROVE  /\ cards[p][e] <= 1
                        /\ cards[p][e] = 1 => \E other \in Hooks : operation'[other].provider = p /\ operation'[other].event = e
      BY <2>2
    <3>1. ASSUME cards[p][e] = 1
          PROVE  \E other \in Hooks \ {h} : operation[other].provider = p /\ operation[other].event = e
      BY <2>3, <3>1, ConstantsAssumption DEF CardInv, NoOperation, Chats
    <3>2. QED
      BY <1>3, <3>1, Created DEF CardInv
  <2>6. QED
    BY <1>3, <2>1, <2>2, <2>4, <2>5, Created DEF CardInv
<1>4. ASSUME NEW h \in Hooks, CreateAgain(h) \/ RefuseWebhook(h) \/ RefuseCommand(h) \/ Reply(h)
      PROVE  CardInv'
  <2>1. /\ hook'[h].pc \in {"reply", "done"}
        /\ hook[h].pc = "reply" \/ hook[h].pc = "admitted"
        /\ \A other \in Hooks : /\ hook'[other].provider = hook[other].provider
                                /\ hook'[other].event = hook[other].event
        /\ \A other \in Hooks \ {h} : hook'[other] = hook[other]
    BY <1>4, GoesType DEF CreateAgain, RefuseWebhook, RefuseCommand, Reply, Goes, TypeOK
  <2>2. hook[h].pc = "admitted" => ~operation[h].gated
    BY DEF OwnKey, NoOperation
  <2>3. UNCHANGED <<cards, faulted, operation>>
    BY <1>4 DEF CreateAgain, RefuseWebhook, RefuseCommand, Reply, ghosts
  <2>4. QED
    BY <1>1, <2>1, <2>2, <2>3
<1>5. ASSUME NEW h \in Hooks, LoseCard(h) \/ StopWebhook(h)
      PROVE  CardInv'
  <2>1. /\ hook'[h].pc \in {"reply", "done"}
        /\ \A other \in Hooks : /\ hook'[other].provider = hook[other].provider
                                /\ hook'[other].event = hook[other].event
        /\ \A other \in Hooks \ {h} : hook'[other] = hook[other]
    BY <1>5, GoesType DEF LoseCard, StopWebhook, Goes, TypeOK
  <2>2. UNCHANGED <<cards, operation>> /\ faulted' = faulted \cup {h}
    BY <1>5 DEF LoseCard, StopWebhook
  <2>3. QED
    BY <1>1, <2>1, <2>2
<1>6. ASSUME NEW h \in Hooks, SendCard(h)
      PROVE  CardInv'
  <2> DEFINE p == hook[h].provider
             e == hook[h].event
  <2>1. p \in Chats /\ e \in Events /\ cards[p][e] = 0
    BY <1>6 DEF SendCard, OwnKey, CardInv
  <2>2. /\ hook'[h].pc = "reply"
        /\ \A other \in Hooks : /\ hook'[other].provider = hook[other].provider
                                /\ hook'[other].event = hook[other].event
        /\ \A other \in Hooks \ {h} : hook'[other].pc = hook[other].pc
    BY <1>6, GoesType DEF SendCard
  <2>3. UNCHANGED <<operation, faulted>>
    BY <1>6 DEF SendCard
  <2>4. /\ cards'[p][e] = 1
        /\ \A q \in Chats, f \in Events : q # p \/ f # e => cards'[q][f] = cards[q][f]
    BY <1>6, <2>1 DEF SendCard, TypeOK
  <2>5. operation[h].provider = p /\ operation[h].event = e /\ Exists(h)
    BY <1>6 DEF SendCard, OwnKey, NoOperation, Exists
  <2> HIDE DEF p, e
  <2>6. \A q \in Chats, f \in Events :
            /\ cards'[q][f] <= 1
            /\ cards'[q][f] = 1 => \E other \in Hooks : operation'[other].provider = q /\ operation'[other].event = f
    BY <2>3, <2>4, <2>5 DEF CardInv
  <2>7. \A other \in Hooks \ {h} : Exists(other) => hook[other].provider # p \/ hook[other].event # e
    BY <2>5 DEF KeysUnique, OwnKey, Exists, NoOperation
  <2>8. \A other \in Hooks \ {h} :
            hook[other].pc = "card" \/ (operation[other].gated /\ hook[other].pc \in {"reply", "done"})
            => /\ hook[other].provider \in Chats /\ hook[other].event \in Events
               /\ Exists(other)
    BY DEF OwnKey, Exists, NoOperation
  <2>9. \A other \in Hooks \ {h} :
            /\ hook'[other].pc = "card" => cards'[hook'[other].provider][hook'[other].event] = 0
            /\ (operation'[other].gated /\ hook'[other].pc \in {"reply", "done"} /\ other \notin faulted')
                   => cards'[hook'[other].provider][hook'[other].event] = 1
    BY <2>2, <2>3, <2>4, <2>7, <2>8 DEF CardInv
  <2>10. hook'[h].pc # "card" /\ cards'[hook'[h].provider][hook'[h].event] = 1
    BY <2>2, <2>4 DEF p, e
  <2>11. QED
    BY <2>6, <2>9, <2>10 DEF CardInv
<1>7. ASSUME NEW h \in Hooks, FinishOperation(h)
      PROVE  CardInv'
  <2>1. \A other \in Hooks : /\ operation'[other].provider = operation[other].provider
                             /\ operation'[other].event = operation[other].event
                             /\ operation'[other].gated = operation[other].gated
    BY <1>7 DEF FinishOperation, TypeOK, OperationState
  <2>2. UNCHANGED <<hook, cards, faulted>>
    BY <1>7 DEF FinishOperation, ghosts
  <2>3. QED
    BY <1>1, <2>1, <2>2
<1>8. CASE UNCHANGED <<hook, operation, cards, faulted>>
  BY <1>1, <1>8
<1>9. QED
  BY <1>2, <1>3, <1>4, <1>5, <1>6, <1>7, <1>8 DEF Next, vars, ghosts,
     InitializeActiveMessageProvider, CheckProvider, ReadCurrent, CountUnfinished, WriteSetting,
     AbandonSwitch

-----------------------------------------------------------------------------
(***************************************************************************)
(* What every reachable state satisfies                                    *)
(***************************************************************************)

\* The invariant that the proofs rest on.
THEOREM Invariance == Spec => []IInv
<1>1. Init => IInv
  BY InitIInv
<1>2. IInv /\ [Next]_vars => IInv'
  BY TypeStep, OwnKeyStep, SwitchStep, KeysStep, CardStep DEF IInv
<1>3. QED
  BY <1>1, <1>2, PTL DEF Spec

\* The setting, the calls, the operations and the changes have their types.
THEOREM TypeCorrect == Spec => []TypeOK
<1>1. IInv => TypeOK
  BY DEF IInv
<1>2. QED
  BY <1>1, Invariance, PTL

\* Only an operation that was created in a race with a change of the provider is left
\* behind by it.
THEOREM OrphansExplainedHolds == Spec => []OrphansExplained
<1>1. IInv => OrphansExplained
  BY DEF IInv, SwitchInv, SeenByChanges, OrphansExplained, Orphans
<1>2. QED
  BY <1>1, Invariance, PTL

\* However its deliveries overlap, an event becomes one operation and one card at most.
THEOREM DeliveredOnceHolds == Spec => []DeliveredOnce
<1>1. IInv => DeliveredOnce
  BY DEF IInv, KeysUnique, CardInv, DeliveredOnce, Exists
<1>2. QED
  BY <1>1, Invariance, PTL

\* A call that created an operation that needs approval, and is over, has asked for it,
\* unless it was stopped or its send failed.
THEOREM MissingCardsExplainedHolds == Spec => []MissingCardsExplained
<1>1. IInv => MissingCardsExplained
  BY DEF IInv, CardInv, OwnKey, NoOperation, MissingCardsExplained
<1>2. QED
  BY <1>1, Invariance, PTL

=============================================================================
