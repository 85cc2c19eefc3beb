-------------------------- MODULE TokenCacheProofs --------------------------
(***************************************************************************)
(* Proofs about the access token of a chat adapter: no message carries an  *)
(* expired token, a token is fetched only when it is due, and no caller    *)
(* waits at the mutex for more than one HTTP call of each other caller,    *)
(* whatever the number of callers and the times, as long as the margin is  *)
(* two cut-offs.                                                           *)
(*                                                                         *)
(* Good says how far the platform's idea of a token may be behind the      *)
(* adapter's: by the time an answer was under way, so by one cut-off when  *)
(* it is kept and by two when it is sent.  InPlace charges each place of   *)
(* the queue one cut-off, of which the holder has used a part.             *)
(***************************************************************************)
EXTENDS TokenCache, SequenceTheorems, FiniteSetTheorems, TLAPS

-----------------------------------------------------------------------------
(***************************************************************************)
(* The invariant                                                           *)
(***************************************************************************)

\* Callers in a call that holds the mutex.
Fetching == {"fetching", "answered"}

\* Callers at the mutex.
AtMutex == {"asking", "fetching", "answered"}

\* What is left of a token, unless the platform invalidated what it issued.
Good ==
    invalidations = 0 =>
        /\ cache.held => cache.left <= cache.good + Timeout
        /\ \A c \in Callers \ bare :
               /\ pc[c] = "answered" => token[c] + spent[c] >= Lifetime
               /\ pc[c] = "sending" => token[c] + spent[c] > Timeout

\* A caller that was answered without a token sends only if the adapter trusts the
\* platform; the mark is gone when it asks again.
Bare ==
    \A c \in bare :
        /\ pc[c] \notin {"idle", "asking", "fetching"}
        /\ pc[c] \in {"sending", "refused"} => Trusting

\* The time that the holder has spent in its call.
HolderSpent ==
    IF queue # <<>> /\ pc[queue[1]] \in Fetching THEN spent[queue[1]] ELSE 0

\* The longest that a caller waits.
Bound == (Cardinality(Callers) - 1) * Timeout

\* What a caller waited, and will wait for those in front of it.
InPlace ==
    \A i \in 1..Len(queue) : waited[queue[i]] + (i - 1) * Timeout <= Bound + HolderSpent

IInv ==
    /\ TypeOK
    /\ Good
    /\ Bare
    /\ RefusalsExplained
    /\ FetchedWhenDue
    /\ InPlace
    /\ WaitBounded

-----------------------------------------------------------------------------
(***************************************************************************)
(* The queue                                                               *)
(***************************************************************************)

\* The facts of TypeOK about the queue of the mutex.
Queued(q, p) ==
    /\ q \in Seq(Callers)
    /\ \A i, j \in 1..Len(q) : i # j => q[i] # q[j]
    /\ \A c \in Callers : p[c] \in Fetching => q # <<>> /\ Head(q) = c
    /\ \A c \in Callers : p[c] \in AtMutex <=> \E i \in 1..Len(q) : q[i] = c

\* TypeOK says so.
LEMMA TypeQueued == TypeOK => Queued(queue, pc)
  BY DEF TypeOK, Queued, Fetching, AtMutex, Holds

\* The caller that holds the mutex is the first of the queue.
LEMMA FirstHolds ==
    ASSUME NEW q \in Seq(Callers), q # <<>>
    PROVE  Len(q) \in Nat \ {0} /\ Head(q) = q[1] /\ q[1] \in Callers
<1>1. Len(q) \in Nat \ {0}
  BY EmptySeq
<1>2. QED
  BY <1>1, LenProperties

\* A caller that is not at the mutex joins at the end.
LEMMA Joins ==
    ASSUME NEW q, NEW p, Queued(q, p), NEW c \in Callers, p[c] \notin AtMutex,
           p \in [Callers -> Ended \cup OnTheWire \cup {"asking"}]
    PROVE  Queued(Append(q, c), [p EXCEPT ![c] = "asking"])
<1> DEFINE r == Append(q, c)
           s == [p EXCEPT ![c] = "asking"]
<1>1. q \in Seq(Callers) /\ Len(q) \in Nat
  BY LenProperties DEF Queued
<1>2. /\ r \in Seq(Callers) /\ r # <<>> /\ Len(r) = Len(q) + 1
      /\ \A i \in 1..Len(q) : r[i] = q[i]
      /\ r[Len(q) + 1] = c
  BY <1>1, AppendProperties
<1>3. \A d \in Callers : s[d] = IF d = c THEN "asking" ELSE p[d]
  OBVIOUS
<1>4. \A i \in 1..Len(q) : q[i] # c
  BY DEF Queued
<1> HIDE DEF r, s
<1>5. \A i, j \in 1..Len(r) : i # j => r[i] # r[j]
  BY <1>1, <1>2, <1>4 DEF Queued
<1>6. ASSUME NEW d \in Callers, s[d] \in Fetching
      PROVE  r # <<>> /\ Head(r) = d
  <2>1. d # c /\ p[d] \in Fetching
    BY <1>3, <1>6 DEF Fetching
  <2>2. q # <<>> /\ Head(q) = d
    BY <2>1 DEF Queued
  <2>3. q[1] = d /\ 1 \in 1..Len(q)
    BY <1>1, <2>2, FirstHolds
  <2>4. QED
    BY <1>2, <2>3, FirstHolds
<1>7. ASSUME NEW d \in Callers
      PROVE  s[d] \in AtMutex <=> \E i \in 1..Len(r) : r[i] = d
  <2>1. CASE d = c
    <3>1. Len(q) + 1 \in 1..Len(r)
      BY <1>1, <1>2
    <3>2. QED
      BY <1>2, <1>3, <2>1, <3>1 DEF AtMutex
  <2>2. CASE d # c
    <3>1. s[d] \in AtMutex <=> \E i \in 1..Len(q) : q[i] = d
      BY <1>3, <2>2 DEF Queued
    <3>2. (\E i \in 1..Len(q) : q[i] = d) => \E i \in 1..Len(r) : r[i] = d
      BY <1>1, <1>2
    <3>3. (\E i \in 1..Len(r) : r[i] = d) => \E i \in 1..Len(q) : q[i] = d
      BY <1>1, <1>2, <2>2
    <3>4. QED
      BY <3>1, <3>2, <3>3
  <2>3. QED
    BY <2>1, <2>2
<1>8. QED
  BY <1>2, <1>5, <1>6, <1>7 DEF Queued, r, s

\* The holder leaves, and does nothing more at the mutex; nobody else is in a call.
LEMMA Leaves ==
    ASSUME NEW q, NEW p, Queued(q, p), NEW c \in Callers, q # <<>>, Head(q) = c,
           NEW s, \A d \in Callers \ {c} : s[d] = p[d], s[c] \notin AtMutex
    PROVE  Queued(Tail(q), s) /\ \A d \in Callers : s[d] \notin Fetching
<1> DEFINE r == Tail(q)
<1>1. q \in Seq(Callers) /\ Len(q) \in Nat \ {0} /\ q[1] = c
  BY FirstHolds DEF Queued
<1>2. /\ r \in Seq(Callers) /\ Len(r) = Len(q) - 1
      /\ \A i \in 1..Len(r) : r[i] = q[i + 1]
  BY <1>1, HeadTailProperties
<1> HIDE DEF r
<1>3. ASSUME NEW i \in 1..Len(r), NEW j \in 1..Len(r), i # j
      PROVE  r[i] # r[j]
  <2>1. i + 1 \in 1..Len(q) /\ j + 1 \in 1..Len(q) /\ i + 1 # j + 1
    BY <1>1, <1>2, <1>3
  <2>2. q[i + 1] # q[j + 1]
    BY <2>1 DEF Queued
  <2>3. QED
    BY <1>2, <2>2
<1>4. \A d \in Callers : s[d] \notin Fetching
  BY DEF Queued, Fetching, AtMutex
<1>5. ASSUME NEW d \in Callers
      PROVE  s[d] \in AtMutex <=> \E i \in 1..Len(r) : r[i] = d
  <2>1. CASE d = c
    <3>1. \A i \in 1..Len(r) : i + 1 \in 1..Len(q) /\ i + 1 # 1 /\ 1 \in 1..Len(q)
      BY <1>1, <1>2
    <3>2. \A i \in 1..Len(r) : r[i] # c
      BY <1>1, <1>2, <3>1 DEF Queued
    <3>3. QED
      BY <2>1, <3>2
  <2>2. CASE d # c
    <3>1. s[d] \in AtMutex <=> \E i \in 1..Len(q) : q[i] = d
      BY <2>2 DEF Queued
    <3>2. ASSUME NEW i \in 1..Len(q), q[i] = d
          PROVE  \E j \in 1..Len(r) : r[j] = d
      <4>1. i # 1
        BY <1>1, <2>2, <3>2
      <4>2. i - 1 \in 1..Len(r) /\ (i - 1) + 1 = i
        BY <1>1, <1>2, <4>1
      <4>3. QED
        BY <1>2, <3>2, <4>2
    <3>3. ASSUME NEW i \in 1..Len(r), r[i] = d
          PROVE  \E j \in 1..Len(q) : q[j] = d
      <4>1. i + 1 \in 1..Len(q)
        BY <1>1, <1>2
      <4>2. QED
        BY <1>2, <3>3, <4>1
    <3>4. QED
      BY <3>1, <3>2, <3>3
  <2>3. QED
    BY <2>1, <2>2
<1>6. QED
  BY <1>2, <1>3, <1>4, <1>5 DEF Queued, r

\* A step that leaves the queue alone, and nobody comes to or leaves the mutex but its
\* holder from one part of its fetch to the next.
LEMMA Stays ==
    ASSUME NEW q, NEW p, Queued(q, p), NEW s,
           \A d \in Callers : s[d] \in AtMutex <=> p[d] \in AtMutex,
           \A d \in Callers : s[d] \in Fetching => p[d] \in Fetching \/ (q # <<>> /\ Head(q) = d)
    PROVE  Queued(q, s)
  BY DEF Queued

-----------------------------------------------------------------------------
(***************************************************************************)
(* Types                                                                   *)
(***************************************************************************)

\* The types of what is not the queue.
Typed ==
    /\ cache \in [held : BOOLEAN, left : 0..Lifetime, good : 0..Lifetime]
    /\ pc \in [Callers -> Ended \cup OnTheWire \cup {"asking"}]
    /\ token \in [Callers -> 0..Lifetime]
    /\ bare \subseteq Callers
    /\ spent \in [Callers -> 0..Timeout]
    /\ waited \in [Callers -> Nat]
    /\ invalidations \in 0..MaxInvalidations

\* The two together are TypeOK.
LEMMA TypeSplit == TypeOK <=> Typed /\ Queued(queue, pc)
  BY DEF TypeOK, Typed, Queued, Fetching, AtMutex, Holds

\* The bounds are numbers, the cut-off and the lifetime at least one.
LEMMA Times ==
    /\ Lifetime \in Nat \ {0} /\ Margin \in Nat \ {0} /\ Timeout \in Nat \ {0}
    /\ MaxInvalidations \in Nat
    /\ Margin >= 2 * Timeout /\ Lifetime > 2 * Timeout
    /\ Cardinality(Callers) \in Nat
  BY ConstantsAssumption, FS_CardinalityType

\* The values that a step assigns have their types.
LEMMA TypedStep ==
    ASSUME Typed, Next
    PROVE  Typed'
<1> USE Times
<1>1. ASSUME NEW c \in Callers, Ask(c) \/ CallStep(c)
      PROVE  Typed'
  <2>1. CASE Ask(c)
    BY <2>1 DEF Ask, Typed
  <2>2. CASE TakeKept(c)
    <3>1. cache.good \in 0..Lifetime
      BY DEF Typed
    <3>2. QED
      BY <2>2, <3>1 DEF TakeKept, BeginsCall, Typed, OnTheWire
  <2>3. CASE BeginFetch(c)
    BY <2>3 DEF BeginFetch, BeginsCall, Typed, OnTheWire
  <2>4. QED
    BY <1>1, <2>1, <2>2, <2>3 DEF CallStep
<1>2. ASSUME NEW c \in Callers, Answer(c)
      PROVE  Typed'
  <2>1. CASE PlatformIssues(c) \/ PlatformOmits(c)
    BY <2>1 DEF PlatformIssues, PlatformOmits, Typed, OnTheWire
  <2>2. CASE EndFetch(c)
    <3>1. token[c] \in 0..Lifetime
      BY DEF Typed
    <3>2. cache' \in [held : BOOLEAN, left : 0..Lifetime, good : 0..Lifetime]
      BY <2>2, <3>1 DEF EndFetch, Empty
    <3>3. QED
      BY <2>2, <3>2 DEF EndFetch, BeginsCall, Typed, OnTheWire
  <2>3. CASE FailFetch(c) \/ Judge(c) \/ FailSend(c)
    BY <2>3 DEF FailFetch, Judge, FailSend, Typed, Ended
  <2>4. QED
    BY <1>2, <2>1, <2>2, <2>3 DEF Answer
<1>3. CASE Invalidate
  <2>1. invalidations' \in 0..MaxInvalidations
    BY <1>3 DEF Invalidate, Typed
  <2>2. cache' \in [held : BOOLEAN, left : 0..Lifetime, good : 0..Lifetime]
    BY <1>3 DEF Invalidate, Typed
  <2>3. QED
    BY <1>3, <2>1, <2>2 DEF Invalidate, Typed
<1>4. CASE Tick
  <2>1. \A n \in 0..Lifetime : Less(n) \in 0..Lifetime
    BY DEF Less
  <2>2. cache' \in [held : BOOLEAN, left : 0..Lifetime, good : 0..Lifetime]
    BY <1>4, <2>1 DEF Tick, Typed
  <2>3. token' \in [Callers -> 0..Lifetime]
    BY <1>4, <2>1 DEF Tick, Typed
  <2>4. spent' \in [Callers -> 0..Timeout]
    BY <1>4 DEF Tick, InTime, Typed
  <2>5. waited' \in [Callers -> Nat]
    BY <1>4 DEF Tick, Typed
  <2>6. pc' \in [Callers -> Ended \cup OnTheWire \cup {"asking"}]
    BY <1>4 DEF Tick, Typed, Ended
  <2>7. bare' \subseteq Callers
    BY <1>4 DEF Tick, Typed
  <2>8. QED
    BY <1>4, <2>2, <2>3, <2>4, <2>5, <2>6, <2>7 DEF Tick, Typed
<1>5. QED
  BY <1>1, <1>2, <1>3, <1>4 DEF Next

\* The steps of a caller at the mutex.
LEMMA QueuedStep ==
    ASSUME TypeOK, Next
    PROVE  Queued(queue, pc)'
<1>1. Typed /\ Queued(queue, pc)
  BY TypeSplit
<1>2. ASSUME NEW c \in Callers, Ask(c)
      PROVE  Queued(queue', pc')
  <2>1. pc[c] \notin AtMutex /\ queue' = Append(queue, c) /\ pc' = [pc EXCEPT ![c] = "asking"]
    BY <1>2 DEF Ask, AtMutex
  <2>2. QED
    BY <1>1, <2>1, Joins DEF Typed
<1>3. ASSUME NEW c \in Callers, TakeKept(c) \/ EndFetch(c) \/ FailFetch(c)
      PROVE  Queued(queue', pc')
  <2>1. queue # <<>> /\ Head(queue) = c /\ queue' = Tail(queue)
    BY <1>1, <1>3 DEF TakeKept, EndFetch, FailFetch, Unlock, Holds, Queued, Fetching
  <2>2. pc'[c] \notin AtMutex /\ \A d \in Callers \ {c} : pc'[d] = pc[d]
    BY <1>1, <1>3 DEF TakeKept, EndFetch, FailFetch, BeginsCall, Typed, AtMutex
  <2>3. QED
    BY <1>1, <2>1, <2>2, Leaves
<1>4. ASSUME NEW c \in Callers, BeginFetch(c) \/ PlatformIssues(c) \/ PlatformOmits(c)
      PROVE  Queued(queue', pc')
  <2>1. queue' = queue /\ (pc[c] \in Fetching \/ (queue # <<>> /\ Head(queue) = c))
    BY <1>4 DEF BeginFetch, PlatformIssues, PlatformOmits, Holds, Fetching
  <2>2. /\ pc[c] \in AtMutex /\ pc'[c] \in AtMutex
        /\ \A d \in Callers \ {c} : pc'[d] = pc[d]
    BY <1>1, <1>4 DEF BeginFetch, PlatformIssues, PlatformOmits, BeginsCall, Typed, AtMutex
  <2>3. QED
    BY <1>1, <2>1, <2>2, Stays
<1>5. ASSUME NEW c \in Callers, Judge(c) \/ FailSend(c)
      PROVE  Queued(queue', pc')
  <2>1. queue' = queue /\ pc[c] \notin AtMutex /\ pc'[c] \notin AtMutex /\ pc'[c] \notin Fetching
    BY <1>1, <1>5 DEF Judge, FailSend, Typed, AtMutex, Fetching
  <2>2. \A d \in Callers \ {c} : pc'[d] = pc[d]
    BY <1>1, <1>5 DEF Judge, FailSend, Typed
  <2>3. QED
    BY <1>1, <2>1, <2>2, Stays
<1>6. CASE Invalidate
  BY <1>1, <1>6 DEF Invalidate
<1>7. CASE Tick
  <2>1. queue' = queue /\ \A d \in Callers : pc'[d] = IF pc[d] \in Ended THEN "idle" ELSE pc[d]
    BY <1>7 DEF Tick
  <2>2. \A d \in Callers : /\ pc'[d] \in AtMutex <=> pc[d] \in AtMutex
                           /\ pc'[d] \in Fetching => pc[d] \in Fetching
    BY <2>1 DEF Ended, AtMutex, Fetching
  <2>3. QED
    BY <1>1, <2>1, <2>2, Stays
<1>8. QED
  BY <1>2, <1>3, <1>4, <1>5, <1>6, <1>7 DEF Next, CallStep, Answer, Queued

-----------------------------------------------------------------------------
(***************************************************************************)
(* What is left of a token                                                 *)
(***************************************************************************)

\* What is left of the token of a caller that was answered with one.
Sound(p, t, b, s, c) ==
    c \notin b => /\ p[c] = "answered" => t[c] + s[c] >= Lifetime
                  /\ p[c] = "sending" => t[c] + s[c] > Timeout

\* A call that is cut off in time leaves of a token what Good says, and time takes from
\* both ideas of it.
LEMMA GoodStep ==
    ASSUME Typed, Good, Bare, Next
    PROVE  Good'
<1>0. /\ Good <=> (invalidations = 0 =>
                       /\ cache.held => cache.left <= cache.good + Timeout
                       /\ \A c \in Callers : Sound(pc, token, bare, spent, c))
      /\ Good' <=> (invalidations' = 0 =>
                        /\ cache'.held => cache'.left <= cache'.good + Timeout
                        /\ \A c \in Callers : Sound(pc', token', bare', spent', c))
  BY DEF Good, Sound
<1> SUFFICES ASSUME invalidations' = 0
             PROVE  /\ cache'.held => cache'.left <= cache'.good + Timeout
                    /\ \A c \in Callers : Sound(pc', token', bare', spent', c)
  BY <1>0
<1> USE Times DEF Sound
<1>1. invalidations = 0
  BY DEF Next, Ask, CallStep, TakeKept, BeginFetch, Answer, PlatformIssues, PlatformOmits, EndFetch,
     FailFetch, Judge, FailSend, Invalidate, Tick, Typed
<1>2. /\ cache.left \in 0..Lifetime /\ cache.good \in 0..Lifetime
      /\ cache.held => cache.left <= cache.good + Timeout
      /\ \A c \in Callers : token[c] \in 0..Lifetime /\ spent[c] \in 0..Timeout
      /\ \A c \in Callers : Sound(pc, token, bare, spent, c)
  BY <1>0, <1>1 DEF Typed
<1>3. ASSUME NEW c \in Callers, cache'.held => cache'.left <= cache'.good + Timeout,
             \A d \in Callers \ {c} : /\ pc'[d] = pc[d] /\ token'[d] = token[d]
                                      /\ spent'[d] = spent[d] /\ (d \in bare' <=> d \in bare),
             Sound(pc', token', bare', spent', c)
      PROVE  /\ cache'.held => cache'.left <= cache'.good + Timeout
             /\ \A d \in Callers : Sound(pc', token', bare', spent', d)
  BY <1>2, <1>3
<1>4. ASSUME NEW c \in Callers,
             Ask(c) \/ BeginFetch(c) \/ FailFetch(c) \/ Judge(c) \/ FailSend(c)
      PROVE  /\ UNCHANGED cache /\ Sound(pc', token', bare', spent', c)
             /\ \A d \in Callers \ {c} : /\ pc'[d] = pc[d] /\ token'[d] = token[d]
                                         /\ spent'[d] = spent[d] /\ (d \in bare' <=> d \in bare)
  BY <1>4 DEF Ask, BeginFetch, FailFetch, Judge, FailSend, BeginsCall, Typed
<1>5. ASSUME NEW c \in Callers, TakeKept(c)
      PROVE  /\ UNCHANGED cache /\ Sound(pc', token', bare', spent', c)
             /\ \A d \in Callers \ {c} : /\ pc'[d] = pc[d] /\ token'[d] = token[d]
                                         /\ spent'[d] = spent[d] /\ (d \in bare' <=> d \in bare)
  <2>1. cache.good > Timeout
    BY <1>2, <1>5 DEF TakeKept, Fresh
  <2>2. token'[c] = cache.good /\ spent'[c] = 0 /\ pc'[c] = "sending"
    BY <1>5 DEF TakeKept, BeginsCall, Typed
  <2>3. Sound(pc', token', bare', spent', c)
    BY <1>2, <2>1, <2>2
  <2>4. QED
    BY <1>5, <2>3 DEF TakeKept, BeginsCall, Typed
<1>6. ASSUME NEW c \in Callers, PlatformIssues(c) \/ PlatformOmits(c)
      PROVE  /\ UNCHANGED cache /\ Sound(pc', token', bare', spent', c)
             /\ \A d \in Callers \ {c} : /\ pc'[d] = pc[d] /\ token'[d] = token[d]
                                         /\ spent'[d] = spent[d] /\ (d \in bare' <=> d \in bare)
  <2>1. CASE PlatformIssues(c)
    BY <1>2, <2>1 DEF PlatformIssues, Typed
  <2>2. CASE PlatformOmits(c)
    BY <1>2, <2>2 DEF PlatformOmits, Typed
  <2>3. QED
    BY <1>6, <2>1, <2>2
<1>7. ASSUME NEW c \in Callers, EndFetch(c)
      PROVE  /\ cache'.held => cache'.left <= cache'.good + Timeout
             /\ \A d \in Callers : Sound(pc', token', bare', spent', d)
  <2>1. /\ token' = token /\ pc'[c] = "sending" /\ spent'[c] = 0 /\ bare' = bare
        /\ \A d \in Callers \ {c} : pc'[d] = pc[d] /\ spent'[d] = spent[d]
    BY <1>7 DEF EndFetch, BeginsCall, Typed
  <2>2. CASE c \in bare
    <3>1. ~cache'.held
      BY <1>7, <2>2 DEF EndFetch, Empty
    <3>2. QED
      BY <1>3, <2>1, <2>2, <3>1
  <2>3. CASE c \notin bare
    <3>1. token[c] + spent[c] >= Lifetime
      <4>1. pc[c] = "answered"
        BY <1>7 DEF EndFetch
      <4>2. Sound(pc, token, bare, spent, c)
        BY <1>2
      <4>3. QED
        BY <2>3, <4>1, <4>2
    <3>2. cache'.left \in {0, Lifetime} /\ cache'.good = token[c]
      BY <1>7, <2>3 DEF EndFetch
    <3>3. token[c] > Timeout /\ Lifetime <= token[c] + Timeout /\ 0 <= token[c] + Timeout
      BY <1>2, <3>1
    <3>4. Sound(pc', token', bare', spent', c)
      BY <1>2, <2>1, <3>3
    <3>5. cache'.left <= cache'.good + Timeout
      BY <3>2, <3>3
    <3>6. QED
      BY <1>3, <2>1, <3>4, <3>5
  <2>4. QED
    BY <2>2, <2>3
<1>8. CASE Tick
  <2>1. /\ cache'.left = Less(cache.left) /\ cache'.good = Less(cache.good)
        /\ cache'.held = cache.held
    BY <1>8 DEF Tick, Typed
  <2>2. cache'.held => cache'.left <= cache'.good + Timeout
    BY <1>2, <2>1 DEF Less
  <2>3. ASSUME NEW c \in Callers, pc'[c] \in {"answered", "sending"}
        PROVE  /\ pc[c] = pc'[c] /\ spent'[c] = spent[c] + 1 /\ token'[c] = Less(token[c])
               /\ (c \in bare' <=> c \in bare)
    BY <1>2, <1>8, <2>3 DEF Tick, Ended, OnTheWire, Typed
  <2>4. \A n \in 0..Lifetime : Less(n) + 1 >= n /\ Less(n) \in 0..Lifetime
    BY DEF Less
  <2>5. ASSUME NEW c \in Callers, pc'[c] \in {"answered", "sending"}
        PROVE  token'[c] + spent'[c] >= token[c] + spent[c] /\ token'[c] + spent'[c] \in Nat
    BY <1>2, <2>3, <2>4, <2>5
  <2>6. ASSUME NEW c \in Callers, pc'[c] \in {"answered", "sending"}
        PROVE  Sound(pc', token', bare', spent', c)
    BY <1>2, <2>3, <2>5, <2>6
  <2>7. QED
    BY <2>2, <2>6
<1> HIDE DEF Sound
<1>9. QED
  BY <1>1, <1>2, <1>3, <1>4, <1>5, <1>6, <1>7, <1>8 DEF Next, CallStep, Answer, Invalidate

\* The mark of an empty answer is set in a fetch, and taken away with what the call came to.
LEMMA BareStep ==
    ASSUME Typed, Bare, Next
    PROVE  Bare'
<1>1. ASSUME NEW c \in Callers,
             \A d \in Callers \ {c} : pc'[d] = pc[d] /\ (d \in bare' <=> d \in bare),
             c \in bare' => /\ pc'[c] \notin {"idle", "asking", "fetching"}
                            /\ pc'[c] \in {"sending", "refused"} => Trusting,
             bare' \subseteq Callers
      PROVE  Bare'
  <2>1. ASSUME NEW d \in bare'
        PROVE  /\ pc'[d] \notin {"idle", "asking", "fetching"}
               /\ pc'[d] \in {"sending", "refused"} => Trusting
    <3>1. CASE d = c
      BY <1>1, <2>1, <3>1
    <3>2. CASE d # c
      <4>1. d \in bare /\ pc'[d] = pc[d]
        BY <1>1, <2>1, <3>2
      <4>2. QED
        BY <4>1 DEF Bare
    <3>3. QED
      BY <3>1, <3>2
  <2>2. QED
    BY <2>1 DEF Bare
<1>2. bare' \subseteq Callers
  BY TypedStep DEF Typed
<1>3. ASSUME NEW c \in Callers, Ask(c) \/ CallStep(c) \/ Answer(c)
      PROVE  Bare'
  <2>1. CASE Ask(c) \/ TakeKept(c) \/ BeginFetch(c) \/ PlatformIssues(c)
    BY <1>1, <1>2, <2>1
       DEF Bare, Ask, TakeKept, BeginFetch, PlatformIssues, BeginsCall, Typed
  <2>2. CASE PlatformOmits(c)
    BY <1>1, <1>2, <2>2 DEF PlatformOmits, Typed
  <2>3. CASE EndFetch(c)
    BY <1>1, <1>2, <2>3 DEF EndFetch, BeginsCall, Typed
  <2>4. CASE FailFetch(c) \/ Judge(c) \/ FailSend(c)
    BY <1>1, <1>2, <2>4 DEF Bare, FailFetch, Judge, FailSend, Typed
  <2>5. QED
    BY <1>3, <2>1, <2>2, <2>3, <2>4 DEF CallStep, Answer
<1>4. CASE Invalidate
  BY <1>4 DEF Invalidate, Bare
<1>5. CASE Tick
  BY <1>5 DEF Tick, Bare, Ended, Typed
<1>6. QED
  BY <1>3, <1>4, <1>5 DEF Next

\* A message that is refused carries a token that the platform invalidated, or none.
LEMMA RefusalStep ==
    ASSUME Typed, Good, Bare, RefusalsExplained, Next
    PROVE  RefusalsExplained'
<1> SUFFICES ASSUME NEW c \in Callers, pc'[c] = "refused", invalidations' = 0
             PROVE  Trusting /\ c \in bare'
  BY TypedStep, Times DEF RefusalsExplained, Typed
<1>1. invalidations = 0
  BY Times DEF Next, Ask, CallStep, TakeKept, BeginFetch, Answer, PlatformIssues, PlatformOmits,
     EndFetch, FailFetch, Judge, FailSend, Invalidate, Tick, Typed
<1>2. \A d \in Callers : pc[d] = "refused" => Trusting /\ d \in bare
  BY <1>1 DEF RefusalsExplained
<1>3. ASSUME NEW d \in Callers, Judge(d), pc'[d] = "refused"
      PROVE  Trusting /\ d \in bare'
  <2>1. pc[d] = "sending" /\ ~(token[d] > 0) /\ bare' = bare
    BY <1>3 DEF Judge, Typed
  <2>2. token[d] \in 0..Lifetime /\ spent[d] \in 0..Timeout
    BY DEF Typed
  <2>3. d \in bare
    BY <1>1, <2>1, <2>2, Times DEF Good
  <2>4. QED
    BY <2>1, <2>3 DEF Bare
<1>4. ASSUME NEW d \in Callers, Judge(d)
      PROVE  Trusting /\ c \in bare'
  BY <1>2, <1>3, <1>4 DEF Judge, Typed
<1>5. CASE Tick
  BY <1>5 DEF Tick, Ended, Typed
<1>6. ASSUME NEW d \in Callers, Ask(d)
      PROVE  Trusting /\ c \in bare'
  BY <1>2, <1>6 DEF Ask, Typed
<1>7. QED
  BY <1>2, <1>4, <1>5, <1>6 DEF Next, CallStep, TakeKept, BeginFetch, BeginsCall, Answer,
     PlatformIssues, PlatformOmits, EndFetch, FailFetch, FailSend, Invalidate, Typed

\* Only the holder fetches, and only what it finds due.
LEMMA FetchStep ==
    ASSUME TypeOK, FetchedWhenDue, Next
    PROVE  FetchedWhenDue'
<1>1. Typed /\ Queued(queue, pc)
  BY TypeSplit
<1>2. cache.left \in 0..Lifetime /\ Margin \in Nat
  BY <1>1, Times DEF Typed
<1>3. ASSUME NEW c \in Callers, EndFetch(c)
      PROVE  FetchedWhenDue'
  <2>1. queue # <<>> /\ Head(queue) = c
    BY <1>1, <1>3 DEF EndFetch, Queued, Fetching
  <2>2. pc'[c] \notin AtMutex /\ \A d \in Callers \ {c} : pc'[d] = pc[d]
    BY <1>1, <1>3 DEF EndFetch, BeginsCall, Typed, AtMutex
  <2>3. \A d \in Callers : pc'[d] \notin Fetching
    BY <1>1, <2>1, <2>2, Leaves
  <2>4. QED
    BY <2>3 DEF FetchedWhenDue, Fetching
<1>4. ASSUME cache'.left <= cache.left, cache'.left \in Nat, cache'.held = cache.held,
             \A d \in Callers : pc'[d] \in Fetching =>
                 pc[d] \in Fetching \/ ~cache.held \/ cache.left <= Margin
      PROVE  FetchedWhenDue'
  BY <1>2, <1>4 DEF FetchedWhenDue, Fetching
<1>5. ASSUME NEW c \in Callers, BeginFetch(c)
      PROVE  FetchedWhenDue'
  BY <1>1, <1>2, <1>4, <1>5 DEF BeginFetch, BeginsCall, Stale, Fresh, Typed
<1>6. ASSUME NEW c \in Callers,
             \/ Ask(c) \/ TakeKept(c) \/ PlatformIssues(c) \/ PlatformOmits(c)
             \/ FailFetch(c) \/ Judge(c) \/ FailSend(c)
      PROVE  FetchedWhenDue'
  <2>1. UNCHANGED cache
    BY <1>6 DEF Ask, TakeKept, PlatformIssues, PlatformOmits, FailFetch, Judge, FailSend
  <2>2. \A d \in Callers : pc'[d] \in Fetching => pc[d] \in Fetching
    BY <1>1, <1>6 DEF Ask, TakeKept, BeginsCall, PlatformIssues, PlatformOmits, FailFetch, Judge,
       FailSend, Typed, Fetching
  <2>3. QED
    BY <1>2, <1>4, <2>1, <2>2
<1>7. CASE Invalidate
  BY <1>1, <1>2, <1>4, <1>7 DEF Invalidate, Typed
<1>8. CASE Tick
  <2>1. cache'.left = Less(cache.left) /\ cache'.held = cache.held
    BY <1>1, <1>8 DEF Tick, Typed
  <2>2. cache'.left <= cache.left /\ cache'.left \in Nat
    BY <1>2, <2>1, Times DEF Less
  <2>3. \A d \in Callers : pc'[d] \in Fetching => pc[d] \in Fetching
    BY <1>8 DEF Tick, Fetching, Ended
  <2>4. QED
    BY <1>4, <2>1, <2>2, <2>3
<1>9. QED
  BY <1>3, <1>5, <1>6, <1>7, <1>8 DEF Next, CallStep, Answer

-----------------------------------------------------------------------------
(***************************************************************************)
(* The wait                                                                *)
(***************************************************************************)

\* Nobody stands in the queue twice: it is no longer than there are callers.
LEMMA QueueIsShort ==
    ASSUME NEW q, NEW p, Queued(q, p)
    PROVE  Len(q) <= Cardinality(Callers)
<1>1. q \in [1..Len(q) -> Callers] /\ Len(q) \in Nat
  BY LenProperties DEF Queued
<1>2. IsFiniteSet(1..Len(q)) /\ Cardinality(1..Len(q)) = Len(q)
  <2>1. /\ IsFiniteSet(1..Len(q))
        /\ Cardinality(1..Len(q)) = IF 1 > Len(q) THEN 0 ELSE Len(q) - 1 + 1
    BY <1>1, FS_Interval
  <2>2. QED
    BY <1>1, <2>1
<1>3. SUFFICES ASSUME Cardinality(Callers) < Len(q) PROVE FALSE
  BY <1>1, Times
<1>4. \E i, j \in 1..Len(q) : i # j /\ q[i] = q[j]
  BY <1>1, <1>2, <1>3, ConstantsAssumption, FS_PigeonHole
<1>5. QED
  BY <1>4 DEF Queued

\* What one place costs.
LEMMA OnePlace ==
    ASSUME NEW n \in Nat, NEW t \in Nat
    PROVE  n * t \in Nat /\ (n + 1) * t = n * t + t
  OBVIOUS

\* Fewer places cost less.
LEMMA FewerPlaces ==
    ASSUME NEW m \in Nat, NEW n \in Nat, NEW t \in Nat, m <= n
    PROVE  m * t <= n * t
<1>1. PICK d \in Nat : n = m + d
  <2>1. n - m \in Nat /\ n = m + (n - m)
    OBVIOUS
  <2>2. QED
    BY <2>1
<1>2. (m + d) * t = m * t + d * t /\ d * t \in Nat /\ m * t \in Nat
  OBVIOUS
<1>3. QED
  BY <1>1, <1>2

\* The numbers that InPlace adds up.
LEMMA PlaceTypes ==
    ASSUME TypeOK
    PROVE  /\ HolderSpent \in 0..Timeout
           /\ Len(queue) \in Nat /\ Len(queue) <= Cardinality(Callers)
           /\ \A i \in 1..Len(queue) : /\ queue[i] \in Callers /\ waited[queue[i]] \in Nat
                                       /\ i - 1 \in Nat /\ (i - 1) * Timeout \in Nat
           /\ Callers # {} => Cardinality(Callers) - 1 \in Nat /\ Bound \in Nat
<1>1. Typed /\ Queued(queue, pc)
  BY TypeSplit
<1>2. Len(queue) \in Nat /\ \A i \in 1..Len(queue) : queue[i] \in Callers
  BY <1>1, LenProperties DEF Queued
<1>3. Len(queue) <= Cardinality(Callers)
  BY <1>1, QueueIsShort
<1>4. HolderSpent \in 0..Timeout
  <2>1. CASE queue # <<>>
    <3>1. queue[1] \in Callers
      BY <1>1, <2>1, FirstHolds DEF Queued
    <3>2. QED
      BY <1>1, <3>1, Times DEF HolderSpent, Typed
  <2>2. CASE queue = <<>>
    BY <2>2, Times DEF HolderSpent
  <2>3. QED
    BY <2>1, <2>2
<1>5. \A i \in 1..Len(queue) : i - 1 \in Nat /\ (i - 1) * Timeout \in Nat
  BY <1>2, Times, OnePlace
<1>6. Callers # {} => Cardinality(Callers) - 1 \in Nat /\ Bound \in Nat
  <2> SUFFICES ASSUME Callers # {} PROVE Cardinality(Callers) - 1 \in Nat /\ Bound \in Nat
    OBVIOUS
  <2>1. Cardinality(Callers) # 0
    BY ConstantsAssumption, FS_EmptySet
  <2>2. Cardinality(Callers) - 1 \in Nat
    BY <2>1, Times
  <2>3. QED
    BY <2>2, Times, OnePlace DEF Bound
<1>7. QED
  BY <1>1, <1>2, <1>3, <1>4, <1>5, <1>6 DEF Typed

\* The queue stays, the holder uses its time, and nobody has waited longer.
LEMMA PlaceKept ==
    ASSUME TypeOK, InPlace, WaitBounded, UNCHANGED <<queue, waited>>,
           HolderSpent' \in Int, HolderSpent' >= HolderSpent
    PROVE  InPlace' /\ WaitBounded'
<1>1. WaitBounded'
  BY DEF WaitBounded
<1>2. ASSUME NEW i \in 1..Len(queue)
      PROVE  waited[queue[i]] + (i - 1) * Timeout <= Bound + HolderSpent'
  <2>1. Callers # {} /\ waited[queue[i]] + (i - 1) * Timeout <= Bound + HolderSpent
    BY PlaceTypes DEF InPlace
  <2>2. /\ waited[queue[i]] \in Nat /\ (i - 1) * Timeout \in Nat /\ Bound \in Nat
        /\ HolderSpent \in Int
    BY <2>1, PlaceTypes, Times
  <2>3. QED
    BY <2>1, <2>2
<1>3. QED
  BY <1>1, <1>2 DEF InPlace, Bound

\* A caller joins at the end, with a cut-off for each in front of it.
LEMMA PlaceOfAsk ==
    ASSUME TypeOK, InPlace, WaitBounded, NEW c \in Callers, Ask(c), Queued(queue', pc')
    PROVE  InPlace' /\ WaitBounded'
<1>1. /\ queue' = Append(queue, c) /\ pc' = [pc EXCEPT ![c] = "asking"]
      /\ waited' = [waited EXCEPT ![c] = 0] /\ spent' = spent /\ pc[c] \notin AtMutex
  BY DEF Ask, AtMutex
<1>2. Typed /\ Queued(queue, pc) /\ Queued(queue', pc')
  BY TypeSplit
<1>3. /\ Len(queue) \in Nat /\ Len(queue') = Len(queue) + 1 /\ queue' # <<>>
      /\ \A i \in 1..Len(queue) : queue'[i] = queue[i] /\ queue[i] \in Callers /\ queue[i] # c
      /\ queue'[Len(queue) + 1] = c
  BY <1>1, <1>2, AppendProperties, LenProperties DEF Queued
<1>4. \A d \in Callers : waited'[d] = (IF d = c THEN 0 ELSE waited[d]) /\ waited[d] \in Nat
  BY <1>1, <1>2 DEF Typed
<1>5. Bound \in Nat /\ Cardinality(Callers) - 1 \in Nat
  BY PlaceTypes
<1>6. WaitBounded'
  BY <1>4, <1>5 DEF WaitBounded, Bound
<1>7. HolderSpent' = HolderSpent
  <2>1. CASE queue = <<>>
    <3>1. Len(queue) = 0
      BY <2>1, EmptySeq
    <3>2. queue'[1] = c /\ pc'[c] = "asking"
      BY <1>1, <1>2, <1>3, <3>1 DEF Typed
    <3>3. QED
      BY <2>1, <3>2 DEF HolderSpent, Fetching
  <2>2. CASE queue # <<>>
    <3>1. 1 \in 1..Len(queue)
      BY <1>2, <1>3, <2>2, FirstHolds DEF Queued
    <3>2. queue'[1] = queue[1] /\ queue[1] \in Callers /\ queue[1] # c
      BY <1>3, <3>1
    <3>3. pc'[queue[1]] = pc[queue[1]]
      BY <1>1, <1>2, <3>2 DEF Typed
    <3>4. QED
      BY <1>1, <1>3, <2>2, <3>2, <3>3 DEF HolderSpent
  <2>3. QED
    BY <2>1, <2>2
<1>8. ASSUME NEW i \in 1..Len(queue')
      PROVE  waited'[queue'[i]] + (i - 1) * Timeout <= Bound + HolderSpent'
  <2>1. CASE i \in 1..Len(queue)
    BY <1>3, <1>4, <1>7, <2>1 DEF InPlace
  <2>2. CASE i = Len(queue')
    <3>1. Len(queue') <= Cardinality(Callers) /\ i - 1 \in Nat
      BY <1>2, <1>3, <2>2, QueueIsShort
    <3>2. (i - 1) * Timeout <= Bound
      <4>1. i - 1 <= Cardinality(Callers) - 1
        BY <1>3, <1>5, <2>2, <3>1, Times
      <4>2. QED
        BY <1>5, <3>1, <4>1, FewerPlaces, Times DEF Bound
    <3>3. waited'[queue'[i]] = 0
      BY <1>3, <1>4, <2>2
    <3>4. (i - 1) * Timeout \in Nat /\ HolderSpent' \in 0..Timeout
      BY <1>7, <3>1, OnePlace, PlaceTypes, Times
    <3>5. QED
      BY <1>5, <3>2, <3>3, <3>4, Times
  <2>3. QED
    BY <1>3, <2>1, <2>2
<1>9. QED
  BY <1>6, <1>8 DEF InPlace, Bound

\* The holder leaves: everybody is one place further, which is worth the whole cut-off.
LEMMA PlaceOfUnlock ==
    ASSUME TypeOK, InPlace, WaitBounded, NEW c \in Callers,
           TakeKept(c) \/ EndFetch(c) \/ FailFetch(c)
    PROVE  InPlace' /\ WaitBounded'
<1>1. Typed /\ Queued(queue, pc)
  BY TypeSplit
<1>2. queue # <<>> /\ Head(queue) = c /\ queue' = Tail(queue) /\ waited' = waited
  BY <1>1 DEF TakeKept, EndFetch, FailFetch, Unlock, Holds, Queued, Fetching
<1>3. pc'[c] \notin AtMutex /\ \A d \in Callers \ {c} : pc'[d] = pc[d]
  BY <1>1 DEF TakeKept, EndFetch, FailFetch, BeginsCall, Typed, AtMutex
<1>4. \A d \in Callers : pc'[d] \notin Fetching
  BY <1>1, <1>2, <1>3, Leaves
<1>5. /\ Len(queue) \in Nat \ {0} /\ Len(queue') = Len(queue) - 1 /\ queue' \in Seq(Callers)
      /\ \A i \in 1..Len(queue') : queue'[i] = queue[i + 1]
  BY <1>1, <1>2, FirstHolds, HeadTailProperties DEF Queued
<1>6. HolderSpent' = 0
  <2>1. CASE queue' = <<>>
    BY <2>1 DEF HolderSpent
  <2>2. CASE queue' # <<>>
    <3>1. queue'[1] \in Callers
      BY <1>5, <2>2, FirstHolds
    <3>2. QED
      BY <1>4, <3>1 DEF HolderSpent
  <2>3. QED
    BY <2>1, <2>2
<1>7. ASSUME NEW i \in 1..Len(queue')
      PROVE  waited[queue'[i]] + (i - 1) * Timeout <= Bound + 0
  <2>1. i + 1 \in 1..Len(queue) /\ queue'[i] = queue[i + 1] /\ (i + 1) - 1 = i /\ i - 1 \in Nat
    BY <1>5
  <2>2. /\ waited[queue[i + 1]] + i * Timeout <= Bound + HolderSpent
        /\ waited[queue[i + 1]] \in Nat
    BY <2>1, PlaceTypes DEF InPlace
  <2>3. i * Timeout = (i - 1) * Timeout + Timeout /\ (i - 1) * Timeout \in Nat
    <3>1. i = (i - 1) + 1
      BY <2>1
    <3>2. QED
      BY <2>1, <3>1, OnePlace, Times
  <2>4. Bound \in Nat /\ HolderSpent \in 0..Timeout
    BY PlaceTypes
  <2>5. QED
    BY <2>1, <2>2, <2>3, <2>4, Times
<1>8. QED
  BY <1>2, <1>6, <1>7 DEF InPlace, WaitBounded, Bound

\* What is one more on one side is one more on the other.
LEMMA OneLater ==
    ASSUME NEW w \in Nat, NEW v \in Nat, NEW p \in Nat, NEW b \in Nat, NEW h \in Int, NEW k \in Int,
           w + p <= b + h, v <= w + 1, k = h + 1
    PROVE  v + p <= b + k
  OBVIOUS

\* Time passes only while the holder is in its call, and for those behind it alike.
LEMMA PlaceOfTick ==
    ASSUME TypeOK, InPlace, WaitBounded, Tick
    PROVE  InPlace' /\ WaitBounded'
<1>1. Typed /\ Queued(queue, pc)
  BY TypeSplit
<1>2. /\ queue' = queue
      /\ \A d \in Callers : waited'[d] = IF Waits(d) THEN waited[d] + 1 ELSE waited[d]
  BY DEF Tick
<1>3. CASE queue = <<>>
  <2>1. Len(queue) = 0
    BY <1>3, EmptySeq
  <2>2. \A d \in Callers : pc[d] \notin AtMutex
    BY <1>1, <2>1 DEF Queued
  <2>3. \A d \in Callers : waited'[d] = waited[d]
    BY <1>2, <2>2 DEF Waits, AtMutex
  <2>4. QED
    BY <1>2, <2>1, <2>3 DEF InPlace, WaitBounded, Bound
<1>4. CASE queue # <<>>
  <2> DEFINE h == queue[1]
  <2>1. /\ Len(queue) \in Nat \ {0} /\ Head(queue) = h /\ h \in Callers
    BY <1>1, <1>4, FirstHolds DEF Queued
  <2>2. pc[h] \in Fetching /\ ~Waits(h)
    <3>1. pc[h] \in AtMutex
      BY <1>1, <2>1 DEF Queued
    <3>2. Holds(h)
      BY <1>4, <2>1 DEF Holds
    <3>3. QED
      BY <2>1, <3>1, <3>2 DEF Tick, Waits, AtMutex, Fetching
  <2>3. pc'[h] = pc[h] /\ spent'[h] = spent[h] + 1
    <3>1. spent[h] < Timeout /\ spent[h] \in 0..Timeout
      BY <1>1, <2>1, <2>2 DEF Tick, InTime, Typed, Fetching, OnTheWire
    <3>2. spent[h] <= Timeout
      BY <3>1, Times
    <3>3. QED
      BY <2>1, <2>2, <3>2 DEF Tick, Fetching, OnTheWire, Ended
  <2>4. HolderSpent = spent[h] /\ HolderSpent' = spent[h] + 1
    BY <1>2, <1>4, <2>2, <2>3 DEF HolderSpent
  <2>5. /\ Bound \in Nat /\ HolderSpent \in 0..Timeout /\ HolderSpent' \in 0..Timeout
        /\ HolderSpent' = HolderSpent + 1
    <3>1. spent[h] < Timeout /\ spent[h] \in 0..Timeout
      BY <1>1, <2>1, <2>2 DEF Tick, InTime, Typed, Fetching, OnTheWire
    <3>2. QED
      BY <2>1, <2>4, <3>1, PlaceTypes, Times
  <2> HIDE DEF h
  <2>6. ASSUME NEW i \in 1..Len(queue)
        PROVE  waited'[queue[i]] + (i - 1) * Timeout <= Bound + HolderSpent'
    <3>1. /\ queue[i] \in Callers /\ waited[queue[i]] \in Nat /\ (i - 1) * Timeout \in Nat
          /\ waited[queue[i]] + (i - 1) * Timeout <= Bound + HolderSpent
      BY PlaceTypes DEF InPlace
    <3>2. waited'[queue[i]] \in Nat /\ waited'[queue[i]] <= waited[queue[i]] + 1
      BY <1>2, <3>1
    <3> DEFINE place == (i - 1) * Timeout
    <3>3. waited[queue[i]] + place <= Bound + HolderSpent /\ place \in Nat
      BY <3>1
    <3> HIDE DEF place
    <3>4. waited'[queue[i]] + place <= Bound + HolderSpent'
      <4>1. HolderSpent \in Int /\ HolderSpent' \in Int
        BY <2>5, Times
      <4>2. QED
        BY <2>5, <3>1, <3>2, <3>3, <4>1, OneLater
    <3>5. QED
      BY <3>4 DEF place
  <2>7. ASSUME NEW d \in Callers
        PROVE  waited'[d] <= Bound
    <3>1. CASE ~Waits(d)
      BY <1>2, <3>1 DEF WaitBounded, Bound
    <3>2. CASE Waits(d)
      <4>1. PICK i \in 1..Len(queue) : queue[i] = d
        BY <1>1, <3>2 DEF Waits, Queued, AtMutex
      <4>2. i # 1 /\ i - 2 \in Nat /\ i - 1 = (i - 2) + 1
        BY <2>1, <2>2, <3>2, <4>1 DEF h
      <4>3. (i - 1) * Timeout = (i - 2) * Timeout + Timeout /\ (i - 2) * Timeout \in Nat
        BY <4>2, OnePlace, Times
      <4>4. waited'[d] + (i - 1) * Timeout <= Bound + HolderSpent' /\ waited'[d] \in Nat
        <5>1. waited'[d] \in Nat
          BY <1>1, <1>2 DEF Typed
        <5>2. QED
          BY <2>6, <4>1, <5>1
      <4>5. QED
        BY <2>5, <4>3, <4>4, Times
    <3>3. QED
      BY <3>1, <3>2
  <2>8. QED
    BY <1>2, <2>6, <2>7 DEF InPlace, WaitBounded, Bound
<1>5. QED
  BY <1>3, <1>4

\* The other steps leave the queue alone; a fetch begins with nothing spent.
LEMMA PlaceOfOthers ==
    ASSUME TypeOK, InPlace, WaitBounded,
           \/ Invalidate
           \/ \E c \in Callers :
                  \/ BeginFetch(c) \/ PlatformIssues(c) \/ PlatformOmits(c)
                  \/ Judge(c) \/ FailSend(c)
    PROVE  InPlace' /\ WaitBounded'
<1>1. Typed /\ Queued(queue, pc)
  BY TypeSplit
<1>2. UNCHANGED <<queue, waited>>
  BY DEF Invalidate, BeginFetch, PlatformIssues, PlatformOmits, Judge, FailSend
<1>3. HolderSpent \in Nat
  BY PlaceTypes, Times
<1>4. ASSUME queue # <<>> => /\ pc[queue[1]] \in Fetching <=> pc'[queue[1]] \in Fetching
                             /\ spent'[queue[1]] = spent[queue[1]]
      PROVE  InPlace' /\ WaitBounded'
  <2>1. HolderSpent' = HolderSpent
    BY <1>2, <1>4 DEF HolderSpent
  <2>2. QED
    BY <1>2, <1>3, <2>1, PlaceKept
<1>5. queue # <<>> => /\ Head(queue) = queue[1] /\ queue[1] \in Callers /\ Len(queue) \in Nat \ {0}
                      /\ pc[queue[1]] \in AtMutex
  <2> SUFFICES ASSUME queue # <<>>
               PROVE  /\ Head(queue) = queue[1] /\ queue[1] \in Callers /\ Len(queue) \in Nat \ {0}
                      /\ pc[queue[1]] \in AtMutex
    OBVIOUS
  <2>1. Head(queue) = queue[1] /\ queue[1] \in Callers /\ Len(queue) \in Nat \ {0}
    BY <1>1, FirstHolds DEF Queued
  <2>2. QED
    BY <1>1, <2>1 DEF Queued
<1>6. CASE Invalidate
  BY <1>4, <1>6 DEF Invalidate
<1>7. ASSUME NEW c \in Callers, BeginFetch(c)
      PROVE  InPlace' /\ WaitBounded'
  <2>1. queue # <<>> /\ queue[1] = c /\ pc[c] = "asking"
    BY <1>5, <1>7 DEF BeginFetch, Holds
  <2>2. HolderSpent = 0
    BY <2>1 DEF HolderSpent, Fetching
  <2>3. HolderSpent' = 0
    BY <1>1, <1>2, <1>7, <2>1 DEF HolderSpent, BeginFetch, BeginsCall, Typed, Fetching
  <2>4. QED
    BY <1>2, <2>2, <2>3, PlaceKept
<1>8. ASSUME NEW c \in Callers, PlatformIssues(c) \/ PlatformOmits(c)
      PROVE  InPlace' /\ WaitBounded'
  BY <1>1, <1>4, <1>5, <1>8 DEF PlatformIssues, PlatformOmits, Typed, Fetching
<1>9. ASSUME NEW c \in Callers, Judge(c) \/ FailSend(c)
      PROVE  InPlace' /\ WaitBounded'
  <2>1. /\ pc[c] = "sending" /\ spent' = spent
        /\ \A d \in Callers \ {c} : pc'[d] = pc[d]
    BY <1>1, <1>9 DEF Judge, FailSend, Typed
  <2>2. queue # <<>> => queue[1] # c
    BY <1>5, <2>1 DEF AtMutex
  <2>3. QED
    BY <1>4, <1>5, <2>1, <2>2
<1>10. QED
  BY <1>6, <1>7, <1>8, <1>9

-----------------------------------------------------------------------------
(***************************************************************************)
(* What every reachable state satisfies                                    *)
(***************************************************************************)

\* Every step keeps the invariant.
LEMMA InvStep ==
    ASSUME IInv, [Next]_vars
    PROVE  IInv'
<1>1. CASE UNCHANGED vars
  BY <1>1 DEF vars, IInv, TypeOK, Holds, Good, Bare, RefusalsExplained, FetchedWhenDue,
     InPlace, HolderSpent, Bound, WaitBounded
<1>2. CASE Next
  <2>1. Typed /\ Queued(queue, pc)
    BY TypeSplit DEF IInv
  <2>2. Typed' /\ Queued(queue, pc)'
    BY <1>2, <2>1, TypedStep, QueuedStep DEF IInv
  <2>3. TypeOK'
    BY <2>2 DEF TypeOK, Typed, Queued, Fetching, AtMutex, Holds
  <2>4. Good' /\ Bare' /\ RefusalsExplained' /\ FetchedWhenDue'
    BY <1>2, <2>1, GoodStep, BareStep, RefusalStep, FetchStep DEF IInv
  <2>5. InPlace' /\ WaitBounded'
    <3>1. Queued(queue', pc')
      BY <2>2 DEF Queued
    <3>2. QED
      BY <1>2, <3>1, PlaceOfAsk, PlaceOfUnlock, PlaceOfTick, PlaceOfOthers
         DEF IInv, Next, CallStep, Answer
  <2>6. QED
    BY <2>3, <2>4, <2>5 DEF IInv
<1>3. QED
  BY <1>1, <1>2

\* No token is kept, and nobody is at the mutex.
LEMMA InitIInv == Init => IInv
<1> SUFFICES ASSUME Init PROVE IInv
  OBVIOUS
<1>1. queue = <<>> /\ queue \in Seq(Callers) /\ Len(queue) = 0
  BY EmptySeq DEF Init
<1>2. TypeOK
  BY <1>1, Times DEF Init, TypeOK, Empty, Ended, OnTheWire, Holds
<1>3. Good /\ Bare /\ RefusalsExplained /\ FetchedWhenDue
  BY Times DEF Init, Empty, Good, Bare, RefusalsExplained, FetchedWhenDue
<1>4. InPlace
  BY <1>1 DEF InPlace
<1>5. WaitBounded
  BY <1>2, PlaceTypes DEF Init, WaitBounded, Bound
<1>6. QED
  BY <1>2, <1>3, <1>4, <1>5 DEF IInv

\* The invariant that the proofs rest on.
THEOREM Invariance == Spec => []IInv
  BY InitIInv, InvStep, PTL DEF Spec

\* The mutex has one holder, which is the only caller in a fetch.
THEOREM TypeCorrect == Spec => []TypeOK
<1>1. IInv => TypeOK
  BY DEF IInv
<1>2. QED
  BY <1>1, Invariance, PTL

\* No message carries an expired token: what is refused was taken back by the platform, or
\* is the empty token of a call of feishu's adapter; of the other adapters, the first only.
THEOREM RefusalsExplainedHolds == Spec => []RefusalsExplained
<1>1. IInv => RefusalsExplained
  BY DEF IInv
<1>2. QED
  BY <1>1, Invariance, PTL

\* A token is fetched only while the kept one is due.
THEOREM FetchedWhenDueHolds == Spec => []FetchedWhenDue
<1>1. IInv => FetchedWhenDue
  BY DEF IInv
<1>2. QED
  BY <1>1, Invariance, PTL

\* A caller waits at most for one HTTP call of each other caller.
THEOREM WaitBoundedHolds == Spec => []WaitBounded
<1>1. IInv => WaitBounded
  BY DEF IInv
<1>2. QED
  BY <1>1, Invariance, PTL

=============================================================================
