------------------------ MODULE SchedulerFaultsProofs ------------------------
(***************************************************************************)
(* Theorems about SchedulerFaults: what survives an exception that leaves  *)
(* step() in the middle of a loop, whichever pass raises and however often.*)
(* IInv of Scheduler does not hold here; FInv keeps what is left of it.    *)
(***************************************************************************)
EXTENDS SchedulerFaults, SchedulerProofs

USE MaxFaultsAssumption

-----------------------------------------------------------------------------
(* The inductive invariant *)

FaultTypeOK ==
    /\ TypeOK
    /\ unusable \subseteq SeqIds
    /\ faults \in Nat
    /\ damaged \subseteq SeqIds

\* Nothing is recorded for an id that has not been handed out, in no list.
Arrived ==
    /\ ArrivedPlace
    /\ \A s \in SeqIds : /\ status[s] = "none" => owned[s] = <<>>
                         /\ status[s] # "none" => prompt_len[s] >= 1
    /\ \A s \in ToSet(waiting) \cup ToSet(running) \cup ToSet(todo) : status[s] # "none"

\* What the waiting list and the running dict promise at every moment.  While
\* the admission loop runs, it still has ahead of it, or behind it and refused,
\* everyone who is not in the dict; the waiting list is longer than that, and
\* is what an exception goes back to.
Found ==
    /\ \A s \in SeqIds : status[s] \in {"waiting", "running"} =>
            s \in ToSet(Unadmitted) \cup ToSet(running)
    /\ ToSet(Unadmitted) \subseteq ToSet(waiting)
    /\ Increasing(Unadmitted) /\ Increasing(waiting)
    /\ IsInjective(running)

\* The loops meet no id twice, and the decode loop only those that run.  The
\* loop before it can meet others: the victim of an eviction need not be ahead
\* of the rest any more, since a request can be taken up again.
LoopsOnce ==
    /\ IsInjective(todo)
    /\ RetryAsks
    /\ pc = "decode" => ToSet(todo) \subseteq ToSet(running)
    /\ pc \in {"ensure", "retry"} =>
            \A s \in ToSet(todo) \ damaged : status[s] # "waiting"

\* One eviction at most for each turn of the loop leaves a victim for the next.
VictimsLeft ==
    /\ pc = "ensure" => Len(todo) <= Len(running)
    /\ pc = "retry" => Len(todo) <= Len(running) + 1

\* Who runs owns a block, which an eviction gives back.
EvictionFrees ==
    /\ \A s \in ToSet(running) : owned[s] # <<>>
    /\ pc = "retry" => free # <<>>

\* Who waits and is not damaged is as add_request has left it, and who runs and
\* is not damaged has the status of it.
Undamaged ==
    /\ \A s \in ToSet(Unadmitted) \ damaged :
            /\ status[s] = "waiting"
            /\ owned[s] = <<>>
            /\ seq_len[s] = prompt_len[s]
    /\ \A s \in ToSet(running) \ damaged : status[s] = "running"

FInv ==
    /\ FaultTypeOK
    /\ NoBlockShared /\ NoBlockLost
    /\ Control
    /\ Arrived
    /\ Found
    /\ LoopsOnce
    /\ VictimsLeft
    /\ EvictionFrees
    /\ Undamaged
    /\ DamageContained

\* The part of FInv that the lemmas below prove action by action.
FPlaces ==
    /\ Arrived
    /\ Found
    /\ LoopsOnce
    /\ VictimsLeft
    /\ EvictionFrees
    /\ Undamaged
    /\ DamageContained

-----------------------------------------------------------------------------
(* What the steps share *)

\* What the lists are made of, and what is said of the request at the head.
LEMMA FaultLists ==
    ASSUME FInv
    PROVE  /\ TypeOK /\ PoolTypeOK /\ FPlaces
           /\ waiting \in Seq(SeqIds) /\ running \in Seq(SeqIds)
           /\ todo \in Seq(SeqIds) /\ still_waiting \in Seq(SeqIds)
           /\ Unadmitted \in Seq(SeqIds)
           /\ Len(todo) \in Nat /\ Len(running) \in Nat
           /\ status \in [SeqIds -> Statuses]
           /\ seq_len \in [SeqIds -> Nat] /\ prompt_len \in [SeqIds -> Nat]
           /\ pc # "admit" => still_waiting = <<>>
           /\ RetryAsks
  <1>1. /\ TypeOK /\ PoolTypeOK /\ FPlaces
        /\ pc # "admit" => still_waiting = <<>>
        /\ RetryAsks
    BY DEF FInv, FPlaces, FaultTypeOK, TypeOK, Control, LoopsOnce
  <1>2. /\ waiting \in Seq(SeqIds) /\ running \in Seq(SeqIds)
        /\ todo \in Seq(SeqIds) /\ still_waiting \in Seq(SeqIds)
        /\ status \in [SeqIds -> Statuses]
        /\ seq_len \in [SeqIds -> Nat] /\ prompt_len \in [SeqIds -> Nat]
    BY <1>1 DEF TypeOK
  <1>3. Unadmitted \in Seq(SeqIds)
    BY <1>2, ConcatAt DEF Unadmitted
  <1>4. QED
    BY <1>1, <1>2, <1>3

\* The elements of a list of ids are ids.
LEMMA ListOfIds ==
    ASSUME NEW l \in Seq(SeqIds)
    PROVE  ToSet(l) \subseteq SeqIds /\ (l = <<>> => ToSet(l) = {})
  BY InList, EmptySeq

\* An increasing list has no repetition, and its last part is increasing.
LEMMA LastPartIncreasing ==
    ASSUME NEW l \in Seq(SeqIds), NEW m \in Seq(SeqIds), Increasing(l \o m)
    PROVE  IsInjective(l \o m) /\ IsInjective(m)
  <1> DEFINE c == l \o m
  <1>1. /\ c \in Seq(SeqIds) /\ Len(l) \in Nat /\ Len(m) \in Nat
        /\ Len(c) = Len(l) + Len(m)
        /\ \A i \in 1 .. Len(m) : c[Len(l) + i] = m[i]
    BY ConcatAt
  <1> HIDE DEF c
  <1>2. IsInjective(c)
    BY <1>1, IncreasingFacts DEF c
  <1>a. \A i, j \in 1 .. Len(c) : c[i] = c[j] => i = j
    BY <1>1, <1>2, InjectiveAt
  <1>3. ASSUME NEW i \in 1 .. Len(m), NEW j \in 1 .. Len(m), m[i] = m[j]
        PROVE  i = j
    <2>1. /\ Len(l) + i \in 1 .. Len(c) /\ Len(l) + j \in 1 .. Len(c)
          /\ c[Len(l) + i] = c[Len(l) + j]
      BY <1>1, <1>3
    <2>2. Len(l) + i = Len(l) + j
      BY <1>a, <2>1
    <2>3. QED
      BY <1>1, <2>2
  <1>4. QED
    BY <1>2, <1>3 DEF IsInjective, c

\* Arrived is about which ids are known, and no step forgets one.
LEMMA ArrivedKept ==
    ASSUME Arrived, UNCHANGED <<next_seq_id, prompt_len>>,
           \A s \in SeqIds : status'[s] = "none" <=> status[s] = "none",
           \A s \in SeqIds : status[s] = "none" => owned'[s] = owned[s],
           ToSet(waiting') \cup ToSet(running') \cup ToSet(todo')
              \subseteq (ToSet(waiting) \cup ToSet(running) \cup ToSet(todo)) \cap SeqIds
    PROVE  Arrived'
  BY DEF Arrived, ArrivedPlace

\* ... and DamageContained about who runs, what it holds and what is billed.
LEMMA DamageKept ==
    ASSUME DamageContained,
           \A s \in ToSet(running') \ damaged' :
              /\ s \in ToSet(running) \ damaged
              /\ cached'[s] = cached[s] /\ seq_len'[s] = seq_len[s]
              /\ owned'[s] = owned[s]
              /\ Provisioned(s)' <=> Provisioned(s)
    PROVE  DamageContained'
  BY DEF DamageContained

-----------------------------------------------------------------------------
(* The phases of step() *)

\* A phase begins or ends: the lists are copied, and nothing else happens.
LEMMA FaultPhaseStep ==
    ASSUME FInv, BeginStep \/ EndAdmit \/ EndEnsure \/ EndStep, UNCHANGED damaged
    PROVE  FPlaces'
  <1> USE DEF BeginStep, EndAdmit, EndEnsure, EndStep, NextPhase
  <1>1. /\ TypeOK /\ PoolTypeOK /\ FPlaces
        /\ waiting \in Seq(SeqIds) /\ running \in Seq(SeqIds)
        /\ todo \in Seq(SeqIds) /\ still_waiting \in Seq(SeqIds)
        /\ Unadmitted \in Seq(SeqIds)
        /\ Len(running) \in Nat
        /\ pc # "admit" => still_waiting = <<>>
    BY FaultLists
  <1>2. UNCHANGED <<free, owned, running, cached, next_seq_id, prompt_len, seq_len, status>>
    BY DEF poolVars, requests
  <1>3. /\ \A l \in Seq(SeqIds) : <<>> \o l = l /\ l \o <<>> = l
        /\ <<>> \in Seq(SeqIds) /\ ToSet(<<>>) = {} /\ Len(<<>>) = 0
    BY DEF ToSet
  <1>4. Unadmitted' = Unadmitted /\ (waiting' = waiting \/ waiting' = Unadmitted)
    BY <1>1, <1>3 DEF Unadmitted
  <1>5. /\ todo' \in {waiting, <<>>, running}
        /\ pc' = "admit" => todo' = waiting
        /\ pc' \in {"ensure", "decode"} => todo' = running
        /\ pc' # "retry"
    OBVIOUS
  <1>6. Arrived'
    <2>1. ToSet(waiting') \subseteq ToSet(waiting)
      BY <1>1, <1>4 DEF FPlaces, Found
    <2>2. ToSet(todo') \subseteq ToSet(waiting) \cup ToSet(running)
      BY <1>3, <1>5
    <2>3. ToSet(waiting) \cup ToSet(running) \subseteq SeqIds
      BY <1>1, ListOfIds
    <2>4. QED
      BY <1>1, <1>2, <2>1, <2>2, <2>3, ArrivedKept DEF FPlaces
  <1>7. Found'
    BY <1>1, <1>2, <1>4 DEF FPlaces, Found
  <1>8. LoopsOnce'
    <2>1. IsInjective(waiting) /\ IsInjective(running) /\ IsInjective(<<>>)
      BY <1>1, IncreasingFacts DEF FPlaces, Found, IsInjective
    <2>2. \A s \in ToSet(running) \ damaged : status[s] = "running"
      BY <1>1 DEF FPlaces, Undamaged
    <2>3. QED
      BY <1>2, <1>5, <2>1, <2>2 DEF LoopsOnce, RetryAsks
  <1>9. VictimsLeft' /\ EvictionFrees'
    BY <1>1, <1>2, <1>5 DEF FPlaces, VictimsLeft, EvictionFrees
  <1>10. Undamaged'
    BY <1>1, <1>2, <1>4 DEF FPlaces, Undamaged
  <1>11. DamageContained'
    <2>1. ASSUME NEW s \in ToSet(running)
          PROVE  Provisioned(s)' <=> Provisioned(s)
      BY <1>2, <1>3, <1>5, <2>1 DEF Provisioned
    <2>2. QED
      BY <1>1, <1>2, <2>1, DamageKept DEF FPlaces
  <1>12. QED
    BY <1>6, <1>7, <1>8, <1>9, <1>10, <1>11 DEF FPlaces

\* A request is refused: it goes from one list of the loop to the other.
LEMMA FaultKeepWaiting ==
    ASSUME FInv, KeepWaiting, UNCHANGED damaged
    PROVE  FPlaces'
  <1>1. /\ TypeOK /\ FPlaces
        /\ waiting \in Seq(SeqIds) /\ running \in Seq(SeqIds)
        /\ todo \in Seq(SeqIds) /\ still_waiting \in Seq(SeqIds)
    BY FaultLists
  <1>2. /\ pc = "admit" /\ pc' = "admit" /\ todo # <<>> /\ todo' = Tail(todo)
        /\ still_waiting' = Append(still_waiting, Head(todo))
        /\ UNCHANGED <<free, owned, waiting, running, cached, next_seq_id, prompt_len,
                       seq_len, status>>
    BY DEF KeepWaiting, poolVars, requests
  <1>3. Unadmitted' = Unadmitted
    BY <1>1, <1>2, ShiftHead DEF Unadmitted
  <1>4. /\ \A x : x \in ToSet(todo) <=> x = Head(todo) \/ x \in ToSet(Tail(todo))
        /\ IsInjective(todo) => IsInjective(Tail(todo))
    BY <1>1, <1>2, InTail
  <1>5. Arrived'
    <2>1. ToSet(waiting) \cup ToSet(running) \cup ToSet(todo) \subseteq SeqIds
      BY <1>1, ListOfIds
    <2>2. QED
      BY <1>1, <1>2, <1>4, <2>1, ArrivedKept DEF FPlaces
  <1>6. Found' /\ Undamaged'
    BY <1>1, <1>2, <1>3 DEF FPlaces, Found, Undamaged
  <1>7. LoopsOnce' /\ VictimsLeft' /\ EvictionFrees'
    BY <1>1, <1>2, <1>4 DEF FPlaces, LoopsOnce, RetryAsks, VictimsLeft, EvictionFrees
  <1>8. DamageContained'
    BY <1>1, <1>2, DamageKept DEF FPlaces, Provisioned
  <1>9. QED
    BY <1>5, <1>6, <1>7, <1>8 DEF FPlaces

-----------------------------------------------------------------------------
(* Admission *)

\* The request at the head of the admission loop is one of those that wait, and
\* an allocation for its prompt is one of at least a block.
LEMMA PromptFacts ==
    ASSUME FInv, pc = "admit", todo # <<>>,
           Allocate(Head(todo), BlocksFor(prompt_len[Head(todo)]))
    PROVE  LET h == Head(todo)
               n == BlocksFor(prompt_len[h])
           IN  /\ h \in SeqIds /\ n \in Nat
               /\ status[h] # "none"
               /\ h \in ToSet(todo) /\ h \in ToSet(Unadmitted) /\ h \in ToSet(waiting)
               /\ Unadmitted = still_waiting \o todo
               /\ Len(owned'[h]) = Len(owned[h]) + n /\ Len(owned[h]) \in Nat
               /\ owned'[h] # <<>>
               /\ \A t \in SeqIds \ {h} : owned'[t] = owned[t]
               /\ owned[h] = <<>> => Len(owned'[h]) = n
  <1> DEFINE h == Head(todo)
             n == BlocksFor(prompt_len[h])
  <1>1. /\ TypeOK /\ PoolTypeOK /\ FPlaces
        /\ todo \in Seq(SeqIds) /\ still_waiting \in Seq(SeqIds)
        /\ prompt_len \in [SeqIds -> Nat]
    BY FaultLists
  <1>2. h \in SeqIds /\ h \in ToSet(todo)
    BY <1>1, InTail
  <1>3. Unadmitted = still_waiting \o todo
    BY DEF Unadmitted
  <1>4. h \in ToSet(Unadmitted) /\ h \in ToSet(waiting)
    BY <1>1, <1>2, <1>3, InConcat DEF FPlaces, Found
  <1>5. status[h] # "none" /\ prompt_len[h] \in Nat \ {0}
    <2>1. status[h] # "none"
      BY <1>1, <1>2 DEF FPlaces, Arrived
    <2>2. prompt_len[h] >= 1 /\ prompt_len[h] \in Nat
      BY <1>1, <1>2, <2>1 DEF FPlaces, Arrived
    <2>3. QED
      BY <2>1, <2>2
  <1>6. n \in Nat /\ n >= 1
    BY <1>5, BlocksForLeast, BlocksForPositive
  <1>7. owned[h] \in Seq(Blocks) /\ owned'[h] \in Seq(Blocks)
    BY <1>1, <1>2, <1>6, AllocateFacts DEF PoolTypeOK
  <1>8. /\ Len(owned'[h]) = Len(owned[h]) + n
        /\ \A t \in SeqIds \ {h} : owned'[t] = owned[t]
    BY <1>1, <1>2, <1>6, AllocateFacts
  <1> HIDE DEF h, n
  <1>9. Len(owned[h]) \in Nat /\ owned'[h] # <<>> /\ (owned[h] = <<>> => Len(owned'[h]) = n)
    <2>1. Len(owned[h]) \in Nat /\ (owned[h] = <<>> => Len(owned[h]) = 0)
      BY <1>7
    <2>2. Len(owned'[h]) # 0
      BY <1>6, <1>8, <2>1
    <2>3. QED
      BY <1>6, <1>8, <2>1, <2>2
  <1>10. QED
    BY <1>2, <1>3, <1>4, <1>5, <1>6, <1>8, <1>9 DEF h, n

\* The request at hand is prefilled and runs.
LEMMA FaultAdmitOne ==
    ASSUME FInv, AdmitOne, UNCHANGED damaged
    PROVE  FPlaces'
  <1> DEFINE h == Head(todo)
             n == BlocksFor(prompt_len[h])
             k == Len(still_waiting) + 1
  <1>1. /\ TypeOK /\ FPlaces
        /\ waiting \in Seq(SeqIds) /\ running \in Seq(SeqIds)
        /\ todo \in Seq(SeqIds) /\ still_waiting \in Seq(SeqIds)
        /\ Unadmitted \in Seq(SeqIds)
        /\ status \in [SeqIds -> Statuses]
        /\ seq_len \in [SeqIds -> Nat]
        /\ cached \in [SeqIds -> Nat \cup {None}]
    BY FaultLists DEF TypeOK
  <1>2. /\ pc = "admit" /\ pc' = "admit" /\ todo # <<>> /\ todo' = Tail(todo)
        /\ Allocate(h, n)
        /\ status' = [status EXCEPT ![h] = "running"]
        /\ cached' = [cached EXCEPT ![h] = seq_len[h]]
        /\ running' = IF h \in ToSet(running) THEN running ELSE Append(running, h)
        /\ UNCHANGED <<waiting, next_seq_id, prompt_len, seq_len, still_waiting>>
    BY DEF AdmitOne, requests
  <1>3. /\ h \in SeqIds /\ n \in Nat
        /\ status[h] # "none"
        /\ h \in ToSet(todo) /\ h \in ToSet(Unadmitted)
        /\ Unadmitted = still_waiting \o todo
        /\ owned'[h] # <<>>
        /\ \A t \in SeqIds \ {h} : owned'[t] = owned[t]
        /\ owned[h] = <<>> => Len(owned'[h]) = n
    BY <1>2, PromptFacts
  <1>4. /\ \A x : x \in ToSet(todo) <=> x = h \/ x \in ToSet(Tail(todo))
        /\ IsInjective(todo) => IsInjective(Tail(todo))
    BY <1>1, <1>2, InTail
  <1>5. /\ Unadmitted' = RemoveAt(Unadmitted, k)
        /\ k \in 1 .. Len(Unadmitted) /\ Unadmitted[k] = h
    BY <1>1, <1>2, <1>3, SkipHead DEF Unadmitted
  <1>6. /\ Increasing(Unadmitted')
        /\ \A t : t \in ToSet(Unadmitted') <=> t \in ToSet(Unadmitted) /\ t # h
    <2>1. Increasing(Unadmitted)
      BY <1>1 DEF FPlaces, Found
    <2>2. QED
      BY <1>1, <1>5, <2>1, IncreasingFacts, InRemoveAt
  <1>7. /\ IsInjective(running')
        /\ \A t : t \in ToSet(running') <=> t \in ToSet(running) \/ t = h
    <2>1. IsInjective(running)
      BY <1>1 DEF FPlaces, Found
    <2>2. QED
      BY <1>1, <1>2, <1>3, <2>1, InjectiveAppend, InAppend
  <1>8. ToSet(waiting) \cup ToSet(running) \cup ToSet(todo) \cup ToSet(Unadmitted) \subseteq SeqIds
    BY <1>1, ListOfIds
  <1>9. /\ status'[h] = "running" /\ cached'[h] = seq_len[h]
        /\ \A t \in SeqIds \ {h} : /\ status'[t] = status[t] /\ cached'[t] = cached[t]
                                   /\ owned'[t] = owned[t]
    BY <1>1, <1>2, <1>3
  <1> HIDE DEF h, n, k
  <1>10. Arrived'
    <2>1. \A s \in SeqIds : status'[s] = "none" <=> status[s] = "none"
      BY <1>3, <1>9
    <2>2. \A s \in SeqIds : status[s] = "none" => owned'[s] = owned[s]
      BY <1>3, <1>9
    <2>3. ToSet(waiting') \cup ToSet(running') \cup ToSet(todo')
              \subseteq (ToSet(waiting) \cup ToSet(running) \cup ToSet(todo)) \cap SeqIds
      BY <1>2, <1>3, <1>4, <1>7, <1>8
    <2>4. QED
      BY <1>1, <1>2, <2>1, <2>2, <2>3, ArrivedKept DEF FPlaces
  <1>11. Found'
    <2>1. ASSUME NEW s \in SeqIds, status'[s] \in {"waiting", "running"}
          PROVE  s \in ToSet(Unadmitted') \cup ToSet(running')
      BY <1>1, <1>6, <1>7, <1>9, <2>1 DEF FPlaces, Found
    <2>2. ToSet(Unadmitted') \subseteq ToSet(waiting') /\ Increasing(waiting')
      BY <1>1, <1>2, <1>6 DEF FPlaces, Found
    <2>3. QED
      BY <1>6, <1>7, <2>1, <2>2 DEF Found
  <1>12. LoopsOnce' /\ VictimsLeft'
    BY <1>1, <1>2, <1>4 DEF FPlaces, LoopsOnce, RetryAsks, VictimsLeft
  <1>13. EvictionFrees'
    <2>1. \A s \in ToSet(running') : owned'[s] # <<>>
      BY <1>1, <1>3, <1>7, <1>8 DEF FPlaces, EvictionFrees
    <2>2. QED
      BY <1>2, <2>1 DEF EvictionFrees
  <1>14. Undamaged'
    <2>1. ASSUME NEW s \in ToSet(Unadmitted') \ damaged
          PROVE  status'[s] = "waiting" /\ owned'[s] = <<>> /\ seq_len'[s] = prompt_len'[s]
      <3>1. s \in ToSet(Unadmitted) \ damaged /\ s \in SeqIds \ {h}
        BY <1>6, <1>8, <2>1
      <3>2. QED
        BY <1>1, <1>2, <1>9, <3>1 DEF FPlaces, Undamaged
    <2>2. \A s \in ToSet(running') \ damaged : status'[s] = "running"
      BY <1>1, <1>7, <1>8, <1>9 DEF FPlaces, Undamaged
    <2>3. QED
      BY <2>1, <2>2 DEF Undamaged
  <1>15. DamageContained'
    <2>1. ASSUME NEW s
          PROVE  ~ Provisioned(s) /\ ~ Provisioned(s)'
      BY <1>2 DEF Provisioned
    <2>2. ASSUME NEW s \in ToSet(running') \ damaged, s = h
          PROVE  Billed(s)'
      <3>1. owned[h] = <<>> /\ seq_len[h] = prompt_len[h]
        BY <1>1, <1>3, <2>2 DEF FPlaces, Undamaged
      <3>2. seq_len[h] \in Nat /\ seq_len[h] + 0 = seq_len[h]
        BY <1>1, <1>3
      <3>3. n = BlocksFor(seq_len[h])
        BY <3>1 DEF n
      <3>4. QED
        BY <1>2, <1>3, <1>9, <2>1, <2>2, <3>1, <3>2, <3>3 DEF Billed
    <2>3. ASSUME NEW s \in ToSet(running') \ damaged, s # h
          PROVE  Billed(s)'
      <3>1. s \in ToSet(running) \ damaged /\ s \in SeqIds \ {h}
        BY <1>7, <1>8, <2>3
      <3>2. Billed(s)
        BY <1>1, <3>1 DEF FPlaces, DamageContained, Billed
      <3>3. QED
        BY <1>2, <1>9, <2>1, <3>1, <3>2, BilledUntouched
    <2>4. \A s \in ToSet(running') \ damaged : Billed(s)'
      BY <2>2, <2>3
    <2>5. QED
      BY <2>4 DEF DamageContained, Billed
  <1>16. QED
    BY <1>10, <1>11, <1>12, <1>13, <1>14, <1>15 DEF FPlaces

\* The prefill of the request at hand raises: all that this call has admitted
\* is still in the waiting list, and from now on counted as damaged.
LEMMA FaultPrefillRaises ==
    ASSUME FInv, PrefillRaises
    PROVE  FPlaces'
  <1> DEFINE h == Head(todo)
             n == BlocksFor(prompt_len[h])
  <1>1. /\ TypeOK /\ FPlaces
        /\ waiting \in Seq(SeqIds) /\ running \in Seq(SeqIds)
        /\ todo \in Seq(SeqIds)
        /\ status \in [SeqIds -> Statuses]
    BY FaultLists
  <1>2. /\ pc = "admit" /\ pc' = "idle" /\ todo # <<>> /\ todo' = <<>>
        /\ Allocate(h, n)
        /\ status' = [status EXCEPT ![h] = "running"]
        /\ damaged' = damaged \cup {t \in ToSet(waiting) : status'[t] # "waiting"}
        /\ UNCHANGED <<waiting, running, cached, next_seq_id, prompt_len, seq_len>>
    BY DEF PrefillRaises, LeaveStep, requests
  <1>3. /\ h \in SeqIds
        /\ status[h] # "none" /\ h \in ToSet(waiting)
        /\ owned'[h] # <<>>
        /\ \A t \in SeqIds \ {h} : owned'[t] = owned[t]
    BY <1>2, PromptFacts
  <1>4. Unadmitted' = waiting
    BY <1>2 DEF Unadmitted
  <1>5. ToSet(waiting) \cup ToSet(running) \cup ToSet(todo) \subseteq SeqIds
    BY <1>1, ListOfIds
  <1>6. /\ status'[h] = "running" /\ h \in damaged'
        /\ \A t \in SeqIds \ {h} : status'[t] = status[t]
    BY <1>1, <1>2, <1>3
  <1>7. ToSet(<<>>) = {} /\ IsInjective(<<>>)
    BY DEF ToSet, IsInjective
  <1> HIDE DEF h, n
  <1>8. Arrived'
    <2>1. \A s \in SeqIds : status'[s] = "none" <=> status[s] = "none"
      BY <1>3, <1>6
    <2>2. \A s \in SeqIds : status[s] = "none" => owned'[s] = owned[s]
      BY <1>3
    <2>3. ToSet(waiting') \cup ToSet(running') \cup ToSet(todo')
              \subseteq (ToSet(waiting) \cup ToSet(running) \cup ToSet(todo)) \cap SeqIds
      BY <1>2, <1>5, <1>7
    <2>4. QED
      BY <1>1, <1>2, <2>1, <2>2, <2>3, ArrivedKept DEF FPlaces
  <1>9. Found'
    <2>1. ASSUME NEW s \in SeqIds, status'[s] \in {"waiting", "running"}
          PROVE  s \in ToSet(waiting) \cup ToSet(running)
      BY <1>1, <1>3, <1>6, <2>1 DEF FPlaces, Found
    <2>2. Increasing(waiting) /\ IsInjective(running)
      BY <1>1 DEF FPlaces, Found
    <2>3. QED
      BY <1>2, <1>4, <2>1, <2>2 DEF Found
  <1>10. LoopsOnce' /\ VictimsLeft'
    BY <1>2, <1>7 DEF LoopsOnce, RetryAsks, VictimsLeft
  <1>11. EvictionFrees'
    <2>1. \A s \in ToSet(running) : owned'[s] # <<>>
      BY <1>1, <1>3, <1>5 DEF FPlaces, EvictionFrees
    <2>2. QED
      BY <1>2, <2>1 DEF EvictionFrees
  <1>12. Undamaged'
    <2>1. ASSUME NEW s \in ToSet(waiting) \ damaged'
          PROVE  status'[s] = "waiting" /\ owned'[s] = <<>> /\ seq_len'[s] = prompt_len'[s]
      <3>1. s \notin damaged /\ status'[s] = "waiting" /\ s \in SeqIds \ {h}
        BY <1>2, <1>5, <1>6, <2>1
      <3>2. status[s] = "waiting"
        BY <1>6, <3>1
      <3>3. s \in ToSet(Unadmitted) \cup ToSet(running)
        BY <1>1, <3>1, <3>2 DEF FPlaces, Found
      <3>4. s \in ToSet(Unadmitted)
        BY <1>1, <3>1, <3>2, <3>3 DEF FPlaces, Undamaged
      <3>5. owned[s] = <<>> /\ seq_len[s] = prompt_len[s]
        BY <1>1, <3>1, <3>4 DEF FPlaces, Undamaged
      <3>6. QED
        BY <1>2, <1>3, <3>1, <3>5
    <2>2. ASSUME NEW s \in ToSet(running) \ damaged'
          PROVE  status'[s] = "running"
      <3>1. s \in ToSet(running) \ damaged /\ s \in SeqIds \ {h}
        BY <1>2, <1>5, <1>6, <2>2
      <3>2. QED
        BY <1>1, <1>6, <3>1 DEF FPlaces, Undamaged
    <2>3. QED
      BY <1>2, <1>4, <2>1, <2>2 DEF Undamaged
  <1>13. DamageContained'
    <2>1. ASSUME NEW s \in ToSet(running) \ damaged'
          PROVE  /\ s \in ToSet(running) \ damaged /\ owned'[s] = owned[s]
                 /\ ~ Provisioned(s) /\ ~ Provisioned(s)'
      BY <1>2, <1>3, <1>5, <1>6, <2>1 DEF Provisioned
    <2>2. QED
      BY <1>1, <1>2, <2>1, DamageKept DEF FPlaces
  <1>14. QED
    BY <1>8, <1>9, <1>10, <1>11, <1>12, <1>13 DEF FPlaces

-----------------------------------------------------------------------------
(* Decode capacity *)

\* The sequence at hand gets the room it asked for.
LEMMA FaultGrow ==
    ASSUME FInv, todo # <<>>, GrowHead, todo' = Tail(todo),
           pc \in {"ensure", "retry"}, pc' = "ensure",
           UNCHANGED <<waiting, running, cached, next_seq_id, prompt_len, seq_len,
                       status, damaged>>
    PROVE  FPlaces'
  <1> DEFINE h == Head(todo)
  <1>1. /\ TypeOK /\ PoolTypeOK /\ FPlaces
        /\ waiting \in Seq(SeqIds) /\ running \in Seq(SeqIds)
        /\ todo \in Seq(SeqIds)
        /\ Len(todo) \in Nat /\ Len(running) \in Nat
        /\ seq_len \in [SeqIds -> Nat]
    BY FaultLists
  <1>2. /\ h \in SeqIds
        /\ Len(owned'[h]) = Len(owned[h]) + Needed(h)
        /\ BlocksFor(seq_len[h] + 1) = BlocksFor(seq_len[h]) + Needed(h)
        /\ Needed(h) \in Nat
        /\ \A t \in SeqIds \ {h} : owned'[t] = owned[t]
    BY <1>1, GrowFacts
  <1>3. /\ h \in ToSet(todo) /\ h \notin ToSet(Tail(todo))
        /\ \A x : x \in ToSet(todo) <=> x = h \/ x \in ToSet(Tail(todo))
        /\ IsInjective(Tail(todo))
        /\ Len(Tail(todo)) = Len(todo) - 1
    BY <1>1, InTail DEF FPlaces, LoopsOnce
  <1>4. Unadmitted = waiting /\ Unadmitted' = waiting
    BY DEF Unadmitted
  <1>5. ToSet(waiting) \cup ToSet(running) \cup ToSet(todo) \subseteq SeqIds
    BY <1>1, ListOfIds
  <1>6. status[h] # "none" /\ (h \notin damaged => status[h] # "waiting")
    BY <1>1, <1>3 DEF FPlaces, Arrived, LoopsOnce
  <1>7. owned[h] # <<>> => owned'[h] # <<>>
    <2>1. owned[h] \in Seq(Blocks)
      BY <1>1, <1>2 DEF PoolTypeOK
    <2>2. owned[h] # <<>> => Len(owned[h]) \in Nat \ {0}
      BY <2>1, EmptySeq
    <2> HIDE DEF h
    <2>3. owned[h] # <<>> => Len(owned'[h]) # 0
      BY <1>2, <2>2
    <2>4. QED
      BY <2>3
  <1> HIDE DEF h
  <1>8. Arrived'
    <2>1. ToSet(waiting') \cup ToSet(running') \cup ToSet(todo')
              \subseteq (ToSet(waiting) \cup ToSet(running) \cup ToSet(todo)) \cap SeqIds
      BY <1>3, <1>5
    <2>2. \A s \in SeqIds : status[s] = "none" => owned'[s] = owned[s]
      BY <1>2, <1>6
    <2>3. QED
      BY <1>1, <2>1, <2>2, ArrivedKept DEF FPlaces
  <1>9. Found'
    BY <1>1, <1>4 DEF FPlaces, Found
  <1>10. LoopsOnce'
    BY <1>1, <1>3 DEF FPlaces, LoopsOnce, RetryAsks
  <1>11. VictimsLeft'
    BY <1>1, <1>3 DEF FPlaces, VictimsLeft
  <1>12. EvictionFrees'
    <2>1. \A s \in ToSet(running) : owned'[s] # <<>>
      BY <1>1, <1>2, <1>5, <1>7 DEF FPlaces, EvictionFrees
    <2>2. QED
      BY <2>1 DEF EvictionFrees
  <1>13. Undamaged'
    <2>1. ASSUME NEW s \in ToSet(waiting) \ damaged
          PROVE  s \in SeqIds \ {h}
      BY <1>1, <1>4, <1>5, <1>6, <2>1 DEF FPlaces, Undamaged
    <2>2. QED
      BY <1>1, <1>2, <1>4, <2>1 DEF FPlaces, Undamaged
  <1>14. DamageContained'
    <2>1. ASSUME NEW s
          PROVE  /\ Provisioned(s) <=> s \notin ToSet(todo)
                 /\ Provisioned(s)' <=> s \notin ToSet(Tail(todo))
      BY DEF Provisioned
    <2>2. ASSUME NEW s \in ToSet(running) \ damaged
          PROVE  Billed(s) /\ s \in SeqIds
      BY <1>1, <1>5 DEF FPlaces, DamageContained, Billed
    <2>3. ASSUME NEW s \in ToSet(running) \ damaged, s = h
          PROVE  Billed(s)'
      <3>1. ~ Provisioned(s) /\ Provisioned(s)'
        BY <1>3, <2>1, <2>3
      <3>2. seq_len[s] + 0 = seq_len[s]
        BY <1>1, <2>2
      <3>3. cached[s] = seq_len[s] /\ Len(owned[s]) = BlocksFor(seq_len[s])
        BY <2>2, <3>1, <3>2 DEF Billed
      <3>4. QED
        BY <1>2, <2>3, <3>1, <3>3 DEF Billed
    <2>4. ASSUME NEW s \in ToSet(running) \ damaged, s # h
          PROVE  Billed(s)'
      BY <1>2, <1>3, <2>1, <2>2, <2>4, BilledUntouched
    <2>5. \A s \in ToSet(running') \ damaged' : Billed(s)'
      BY <2>3, <2>4
    <2>6. QED
      BY <2>5 DEF DamageContained, Billed
  <1>15. QED
    BY <1>8, <1>9, <1>10, <1>11, <1>12, <1>13, <1>14 DEF FPlaces

LEMMA FaultEnsureRoom ==
    ASSUME FInv, EnsureRoom, UNCHANGED damaged
    PROVE  FPlaces'
  BY FaultGrow DEF EnsureRoom, requests

\* After an eviction there is a block, and one is all that is asked for.
LEMMA FaultRetry ==
    ASSUME FInv, Retry, UNCHANGED damaged
    PROVE  FPlaces'
  <1>1. /\ TypeOK /\ PoolTypeOK /\ FPlaces /\ RetryAsks
        /\ pc = "retry" /\ pc' = "ensure" /\ todo' = Tail(todo)
        /\ UNCHANGED <<waiting, running, cached, next_seq_id, prompt_len, seq_len, status>>
    BY FaultLists DEF Retry, requests
  <1>2. todo # <<>> /\ free # <<>>
    BY <1>1 DEF RetryAsks, FPlaces, EvictionFrees
  <1>3. Needed(Head(todo)) \in {0, 1}
    BY <1>1, <1>2, HeadFacts
  <1>4. Len(free) \in Nat \ {0}
    BY <1>1, <1>2, EmptySeq DEF PoolTypeOK
  <1>5. CanAllocate(Needed(Head(todo)))
    BY <1>3, <1>4 DEF CanAllocate
  <1>6. GrowHead
    BY <1>5 DEF Retry
  <1>7. QED
    BY <1>1, <1>2, <1>6, FaultGrow

\* A victim goes: whichever it is, it is a running request.
LEMMA FaultEvict ==
    ASSUME FInv, Evict, UNCHANGED damaged
    PROVE  FPlaces'
  <1>1. /\ TypeOK /\ PoolTypeOK /\ FPlaces
        /\ waiting \in Seq(SeqIds) /\ running \in Seq(SeqIds)
        /\ todo \in Seq(SeqIds)
        /\ Len(todo) \in Nat /\ Len(running) \in Nat
        /\ status \in [SeqIds -> Statuses]
        /\ cached \in [SeqIds -> Nat \cup {None}]
    BY FaultLists DEF TypeOK
  <1>2. /\ pc = "ensure" /\ pc' = "retry" /\ todo # <<>>
        /\ UNCHANGED <<waiting, next_seq_id, prompt_len, seq_len, todo>>
    BY DEF Evict, requests
  <1>3. PICK i \in DOMAIN running :
                /\ running' = RemoveAt(running, i)
                /\ status' = [status EXCEPT ![running[i]] = "evicted"]
                /\ Free(running[i])
                /\ cached' = [cached EXCEPT ![running[i]] = None]
    BY DEF Evict
  <1> DEFINE v == running[i]
  <1>4. i \in 1 .. Len(running) /\ v \in SeqIds /\ v \in ToSet(running)
    BY <1>1, InList
  <1>5. /\ IsInjective(running')
        /\ \A x : x \in ToSet(running') <=> x \in ToSet(running) /\ x # v
        /\ Len(running') = Len(running) - 1
    <2>1. IsInjective(running)
      BY <1>1 DEF FPlaces, Found
    <2>2. QED
      BY <1>1, <1>3, <1>4, <2>1, InRemoveAt, RemoveAtFacts
  <1>6. /\ Len(free') = Len(free) + Len(owned[v])
        /\ \A t \in SeqIds \ {v} : owned'[t] = owned[t]
    BY <1>1, <1>3, <1>4, FreeFacts
  <1>7. free' # <<>>
    <2>1. owned[v] # <<>>
      BY <1>1, <1>4 DEF FPlaces, EvictionFrees
    <2>2. Len(free) \in Nat /\ Len(owned[v]) \in Nat \ {0}
      BY <1>1, <1>4, <2>1, EmptySeq DEF PoolTypeOK
    <2> HIDE DEF v
    <2>3. Len(free') # 0
      BY <1>6, <2>2
    <2>4. QED
      BY <2>3
  <1>8. /\ status'[v] = "evicted"
        /\ \A t \in SeqIds \ {v} : status'[t] = status[t] /\ cached'[t] = cached[t]
    BY <1>1, <1>3, <1>4
  <1>9. Unadmitted = waiting /\ Unadmitted' = waiting
    BY <1>2 DEF Unadmitted
  <1>10. ToSet(waiting) \cup ToSet(running) \cup ToSet(todo) \subseteq SeqIds
    BY <1>1, ListOfIds
  <1>11. /\ status[v] # "none"
         /\ v \notin damaged => v \notin ToSet(waiting)
    BY <1>1, <1>4, <1>9 DEF FPlaces, Arrived, Undamaged
  <1> HIDE DEF v
  <1>12. Arrived'
    <2>1. ToSet(waiting') \cup ToSet(running') \cup ToSet(todo')
              \subseteq (ToSet(waiting) \cup ToSet(running) \cup ToSet(todo)) \cap SeqIds
      BY <1>2, <1>5, <1>10
    <2>2. \A s \in SeqIds : /\ status'[s] = "none" <=> status[s] = "none"
                            /\ status[s] = "none" => owned'[s] = owned[s]
      BY <1>4, <1>6, <1>8, <1>11
    <2>3. QED
      BY <1>1, <1>2, <2>1, <2>2, ArrivedKept DEF FPlaces
  <1>13. Found'
    <2>1. ASSUME NEW s \in SeqIds, status'[s] \in {"waiting", "running"}
          PROVE  s \in ToSet(waiting) \cup ToSet(running')
      BY <1>1, <1>5, <1>8, <1>9, <2>1 DEF FPlaces, Found
    <2>2. QED
      BY <1>1, <1>2, <1>5, <1>9, <2>1 DEF FPlaces, Found
  <1>14. LoopsOnce'
    <2>1. ASSUME NEW s \in ToSet(todo) \ damaged
          PROVE  status'[s] # "waiting"
      BY <1>1, <1>2, <1>8, <1>10, <2>1 DEF FPlaces, LoopsOnce
    <2>2. QED
      BY <1>1, <1>2, <2>1 DEF FPlaces, LoopsOnce, RetryAsks
  <1>15. VictimsLeft'
    BY <1>1, <1>2, <1>5 DEF FPlaces, VictimsLeft
  <1>16. EvictionFrees'
    <2>1. \A s \in ToSet(running') : owned'[s] # <<>>
      BY <1>1, <1>5, <1>6, <1>10 DEF FPlaces, EvictionFrees
    <2>2. QED
      BY <1>7, <2>1 DEF EvictionFrees
  <1>17. Undamaged'
    <2>1. \A s \in ToSet(waiting) \ damaged : s \in SeqIds \ {v}
      BY <1>10, <1>11
    <2>2. \A s \in ToSet(running') : s \in ToSet(running) /\ s \in SeqIds \ {v}
      BY <1>5, <1>10
    <2>3. QED
      BY <1>1, <1>2, <1>6, <1>8, <1>9, <2>1, <2>2 DEF FPlaces, Undamaged
  <1>18. DamageContained'
    <2>1. ASSUME NEW s
          PROVE  Provisioned(s)' <=> Provisioned(s)
      BY <1>2 DEF Provisioned
    <2>2. \A s \in ToSet(running') : s \in ToSet(running) /\ s \in SeqIds \ {v}
      BY <1>5, <1>10
    <2>3. QED
      BY <1>1, <1>2, <1>6, <1>8, <2>1, <2>2, DamageKept DEF FPlaces
  <1>19. QED
    BY <1>12, <1>13, <1>14, <1>15, <1>16, <1>17, <1>18 DEF FPlaces

-----------------------------------------------------------------------------
(* Decoding *)

\* The sequence at the head of the decode loop runs, and comes once.
LEMMA DecodeFacts ==
    ASSUME FInv, pc = "decode", todo # <<>>
    PROVE  LET h == Head(todo)
           IN  /\ h \in SeqIds /\ h \in ToSet(running)
               /\ h \in ToSet(todo) /\ h \notin ToSet(Tail(todo))
               /\ \A x : x \in ToSet(todo) <=> x = h \/ x \in ToSet(Tail(todo))
               /\ IsInjective(Tail(todo))
               /\ Unadmitted = waiting
               /\ ToSet(waiting) \cup ToSet(running) \cup ToSet(todo) \subseteq SeqIds
               /\ status[h] # "none"
               /\ \A s \in ToSet(waiting) \ damaged : s # h
  <1> DEFINE h == Head(todo)
  <1>1. /\ FPlaces
        /\ waiting \in Seq(SeqIds) /\ running \in Seq(SeqIds) /\ todo \in Seq(SeqIds)
    BY FaultLists
  <1>2. /\ h \in SeqIds
        /\ h \in ToSet(todo) /\ h \notin ToSet(Tail(todo))
        /\ \A x : x \in ToSet(todo) <=> x = h \/ x \in ToSet(Tail(todo))
        /\ IsInjective(Tail(todo))
    BY <1>1, InTail DEF FPlaces, LoopsOnce
  <1>3. h \in ToSet(running)
    BY <1>1, <1>2 DEF FPlaces, LoopsOnce
  <1>4. Unadmitted = waiting
    BY DEF Unadmitted
  <1>5. ToSet(waiting) \cup ToSet(running) \cup ToSet(todo) \subseteq SeqIds
    BY <1>1, ListOfIds
  <1>6. status[h] # "none"
    BY <1>1, <1>3 DEF FPlaces, Arrived
  <1>7. \A s \in ToSet(waiting) \ damaged : s # h
    BY <1>1, <1>3, <1>4 DEF FPlaces, Undamaged
  <1>8. QED
    BY <1>2, <1>3, <1>4, <1>5, <1>6, <1>7

\* The sequence at hand gets a token, and has more to generate.
LEMMA FaultDecodeContinues ==
    ASSUME FInv, DecodeContinues, UNCHANGED damaged
    PROVE  FPlaces'
  <1> DEFINE h == Head(todo)
  <1>1. /\ FPlaces
        /\ seq_len \in [SeqIds -> Nat] /\ cached \in [SeqIds -> Nat \cup {None}]
    BY FaultLists DEF TypeOK
  <1>2. /\ pc = "decode" /\ pc' = "decode" /\ todo # <<>> /\ todo' = Tail(todo)
        /\ seq_len' = [seq_len EXCEPT ![h] = @ + 1]
        /\ cached' = [cached EXCEPT ![h] = @ + 1]
        /\ UNCHANGED <<free, owned, waiting, running, next_seq_id, prompt_len, status>>
    BY DEF DecodeContinues, DecodeHead, poolVars, requests
  <1>3. /\ h \in SeqIds /\ h \in ToSet(running)
        /\ h \in ToSet(todo) /\ h \notin ToSet(Tail(todo))
        /\ \A x : x \in ToSet(todo) <=> x = h \/ x \in ToSet(Tail(todo))
        /\ IsInjective(Tail(todo))
        /\ Unadmitted = waiting
        /\ ToSet(waiting) \cup ToSet(running) \cup ToSet(todo) \subseteq SeqIds
        /\ \A s \in ToSet(waiting) \ damaged : s # h
    BY <1>2, DecodeFacts
  <1>4. Unadmitted' = waiting
    BY <1>2 DEF Unadmitted
  <1>5. /\ seq_len'[h] = seq_len[h] + 1 /\ cached'[h] = cached[h] + 1
        /\ \A t \in SeqIds \ {h} : seq_len'[t] = seq_len[t] /\ cached'[t] = cached[t]
    BY <1>1, <1>2, <1>3
  <1> HIDE DEF h
  <1>6. Arrived'
    <2>1. ToSet(waiting') \cup ToSet(running') \cup ToSet(todo')
              \subseteq (ToSet(waiting) \cup ToSet(running) \cup ToSet(todo)) \cap SeqIds
      BY <1>2, <1>3
    <2>2. QED
      BY <1>1, <1>2, <2>1, ArrivedKept DEF FPlaces
  <1>7. Found'
    BY <1>1, <1>2, <1>3, <1>4 DEF FPlaces, Found
  <1>8. LoopsOnce' /\ VictimsLeft' /\ EvictionFrees'
    BY <1>1, <1>2, <1>3 DEF FPlaces, LoopsOnce, RetryAsks, VictimsLeft, EvictionFrees
  <1>9. Undamaged'
    BY <1>1, <1>2, <1>3, <1>4, <1>5 DEF FPlaces, Undamaged
  <1>10. DamageContained'
    <2>1. ASSUME NEW s
          PROVE  /\ Provisioned(s) <=> s \in ToSet(todo)
                 /\ Provisioned(s)' <=> s \in ToSet(Tail(todo))
      BY <1>2 DEF Provisioned
    <2>2. ASSUME NEW s \in ToSet(running) \ damaged
          PROVE  Billed(s) /\ s \in SeqIds
      BY <1>1, <1>3 DEF FPlaces, DamageContained, Billed
    <2>3. ASSUME NEW s \in ToSet(running) \ damaged, s = h
          PROVE  Billed(s)'
      <3>1. Provisioned(s) /\ ~ Provisioned(s)'
        BY <1>3, <2>1, <2>3
      <3>2. /\ cached[s] = seq_len[s] /\ Len(owned[s]) = BlocksFor(seq_len[s] + 1)
            /\ seq_len[s] \in Nat
        BY <1>1, <2>2, <3>1 DEF Billed
      <3>3. cached'[s] = seq_len'[s] /\ seq_len'[s] + 0 = seq_len[s] + 1
        BY <1>5, <2>3, <3>2
      <3>4. QED
        BY <1>2, <3>1, <3>2, <3>3 DEF Billed
    <2>4. ASSUME NEW s \in ToSet(running) \ damaged, s # h
          PROVE  Billed(s)'
      BY <1>2, <1>3, <1>5, <2>1, <2>2, <2>4, BilledUntouched
    <2>5. \A s \in ToSet(running') \ damaged' : Billed(s)'
      BY <1>2, <2>3, <2>4
    <2>6. QED
      BY <2>5 DEF DamageContained, Billed
  <1>11. QED
    BY <1>6, <1>7, <1>8, <1>9, <1>10 DEF FPlaces

\* The sequence at hand is finished and leaves the dict.
LEMMA FaultDecodeFinishes ==
    ASSUME FInv, DecodeFinishes, UNCHANGED damaged
    PROVE  FPlaces'
  <1> DEFINE h == Head(todo)
  <1>1. /\ FPlaces /\ PoolTypeOK
        /\ running \in Seq(SeqIds)
        /\ status \in [SeqIds -> Statuses]
        /\ seq_len \in [SeqIds -> Nat] /\ cached \in [SeqIds -> Nat \cup {None}]
    BY FaultLists DEF TypeOK
  <1>2. /\ pc = "decode" /\ pc' = "decode" /\ todo # <<>> /\ todo' = Tail(todo)
        /\ seq_len' = [seq_len EXCEPT ![h] = @ + 1]
        /\ cached' = [cached EXCEPT ![h] = None]
        /\ status' = [status EXCEPT ![h] = "finished"]
        /\ Free(h)
        /\ UNCHANGED <<waiting, next_seq_id, prompt_len>>
    BY DEF DecodeFinishes, DecodeHead, requests
  <1>3. /\ h \in SeqIds /\ h \in ToSet(running)
        /\ h \in ToSet(todo) /\ h \notin ToSet(Tail(todo))
        /\ \A x : x \in ToSet(todo) <=> x = h \/ x \in ToSet(Tail(todo))
        /\ IsInjective(Tail(todo))
        /\ Unadmitted = waiting
        /\ ToSet(waiting) \cup ToSet(running) \cup ToSet(todo) \subseteq SeqIds
        /\ status[h] # "none"
        /\ \A s \in ToSet(waiting) \ damaged : s # h
    BY <1>2, DecodeFacts
  <1>4. Unadmitted' = waiting
    BY <1>2 DEF Unadmitted
  <1>5. \A t \in SeqIds \ {h} : /\ seq_len'[t] = seq_len[t] /\ cached'[t] = cached[t]
                                /\ status'[t] = status[t] /\ owned'[t] = owned[t]
    <2>1. \A t \in SeqIds \ {h} : owned'[t] = owned[t]
      BY <1>1, <1>2, <1>3, FreeFacts
    <2>2. QED
      BY <1>1, <1>2, <2>1
  <1>6. /\ IsInjective(running')
        /\ \A x : x \in ToSet(running') <=> x \in ToSet(running) /\ x # h
    <2>1. PICK i \in DOMAIN running : running[i] = h /\ running' = RemoveAt(running, i)
      BY DEF DecodeFinishes
    <2>2. IsInjective(running) /\ i \in 1 .. Len(running)
      BY <1>1 DEF FPlaces, Found
    <2>3. QED
      BY <1>1, <2>1, <2>2, InRemoveAt
  <1>7. status'[h] = "finished"
    BY <1>1, <1>2, <1>3
  <1>8. \A s \in ToSet(running') : s \in ToSet(running) /\ s \in SeqIds \ {h}
    BY <1>3, <1>6
  <1> HIDE DEF h
  <1>9. Arrived'
    <2>1. ToSet(waiting') \cup ToSet(running') \cup ToSet(todo')
              \subseteq (ToSet(waiting) \cup ToSet(running) \cup ToSet(todo)) \cap SeqIds
      BY <1>2, <1>3, <1>6
    <2>2. \A s \in SeqIds : /\ status'[s] = "none" <=> status[s] = "none"
                            /\ status[s] = "none" => owned'[s] = owned[s]
      BY <1>3, <1>5, <1>7
    <2>3. QED
      BY <1>1, <1>2, <2>1, <2>2, ArrivedKept DEF FPlaces
  <1>10. Found'
    <2>1. ASSUME NEW s \in SeqIds, status'[s] \in {"waiting", "running"}
          PROVE  s \in ToSet(waiting) \cup ToSet(running')
      BY <1>1, <1>3, <1>5, <1>6, <1>7, <2>1 DEF FPlaces, Found
    <2>2. QED
      BY <1>1, <1>2, <1>3, <1>4, <1>6, <2>1 DEF FPlaces, Found
  <1>11. LoopsOnce' /\ VictimsLeft'
    BY <1>1, <1>2, <1>3, <1>6 DEF FPlaces, LoopsOnce, RetryAsks, VictimsLeft
  <1>12. EvictionFrees'
    BY <1>1, <1>2, <1>5, <1>8 DEF FPlaces, EvictionFrees
  <1>13. Undamaged'
    <2>1. ASSUME NEW s \in ToSet(waiting) \ damaged
          PROVE  /\ status'[s] = "waiting" /\ owned'[s] = <<>>
                 /\ seq_len'[s] = prompt_len'[s]
      <3>1. s \in SeqIds \ {h}
        BY <1>3
      <3>2. status[s] = "waiting" /\ owned[s] = <<>> /\ seq_len[s] = prompt_len[s]
        BY <1>1, <1>3 DEF FPlaces, Undamaged
      <3>3. QED
        BY <1>2, <1>5, <3>1, <3>2
    <2>2. ASSUME NEW s \in ToSet(running') \ damaged
          PROVE  status'[s] = "running"
      BY <1>1, <1>5, <1>8 DEF FPlaces, Undamaged
    <2>3. Unadmitted' = waiting' /\ damaged' = damaged
      BY <1>2, <1>4
    <2>4. QED
      BY <1>2, <2>1, <2>2, <2>3 DEF Undamaged
  <1>14. DamageContained'
    <2>1. ASSUME NEW s, s # h
          PROVE  Provisioned(s)' <=> Provisioned(s)
      BY <1>2, <1>3, <2>1 DEF Provisioned
    <2>2. QED
      BY <1>1, <1>5, <1>8, <2>1, DamageKept DEF FPlaces
  <1>15. QED
    BY <1>9, <1>10, <1>11, <1>12, <1>13, <1>14 DEF FPlaces

\* The pass of the sequence at hand raises: it and those behind it are damaged.
LEMMA FaultDecodeRaises ==
    ASSUME FInv, DecodeRaises
    PROVE  FPlaces'
  <1> DEFINE h == Head(todo)
  <1>1. FPlaces /\ cached \in [SeqIds -> Nat \cup {None}]
    BY FaultLists DEF TypeOK
  <1>2. /\ pc = "decode" /\ pc' = "idle" /\ todo # <<>> /\ todo' = <<>>
        /\ cached' = cached \/ cached' = [cached EXCEPT ![h] = @ + 1]
        /\ damaged' = damaged \cup ToSet(todo)
        /\ UNCHANGED <<free, owned, waiting, running, next_seq_id, prompt_len, seq_len,
                       status>>
    BY DEF DecodeRaises, LeaveStep, poolVars, requests
  <1>3. /\ h \in SeqIds /\ h \in ToSet(todo) /\ Unadmitted = waiting
        /\ ToSet(waiting) \cup ToSet(running) \cup ToSet(todo) \subseteq SeqIds
    BY <1>2, DecodeFacts
  <1>4. Unadmitted' = waiting
    BY <1>2 DEF Unadmitted
  <1>5. \A t \in SeqIds \ {h} : cached'[t] = cached[t]
    BY <1>1, <1>2, <1>3
  <1>6. ToSet(<<>>) = {} /\ IsInjective(<<>>)
    BY DEF ToSet, IsInjective
  <1> HIDE DEF h
  <1>7. Arrived'
    <2>1. ToSet(waiting') \cup ToSet(running') \cup ToSet(todo')
              \subseteq (ToSet(waiting) \cup ToSet(running) \cup ToSet(todo)) \cap SeqIds
      BY <1>2, <1>3, <1>6
    <2>2. QED
      BY <1>1, <1>2, <2>1, ArrivedKept DEF FPlaces
  <1>8. Found'
    BY <1>1, <1>2, <1>3, <1>4 DEF FPlaces, Found
  <1>9. LoopsOnce' /\ VictimsLeft' /\ EvictionFrees'
    BY <1>1, <1>2, <1>6 DEF FPlaces, LoopsOnce, RetryAsks, VictimsLeft, EvictionFrees
  <1>10. Undamaged'
    BY <1>1, <1>2, <1>3, <1>4 DEF FPlaces, Undamaged
  <1>11. DamageContained'
    <2>1. ASSUME NEW s \in ToSet(running) \ damaged'
          PROVE  /\ s \in ToSet(running) \ damaged /\ cached'[s] = cached[s]
                 /\ ~ Provisioned(s) /\ ~ Provisioned(s)'
      BY <1>2, <1>3, <1>5, <2>1 DEF Provisioned
    <2>2. QED
      BY <1>1, <1>2, <2>1, DamageKept DEF FPlaces
  <1>12. QED
    BY <1>7, <1>8, <1>9, <1>10, <1>11 DEF FPlaces

-----------------------------------------------------------------------------
(* A new request *)

LEMMA FaultArrival ==
    ASSUME FInv, NEW p \in PromptLens, NEW m \in MaxNews, AddRequest(p, m), UNCHANGED damaged
    PROVE  FPlaces'
  <1> DEFINE n == next_seq_id
  <1>1. /\ TypeOK /\ FPlaces
        /\ waiting \in Seq(SeqIds) /\ running \in Seq(SeqIds) /\ todo \in Seq(SeqIds)
        /\ status \in [SeqIds -> Statuses]
        /\ seq_len \in [SeqIds -> Nat] /\ prompt_len \in [SeqIds -> Nat]
    BY FaultLists
  <1>2. /\ pc = "idle" /\ pc' = "idle" /\ UNCHANGED todo
        /\ n < MaxRequests /\ next_seq_id' = n + 1
        /\ prompt_len' = [prompt_len EXCEPT ![n] = p]
        /\ seq_len' = [seq_len EXCEPT ![n] = p]
        /\ status' = [status EXCEPT ![n] = "waiting"]
        /\ waiting' = Append(waiting, n)
        /\ UNCHANGED <<free, owned, running, cached>>
    BY DEF AddRequest, poolVars, control
  <1>3. /\ n \in SeqIds /\ n \in Nat /\ SeqIds \subseteq Nat /\ n >= n
        /\ p \in Nat /\ p >= 1
    <2>1. p \in Nat \ {0}
      BY PromptLensAssumption
    <2>2. n \in 0 .. MaxRequests /\ MaxRequests \in Nat
      BY <1>1, MaxRequestsAssumption DEF TypeOK
    <2> HIDE DEF n
    <2>3. n \in Nat /\ n \in SeqIds /\ SeqIds \subseteq Nat
      BY <1>2, <2>2 DEF SeqIds
    <2>4. QED
      BY <2>1, <2>3
  <1>4. status[n] = "none" /\ owned[n] = <<>>
    BY <1>1, <1>3 DEF FPlaces, Arrived, ArrivedPlace
  <1>5. ToSet(waiting) \cup ToSet(running) \cup ToSet(todo) \subseteq SeqIds \ {n}
    BY <1>1, <1>4, ListOfIds DEF FPlaces, Arrived
  <1>6. /\ Unadmitted = waiting /\ Unadmitted' = waiting'
        /\ \A x : x \in ToSet(waiting') <=> x \in ToSet(waiting) \/ x = n
    BY <1>1, <1>2, <1>3, InAppend DEF Unadmitted
  <1>7. /\ status'[n] = "waiting" /\ seq_len'[n] = p /\ prompt_len'[n] = p
        /\ \A t \in SeqIds \ {n} : /\ status'[t] = status[t] /\ seq_len'[t] = seq_len[t]
                                   /\ prompt_len'[t] = prompt_len[t]
    BY <1>1, <1>2, <1>3
  <1>8. Increasing(waiting')
    <2>1. ASSUME NEW t \in ToSet(waiting)
          PROVE  t < n
      <3>1. t \in SeqIds /\ status[t] # "none"
        BY <1>1, <1>5 DEF FPlaces, Arrived
      <3>2. ~ (t >= n) /\ t \in Nat
        BY <1>1, <1>3, <3>1 DEF FPlaces, Arrived, ArrivedPlace
      <3>3. QED
        BY <1>3, <3>2
    <2>2. Increasing(waiting)
      BY <1>1 DEF FPlaces, Found
    <2>3. QED
      BY <1>1, <1>2, <1>3, <2>1, <2>2, IncreasingFacts
  <1> HIDE DEF n
  <1>9. Arrived'
    <2>1. ArrivedPlace'
      <3>1. ASSUME NEW s \in SeqIds
            PROVE  status'[s] = "none" <=> s >= n + 1
        <4>1. status[s] = "none" <=> s >= n
          BY <1>1 DEF FPlaces, Arrived, ArrivedPlace, n
        <4>2. s \in Nat
          BY <1>3
        <4>3. QED
          BY <1>3, <1>7, <4>1, <4>2
      <3>2. QED
        BY <1>2, <3>1 DEF ArrivedPlace
    <2>2. ASSUME NEW s \in SeqIds
          PROVE  /\ status'[s] = "none" => owned'[s] = <<>>
                 /\ status'[s] # "none" => prompt_len'[s] >= 1
      <3>1. CASE s = n
        BY <1>3, <1>7, <3>1
      <3>2. CASE s # n
        BY <1>1, <1>2, <1>7, <3>2 DEF FPlaces, Arrived
      <3>3. QED
        BY <3>1, <3>2
    <2>3. \A s \in ToSet(waiting') \cup ToSet(running') \cup ToSet(todo') : status'[s] # "none"
      BY <1>1, <1>2, <1>5, <1>6, <1>7 DEF FPlaces, Arrived
    <2>4. QED
      BY <2>1, <2>2, <2>3 DEF Arrived
  <1>10. Found'
    <2>1. ASSUME NEW s \in SeqIds, status'[s] \in {"waiting", "running"}
          PROVE  s \in ToSet(waiting') \cup ToSet(running)
      BY <1>1, <1>6, <1>7, <2>1 DEF FPlaces, Found
    <2>2. IsInjective(running)
      BY <1>1 DEF FPlaces, Found
    <2>3. QED
      BY <1>2, <1>6, <1>8, <2>1, <2>2 DEF Found
  <1>11. LoopsOnce' /\ VictimsLeft' /\ EvictionFrees'
    BY <1>1, <1>2 DEF FPlaces, LoopsOnce, RetryAsks, VictimsLeft, EvictionFrees
  <1>12. Undamaged'
    <2>1. ASSUME NEW s \in ToSet(waiting') \ damaged
          PROVE  status'[s] = "waiting" /\ owned'[s] = <<>> /\ seq_len'[s] = prompt_len'[s]
      <3>1. CASE s = n
        BY <1>2, <1>4, <1>7, <3>1
      <3>2. CASE s # n
        <4>1. s \in ToSet(waiting) \ damaged /\ s \in SeqIds \ {n}
          BY <1>5, <1>6, <2>1, <3>2
        <4>2. QED
          BY <1>1, <1>2, <1>6, <1>7, <4>1 DEF FPlaces, Undamaged
      <3>3. QED
        BY <3>1, <3>2
    <2>2. \A s \in ToSet(running) \ damaged : status'[s] = "running"
      BY <1>1, <1>5, <1>7 DEF FPlaces, Undamaged
    <2>3. QED
      BY <1>2, <1>6, <2>1, <2>2 DEF Undamaged
  <1>13. DamageContained'
    <2>1. ASSUME NEW s
          PROVE  Provisioned(s)' <=> Provisioned(s)
      BY <1>2 DEF Provisioned
    <2>2. QED
      BY <1>1, <1>2, <1>5, <1>7, <2>1, DamageKept DEF FPlaces
  <1>14. QED
    BY <1>9, <1>10, <1>11, <1>12, <1>13 DEF FPlaces

-----------------------------------------------------------------------------
(* The invariant holds *)

LEMMA InitFInv == FaultInit => FInv
  <1> SUFFICES ASSUME FaultInit
               PROVE  FInv
    OBVIOUS
  <1>1. /\ Init /\ unusable = {} /\ faults = 0 /\ damaged = {}
    BY DEF FaultInit
  <1>2. TypeOK /\ Partitioned
    BY <1>1, InitType, PoolInitPartitioned DEF Init
  <1>3. FaultTypeOK
    BY <1>1, <1>2 DEF FaultTypeOK
  <1>4. /\ waiting = <<>> /\ running = <<>> /\ todo = <<>> /\ still_waiting = <<>>
        /\ pc = "idle" /\ next_seq_id = 0
        /\ \A s \in SeqIds : status[s] = "none" /\ owned[s] = <<>>
    BY <1>1 DEF Init, PoolInit
  <1>5. /\ ToSet(<<>>) = {} /\ IsInjective(<<>>) /\ Increasing(<<>>)
        /\ Unadmitted = <<>>
    BY <1>4 DEF ToSet, IsInjective, Increasing, Unadmitted
  <1>6. Arrived
    <2>1. \A s \in SeqIds : s >= 0
      BY DEF SeqIds
    <2>2. QED
      BY <1>4, <1>5, <2>1 DEF Arrived, ArrivedPlace
  <1>7. Control /\ Found /\ LoopsOnce /\ VictimsLeft /\ EvictionFrees /\ Undamaged
    BY <1>4, <1>5 DEF Control, Found, LoopsOnce, RetryAsks, VictimsLeft, EvictionFrees,
                      Undamaged
  <1>8. DamageContained
    BY <1>4, <1>5 DEF DamageContained
  <1>9. QED
    BY <1>2, <1>3, <1>6, <1>7, <1>8 DEF FInv, Partitioned

\* Where a pass raises, the pool has either just served its request or is as it
\* was; the lists are the old ones or empty.
LEMMA RaiseStep ==
    ASSUME FInv, Raises
    PROVE  FaultTypeOK' /\ Partitioned' /\ Control'
  <1>1. /\ TypeOK /\ PoolTypeOK /\ Partitioned
        /\ waiting \in Seq(SeqIds) /\ todo \in Seq(SeqIds)
        /\ unusable \subseteq SeqIds /\ faults \in Nat /\ damaged \subseteq SeqIds
    BY FaultLists DEF FInv, FaultTypeOK, Partitioned
  <1>2. <<>> \in Seq(SeqIds) /\ NoResults \in [SeqIds -> StepResults]
    BY EmptySeq DEF NoResults, StepResults
  <1>3. ToSet(waiting) \subseteq SeqIds /\ ToSet(todo) \subseteq SeqIds
    BY <1>1, ListOfIds
  <1>4. ASSUME NEW s, NEW tokens, PassRaises(s, tokens)
        PROVE  faults' \in Nat
    BY <1>1, <1>4 DEF PassRaises
  <1>5. CASE PrefillRaises
    <2> DEFINE s == Head(todo)
               n == BlocksFor(prompt_len[s])
    <2>1. /\ todo # <<>> /\ Allocate(s, n) /\ CanAllocate(n)
          /\ block_table' = [block_table EXCEPT ![s] = @ \o NewBlocks(n)]
      BY <1>5 DEF PrefillRaises, Allocate
    <2>2. s \in SeqIds /\ n \in Nat
      BY <1>1, <2>1, HeadFacts
    <2>3. PoolTypeOK' /\ Partitioned'
      BY <1>1, <2>1, <2>2, AllocateFacts, AllocatePartitioned
    <2>4. block_table' \in [SeqIds -> Seq(Blocks)]
      BY <1>1, <2>1, <2>2, TableType
    <2>5. status' \in [SeqIds -> Statuses]
      BY <1>1, <1>5, <2>2 DEF PrefillRaises, TypeOK, Statuses
    <2>6. TypeOK'
      BY <1>1, <1>2, <1>5, <2>3, <2>4, <2>5
         DEF PrefillRaises, LeaveStep, TypeOK, requests, Phases
    <2>7. damaged' \subseteq SeqIds /\ faults' \in Nat /\ unusable' = unusable
      BY <1>1, <1>3, <1>4, <1>5 DEF PrefillRaises
    <2>8. QED
      BY <1>1, <1>5, <2>3, <2>6, <2>7 DEF FaultTypeOK, Control, PrefillRaises, LeaveStep
  <1>6. CASE DecodeRaises
    <2> DEFINE s == Head(todo)
    <2>1. UNCHANGED poolVars /\ todo # <<>>
      BY <1>6 DEF DecodeRaises
    <2>2. PoolTypeOK' /\ Partitioned'
      BY <1>1, <2>1 DEF poolVars, PoolTypeOK, Partitioned, NoBlockShared, NoBlockLost
    <2>3. cached' \in [SeqIds -> Nat \cup {None}]
      <3>1. cached \in [SeqIds -> Nat \cup {None}] /\ s \in SeqIds
        BY <1>1, <2>1, HeadFacts DEF TypeOK
      <3>2. cached[s] + 1 \in Nat
        <4>1. cached[s] \in Nat \/ cached[s] = -1
          BY <3>1 DEF None
        <4>2. QED
          BY <4>1
      <3>3. cached' = cached \/ cached' = [cached EXCEPT ![s] = cached[s] + 1]
        BY <1>6 DEF DecodeRaises
      <3> HIDE DEF s
      <3>4. QED
        BY <3>1, <3>2, <3>3
    <2>4. TypeOK'
      BY <1>1, <1>2, <1>6, <2>2, <2>3 DEF DecodeRaises, LeaveStep, TypeOK, requests, Phases
    <2>5. damaged' \subseteq SeqIds /\ faults' \in Nat /\ unusable' = unusable
      BY <1>1, <1>3, <1>4, <1>6 DEF DecodeRaises
    <2>6. QED
      BY <1>1, <1>6, <2>2, <2>4, <2>5 DEF FaultTypeOK, Control, DecodeRaises, LeaveStep
  <1>7. QED
    BY <1>5, <1>6 DEF Raises

\* What is not an exception is a step of Scheduler.
LEMMA CalmStep ==
    ASSUME FInv, [Next]_vars, unusable' \subseteq SeqIds, UNCHANGED <<faults, damaged>>
    PROVE  FaultTypeOK' /\ Partitioned' /\ Control'
  <1>1. TypeOK /\ RetryAsks /\ Partitioned /\ Control
    BY FaultLists DEF FInv, Partitioned
  <1>2. TypeOK' /\ Partitioned' /\ Control'
    BY <1>1, TypeStep, PartitionStep, ControlStep
  <1>3. QED
    BY <1>2 DEF FInv, FaultTypeOK

LEMMA FInvStep == FInv /\ [FaultNext]_allVars => FInv'
  <1> SUFFICES ASSUME FInv, [FaultNext]_allVars
               PROVE  FInv'
    OBVIOUS
  <1>1. unusable \subseteq SeqIds
    BY DEF FInv, FaultTypeOK
  <1>2. CASE Undisturbed
    <2>1. UNCHANGED <<unusable, faults, damaged>> /\ Next
      BY <1>2 DEF Undisturbed, faultVars, Next, Step
    <2>2. FaultTypeOK' /\ Partitioned' /\ Control'
      BY <1>1, <2>1, CalmStep
    <2>3. FPlaces'
      BY <1>2, <2>1, FaultPhaseStep, FaultAdmitOne, FaultKeepWaiting, FaultEnsureRoom,
         FaultEvict, FaultRetry, FaultDecodeContinues, FaultDecodeFinishes
         DEF Undisturbed
    <2>4. QED
      BY <2>2, <2>3 DEF FInv, FPlaces, Partitioned
  <1>3. CASE Raises
    BY <1>3, RaiseStep, FaultPrefillRaises, FaultDecodeRaises
       DEF Raises, FInv, FPlaces, Partitioned
  <1>4. ASSUME NEW p \in PromptLens, NEW m \in MaxNews, FaultAddRequest(p, m)
        PROVE  FInv'
    <2>1. AddRequest(p, m) /\ UNCHANGED <<faults, damaged>> /\ Next
      BY <1>4 DEF FaultAddRequest, Next
    <2>2. next_seq_id \in SeqIds
      <3>1. next_seq_id \in 0 .. MaxRequests /\ next_seq_id < MaxRequests
        BY <2>1 DEF AddRequest, FInv, FaultTypeOK, TypeOK
      <3>2. QED
        BY <3>1, MaxRequestsAssumption DEF SeqIds
    <2>3. unusable' \subseteq SeqIds
      BY <1>1, <1>4, <2>2 DEF FaultAddRequest
    <2>4. QED
      BY <2>1, <2>3, CalmStep, FaultArrival DEF FInv, FPlaces, Partitioned
  <1>5. CASE UNCHANGED allVars
    <2>1. UNCHANGED vars /\ UNCHANGED <<unusable, faults, damaged>>
      BY <1>5 DEF allVars, faultVars
    <2>2. FaultTypeOK' /\ Partitioned' /\ Control'
      BY <1>1, <2>1, CalmStep
    <2>3. Arrived' /\ Found' /\ Undamaged'
      BY <2>1 DEF vars, requests, control, FInv, Arrived, ArrivedPlace, Found, Unadmitted,
                  Undamaged
    <2>4. LoopsOnce' /\ VictimsLeft' /\ EvictionFrees'
      BY <2>1 DEF vars, control, FInv, LoopsOnce, RetryAsks, VictimsLeft, EvictionFrees
    <2>5. DamageContained'
      BY <2>1, DamageKept DEF vars, control, FInv, Provisioned
    <2>6. QED
      BY <2>2, <2>3, <2>4, <2>5 DEF FInv, Partitioned
  <1>6. QED
    BY <1>2, <1>3, <1>4, <1>5 DEF FaultNext

-----------------------------------------------------------------------------
(* The theorems *)

\* The inductive invariant holds whatever raises, and however often.
THEOREM FaultInvariantHolds == FaultSpec => []FInv
  BY InitFInv, FInvStep, PTL DEF FaultSpec

\* The lists, tables and counters keep their types.
THEOREM FaultTypeCorrect == FaultSpec => []FaultTypeOK
  <1>1. FInv => FaultTypeOK
    BY DEF FInv
  <1>2. QED
    BY <1>1, FaultInvariantHolds, PTL

\* No exception makes the pool give a block to two sequences.
THEOREM FaultsNeverShare == FaultSpec => []NoBlockShared
  <1>1. FInv => NoBlockShared
    BY DEF FInv
  <1>2. QED
    BY <1>1, FaultInvariantHolds, PTL

\* ... or lose one from its books.
THEOREM FaultsNeverLose == FaultSpec => []NoBlockLost
  <1>1. FInv => NoBlockLost
    BY DEF FInv
  <1>2. QED
    BY <1>1, FaultInvariantHolds, PTL

\* No exception makes the scheduler forget a request, or list one twice.
THEOREM FaultsForgetNobody == FaultSpec => []NobodyForgotten
  <1>1. FInv => NobodyForgotten
    BY DEF FInv, Found, NobodyForgotten
  <1>2. QED
    BY <1>1, FaultInvariantHolds, PTL

\* A running request that no exception has touched is billed for exactly what
\* its cache holds, whatever has happened to the others.
THEOREM FaultsAreContained == FaultSpec => []DamageContained
  <1>1. FInv => DamageContained
    BY DEF FInv
  <1>2. QED
    BY <1>1, FaultInvariantHolds, PTL

\* What Evict needs in order to be taken: a running request to choose.
VictimExists == pc = "ensure" /\ todo # <<>> => running # <<>>

\* max() is never called on an empty dict, though the loop can meet requests
\* that are not in it: an exception of step() never comes from there.
THEOREM EvictionHasAVictim == FaultSpec => []VictimExists
  <1>1. FInv => VictimExists
    <2> SUFFICES ASSUME FInv, pc = "ensure", todo # <<>>
                 PROVE  running # <<>>
      BY DEF VictimExists
    <2>1. /\ todo \in Seq(SeqIds) /\ running \in Seq(SeqIds)
          /\ Len(todo) <= Len(running)
      BY FaultLists DEF FPlaces, VictimsLeft
    <2>2. Len(todo) \in Nat \ {0}
      BY <2>1, EmptySeq
    <2>3. Len(running) # 0
      BY <2>1, <2>2
    <2>4. QED
      BY <2>3
  <1>2. QED
    BY <1>1, FaultInvariantHolds, PTL

\* Exceptions or not, all that happens to the pool is calls of its methods.
THEOREM FaultsUseThePool == FaultSpec => PoolSpec
  <1>1. FaultInit => PoolInit
    BY DEF FaultInit, Init
  <1>2. FInv /\ [FaultNext]_allVars => [PoolNext]_poolVars
    <2> SUFFICES ASSUME FInv, [FaultNext]_allVars
                 PROVE  [PoolNext]_poolVars
      OBVIOUS
    <2>1. TypeOK /\ PoolTypeOK /\ RetryAsks /\ NoBlockShared
      BY FaultLists DEF FInv
    <2>2. CASE PrefillRaises
      <3>1. todo # <<>> /\ Allocate(Head(todo), BlocksFor(prompt_len[Head(todo)]))
        BY <2>2 DEF PrefillRaises
      <3>2. Head(todo) \in SeqIds /\ BlocksFor(prompt_len[Head(todo)]) \in Nat
        BY <2>1, <3>1, HeadFacts
      <3>3. QED
        BY <2>1, <3>1, <3>2, AllocateIsPoolStep
    <2>3. CASE DecodeRaises
      BY <2>3 DEF DecodeRaises
    <2>4. CASE [Next]_vars
      BY <2>1, <2>4, PoolRefinement
    <2>5. QED
      BY <2>2, <2>3, <2>4
         DEF FaultNext, Undisturbed, Raises, FaultAddRequest, Next, Step, allVars
  <1>3. QED
    BY <1>1, <1>2, FaultInvariantHolds, PTL DEF FaultSpec, PoolSpec

\* So a sequence keeps the blocks it holds, in their order, until it gives all
\* of them back: no exception takes a block from under a cache.
THEOREM FaultsKeepHeldBlocks == FaultSpec => HeldBlocksStay
  BY FaultsUseThePool, PoolHeldBlocksStay

-----------------------------------------------------------------------------
(* What the requests that no exception touches are given *)

\* Histories and outputs are about requests that have arrived.
OnlyArrived == \A s \in SeqIds :
    finished[s] # None \/ s \in damaged \cup unusable => status[s] # "none"

\* An undamaged request runs until it has what it asked for, and no longer.
UndamagedProgress == \A s \in ToSet(running) \ damaged :
    /\ seq_len[s] >= prompt_len[s]
    /\ seq_len[s] = prompt_len[s] \/ ~ IsDone(s, seq_len[s])

\* An output recorded for an undamaged request is as long as was asked, fits
\* the pool, and was made from token ids that every pass accepted.
UndamagedOutputs == \A s \in SeqIds \ damaged : finished[s] # None =>
    /\ finished[s] = prompt_len[s] + Target(s)
    /\ HasRoom(finished[s])
    /\ s \notin unusable

Outputs == OnlyArrived /\ UndamagedProgress /\ UndamagedOutputs

\* Most steps change no token list and record no output.
LEMMA OutputsKept ==
    ASSUME FInv, Outputs,
           UNCHANGED <<finished, seq_len, prompt_len, max_new_tokens, unusable>>,
           damaged \subseteq damaged', \A s \in damaged' : s \in damaged \/ status[s] # "none",
           \A s \in SeqIds : status'[s] = "none" => status[s] = "none",
           \A s \in ToSet(running') \ damaged' :
              s \in ToSet(running) \/ seq_len[s] = prompt_len[s],
           ToSet(running') \subseteq SeqIds
    PROVE  Outputs'
  <1>1. seq_len \in [SeqIds -> Nat] /\ prompt_len \in [SeqIds -> Nat]
    BY FaultLists
  <1>2. OnlyArrived'
    BY DEF Outputs, OnlyArrived
  <1>3. UndamagedProgress'
    <2>1. ASSUME NEW s \in ToSet(running') \ damaged'
          PROVE  /\ seq_len[s] >= prompt_len[s]
                 /\ seq_len[s] = prompt_len[s] \/ ~ IsDone(s, seq_len[s])
      <3>1. CASE s \in ToSet(running)
        BY <2>1, <3>1 DEF Outputs, UndamagedProgress
      <3>2. CASE seq_len[s] = prompt_len[s]
        BY <1>1, <2>1, <3>2
      <3>3. QED
        BY <2>1, <3>1, <3>2
    <2>2. QED
      BY <2>1 DEF UndamagedProgress, IsDone
  <1>4. UndamagedOutputs'
    BY DEF Outputs, UndamagedOutputs, Target, HasRoom
  <1>5. QED
    BY <1>2, <1>3, <1>4 DEF Outputs

\* The last pass of an undamaged request gives it its last token.
LEMMA OutputsFinish ==
    ASSUME FInv, Outputs, DecodeFinishes, Possible(Head(todo), cached[Head(todo)] + 1),
           UNCHANGED faultVars
    PROVE  Outputs'
  <1> DEFINE h == Head(todo)
  <1>1. /\ FPlaces /\ Outputs
        /\ running \in Seq(SeqIds)
        /\ status \in [SeqIds -> Statuses]
        /\ seq_len \in [SeqIds -> Nat] /\ prompt_len \in [SeqIds -> Nat]
        /\ finished \in [SeqIds -> Nat \cup {None}]
        /\ max_new_tokens \in [SeqIds -> Nat]
    BY FaultLists DEF TypeOK
  <1>2. /\ pc = "decode" /\ todo # <<>>
        /\ IsDone(h, seq_len[h] + 1)
        /\ seq_len' = [seq_len EXCEPT ![h] = @ + 1]
        /\ status' = [status EXCEPT ![h] = "finished"]
        /\ finished' = [finished EXCEPT ![h] = seq_len[h] + 1]
        /\ UNCHANGED <<prompt_len, max_new_tokens, unusable, damaged>>
    BY DEF DecodeFinishes, DecodeHead, requests, faultVars
  <1>3. /\ h \in SeqIds /\ h \in ToSet(running)
        /\ ToSet(running) \subseteq SeqIds
    BY <1>2, DecodeFacts
  <1>4. \A x \in ToSet(running') : x \in ToSet(running) /\ x \in SeqIds \ {h}
    <2>1. PICK i \in DOMAIN running : running[i] = h /\ running' = RemoveAt(running, i)
      BY DEF DecodeFinishes
    <2>2. IsInjective(running) /\ i \in 1 .. Len(running)
      BY <1>1 DEF FPlaces, Found
    <2>3. \A x : x \in ToSet(running') <=> x \in ToSet(running) /\ x # h
      BY <1>1, <2>1, <2>2, InRemoveAt
    <2>4. QED
      BY <1>3, <2>3
  <1>5. h \notin damaged =>
            /\ seq_len[h] + 1 = prompt_len[h] + Target(h)
            /\ HasRoom(seq_len[h] + 1)
            /\ h \notin unusable
    <2> SUFFICES ASSUME h \notin damaged
                 PROVE  /\ seq_len[h] + 1 = prompt_len[h] + Target(h)
                        /\ HasRoom(seq_len[h] + 1)
                        /\ h \notin unusable
      OBVIOUS
    <2>1. cached[h] = seq_len[h]
      BY <1>1, <1>3 DEF FPlaces, DamageContained
    <2>2. HasRoom(seq_len[h] + 1) /\ h \notin unusable
      BY <2>1 DEF Possible
    <2>3. /\ seq_len[h] >= prompt_len[h]
          /\ seq_len[h] = prompt_len[h] \/ ~ IsDone(h, seq_len[h])
      BY <1>1, <1>3 DEF Outputs, UndamagedProgress
    <2>4. /\ seq_len[h] \in Nat /\ prompt_len[h] \in Nat /\ max_new_tokens[h] \in Nat
      BY <1>1, <1>3
    <2> HIDE DEF h
    <2>5. seq_len[h] + 1 = prompt_len[h] + Target(h)
      BY <1>2, <2>3, <2>4 DEF IsDone, Target
    <2>6. QED
      BY <2>2, <2>5
  <1>6. /\ finished'[h] = seq_len[h] + 1 /\ status'[h] = "finished"
        /\ \A t \in SeqIds \ {h} : /\ finished'[t] = finished[t] /\ seq_len'[t] = seq_len[t]
                                   /\ status'[t] = status[t]
    BY <1>1, <1>2, <1>3
  <1> HIDE DEF h
  <1>7. OnlyArrived'
    BY <1>1, <1>2, <1>6 DEF Outputs, OnlyArrived
  <1>8. UndamagedProgress'
    BY <1>1, <1>2, <1>4, <1>6 DEF Outputs, UndamagedProgress, IsDone
  <1>9. UndamagedOutputs'
    <2>1. ASSUME NEW s \in SeqIds \ damaged, finished'[s] # None
          PROVE  /\ finished'[s] = prompt_len[s] + Target(s)
                 /\ HasRoom(finished'[s])
                 /\ s \notin unusable
      <3>1. CASE s = h
        BY <1>5, <1>6, <2>1, <3>1
      <3>2. CASE s # h
        BY <1>1, <1>6, <2>1, <3>2 DEF Outputs, UndamagedOutputs
      <3>3. QED
        BY <3>1, <3>2
    <2>2. QED
      BY <1>2, <2>1 DEF UndamagedOutputs, Target, HasRoom
  <1>10. QED
    BY <1>7, <1>8, <1>9 DEF Outputs

\* A pass before the last one leaves a request with more to generate.
LEMMA OutputsContinue ==
    ASSUME FInv, Outputs, DecodeContinues, UNCHANGED faultVars
    PROVE  Outputs'
  <1> DEFINE h == Head(todo)
  <1>1. /\ FPlaces /\ Outputs
        /\ seq_len \in [SeqIds -> Nat] /\ prompt_len \in [SeqIds -> Nat]
    BY FaultLists
  <1>2. /\ pc = "decode" /\ todo # <<>>
        /\ ~ IsDone(h, seq_len[h] + 1)
        /\ seq_len' = [seq_len EXCEPT ![h] = @ + 1]
        /\ UNCHANGED <<running, finished, status, prompt_len, max_new_tokens, unusable, damaged>>
    BY DEF DecodeContinues, DecodeHead, requests, faultVars
  <1>3. /\ h \in SeqIds /\ h \in ToSet(running)
        /\ ToSet(running) \subseteq SeqIds
    BY <1>2, DecodeFacts
  <1>4. /\ seq_len'[h] = seq_len[h] + 1
        /\ \A t \in SeqIds \ {h} : seq_len'[t] = seq_len[t]
    BY <1>1, <1>2, <1>3
  <1> HIDE DEF h
  <1>5. OnlyArrived' /\ UndamagedOutputs'
    BY <1>1, <1>2 DEF Outputs, OnlyArrived, UndamagedOutputs, Target, HasRoom
  <1>6. UndamagedProgress'
    <2>1. ASSUME NEW s \in ToSet(running) \ damaged
          PROVE  /\ seq_len'[s] >= prompt_len[s]
                 /\ seq_len'[s] = prompt_len[s] \/ ~ IsDone(s, seq_len'[s])
      <3>1. CASE s = h
        <4>1. seq_len[s] >= prompt_len[s] /\ seq_len[s] \in Nat /\ prompt_len[s] \in Nat
          BY <1>1, <1>3, <2>1 DEF Outputs, UndamagedProgress
        <4>2. QED
          BY <1>2, <1>4, <3>1, <4>1
      <3>2. CASE s # h
        BY <1>1, <1>3, <1>4, <2>1, <3>2 DEF Outputs, UndamagedProgress
      <3>3. QED
        BY <3>1, <3>2
    <2>2. QED
      BY <1>2, <2>1 DEF UndamagedProgress, IsDone
  <1>7. QED
    BY <1>5, <1>6 DEF Outputs

\* A request that arrives has no output, and nothing has touched it.
LEMMA OutputsArrival ==
    ASSUME FInv, Outputs, NEW p \in PromptLens, NEW m \in MaxNews, FaultAddRequest(p, m)
    PROVE  Outputs'
  <1> DEFINE n == next_seq_id
  <1>1. /\ FPlaces /\ Outputs
        /\ running \in Seq(SeqIds)
        /\ status \in [SeqIds -> Statuses]
        /\ seq_len \in [SeqIds -> Nat] /\ prompt_len \in [SeqIds -> Nat]
        /\ max_new_tokens \in [SeqIds -> Nat]
        /\ n \in 0 .. MaxRequests
    BY FaultLists DEF TypeOK
  <1>2. /\ n < MaxRequests
        /\ prompt_len' = [prompt_len EXCEPT ![n] = p]
        /\ max_new_tokens' = [max_new_tokens EXCEPT ![n] = m]
        /\ seq_len' = [seq_len EXCEPT ![n] = p]
        /\ status' = [status EXCEPT ![n] = "waiting"]
        /\ unusable' \subseteq unusable \cup {n}
        /\ UNCHANGED <<running, finished, damaged>>
    BY DEF FaultAddRequest, AddRequest
  <1>3. n \in SeqIds /\ n >= n
    BY <1>1, <1>2, MaxRequestsAssumption DEF SeqIds
  <1>4. status[n] = "none"
    BY <1>1, <1>3 DEF FPlaces, Arrived, ArrivedPlace
  <1>5. finished[n] = None /\ n \notin damaged
    BY <1>1, <1>3, <1>4 DEF Outputs, OnlyArrived
  <1>6. ToSet(running) \subseteq SeqIds \ {n}
    BY <1>1, <1>4, ListOfIds DEF FPlaces, Arrived
  <1>7. /\ status'[n] = "waiting"
        /\ \A t \in SeqIds \ {n} : /\ status'[t] = status[t] /\ seq_len'[t] = seq_len[t]
                                   /\ prompt_len'[t] = prompt_len[t]
                                   /\ max_new_tokens'[t] = max_new_tokens[t]
    BY <1>1, <1>2, <1>3
  <1> HIDE DEF n
  <1>8. OnlyArrived'
    BY <1>1, <1>2, <1>7 DEF Outputs, OnlyArrived
  <1>9. UndamagedProgress'
    BY <1>1, <1>2, <1>6, <1>7 DEF Outputs, UndamagedProgress, IsDone
  <1>10. UndamagedOutputs'
    <2>1. ASSUME NEW s \in SeqIds \ damaged, finished[s] # None
          PROVE  /\ finished[s] = prompt_len'[s] + Target(s)'
                 /\ HasRoom(finished[s])
                 /\ s \notin unusable'
      <3>1. s \in SeqIds \ {n} /\ s \notin unusable'
        BY <1>1, <1>2, <1>5, <2>1 DEF Outputs, UndamagedOutputs
      <3>2. prompt_len'[s] = prompt_len[s] /\ Target(s)' = Target(s)
        BY <1>7, <3>1 DEF Target
      <3>3. QED
        BY <1>1, <2>1, <3>1, <3>2 DEF Outputs, UndamagedOutputs
    <2>2. QED
      BY <1>2, <2>1 DEF UndamagedOutputs, HasRoom
  <1>11. QED
    BY <1>8, <1>9, <1>10 DEF Outputs

LEMMA OutputsStep == FInv /\ Outputs /\ [FaultNext]_allVars => Outputs'
  <1> SUFFICES ASSUME FInv, Outputs, [FaultNext]_allVars
               PROVE  Outputs'
    OBVIOUS
  <1>0. /\ FPlaces
        /\ waiting \in Seq(SeqIds) /\ running \in Seq(SeqIds) /\ todo \in Seq(SeqIds)
        /\ status \in [SeqIds -> Statuses]
        /\ ToSet(waiting) \cup ToSet(running) \cup ToSet(todo) \subseteq SeqIds
    BY FaultLists, ListOfIds
  <1>a. \A s \in ToSet(waiting) \cup ToSet(running) \cup ToSet(todo) : status[s] # "none"
    BY <1>0 DEF FPlaces, Arrived
  \* steps that change no list of those that run, and no status
  <1>1. CASE UNCHANGED <<finished, seq_len, prompt_len, max_new_tokens, unusable, damaged,
                         status, running>>
    BY <1>0, <1>1, OutputsKept
  <1>2. CASE AdmitOne /\ UNCHANGED faultVars
    <2> DEFINE h == Head(todo)
    <2>1. /\ pc = "admit" /\ todo # <<>>
          /\ Allocate(h, BlocksFor(prompt_len[h]))
          /\ status' = [status EXCEPT ![h] = "running"]
          /\ running' = IF h \in ToSet(running) THEN running ELSE Append(running, h)
          /\ UNCHANGED <<finished, seq_len, prompt_len, max_new_tokens, unusable, damaged>>
      BY <1>2 DEF AdmitOne, requests, faultVars
    <2>2. h \in SeqIds /\ h \in ToSet(Unadmitted)
      BY <2>1, PromptFacts
    <2>3. \A s \in ToSet(running') : s \in ToSet(running) \/ s = h
      BY <1>0, <2>1, <2>2, InAppend
    <2>4. h \notin damaged => seq_len[h] = prompt_len[h]
      BY <1>0, <2>2 DEF FPlaces, Undamaged
    <2>5. \A s \in SeqIds : status'[s] = "none" => status[s] = "none"
      BY <1>0, <2>1, <2>2
    <2>6. ToSet(running') \subseteq SeqIds
      BY <1>0, <2>2, <2>3
    <2> HIDE DEF h
    <2>7. QED
      BY <2>1, <2>3, <2>4, <2>5, <2>6, OutputsKept
  <1>3. CASE Evict /\ UNCHANGED faultVars
    <2>1. PICK i \in DOMAIN running :
                /\ running' = RemoveAt(running, i)
                /\ status' = [status EXCEPT ![running[i]] = "evicted"]
      BY <1>3 DEF Evict
    <2>2. i \in 1 .. Len(running) /\ IsInjective(running)
      BY <1>0 DEF FPlaces, Found
    <2>3. ToSet(running') \subseteq ToSet(running)
      BY <1>0, <2>1, <2>2, InRemoveAt
    <2>4. \A s \in SeqIds : status'[s] = "none" => status[s] = "none"
      BY <1>0, <2>1
    <2>5. UNCHANGED <<finished, seq_len, prompt_len, max_new_tokens, unusable, damaged>>
      BY <1>3 DEF Evict, requests, faultVars
    <2>6. QED
      BY <1>0, <2>3, <2>4, <2>5, OutputsKept
  <1>4. CASE PrefillRaises
    <2>1. /\ todo # <<>>
          /\ status' = [status EXCEPT ![Head(todo)] = "running"]
          /\ damaged' = damaged \cup {t \in ToSet(waiting) : status'[t] # "waiting"}
          /\ UNCHANGED <<running, finished, seq_len, prompt_len, max_new_tokens, unusable>>
      BY <1>4 DEF PrefillRaises, requests
    <2>2. \A s \in SeqIds : status'[s] = "none" => status[s] = "none"
      BY <1>0, <2>1
    <2>3. /\ damaged \subseteq damaged'
          /\ \A s \in damaged' : s \in damaged \/ status[s] # "none"
      BY <1>a, <2>1
    <2>4. QED
      BY <1>0, <2>1, <2>2, <2>3, OutputsKept
  <1>5. CASE DecodeRaises
    <2>1. /\ damaged' = damaged \cup ToSet(todo)
          /\ UNCHANGED <<running, status, finished, seq_len, prompt_len, max_new_tokens,
                         unusable>>
      BY <1>5 DEF DecodeRaises, requests
    <2>2. QED
      BY <1>0, <1>a, <2>1, OutputsKept
  <1>6. CASE /\ DecodeContinues \/ DecodeFinishes
             /\ Possible(Head(todo), cached[Head(todo)] + 1)
             /\ UNCHANGED faultVars
    BY <1>6, OutputsContinue, OutputsFinish
  <1>7. CASE \E p \in PromptLens, m \in MaxNews : FaultAddRequest(p, m)
    BY <1>7, OutputsArrival
  <1>8. CASE /\ BeginStep \/ KeepWaiting \/ EndAdmit \/ EnsureRoom \/ Retry \/ EndEnsure \/ EndStep
             /\ UNCHANGED faultVars
    BY <1>1, <1>8 DEF BeginStep, KeepWaiting, EndAdmit, EnsureRoom, Retry, EndEnsure, EndStep,
                      requests, faultVars
  <1>9. CASE UNCHANGED allVars
    BY <1>1, <1>9 DEF allVars, faultVars, vars, requests
  <1>10. QED
    BY <1>2, <1>3, <1>4, <1>5, <1>6, <1>7, <1>8, <1>9 DEF FaultNext, Undisturbed, Raises

\* Whatever raises, a request that it does not touch is served as if nothing
\* had: its output is whole, and its cache had room for all of it.
THEOREM UndamagedAreServed == FaultSpec => []Outputs
  <1>1. FaultInit => Outputs
    <2> SUFFICES ASSUME FaultInit
                 PROVE  Outputs
      OBVIOUS
    <2>1. /\ running = <<>> /\ damaged = {} /\ unusable = {}
          /\ \A s \in SeqIds : finished[s] = None
      BY DEF FaultInit, Init
    <2>2. ToSet(running) = {}
      BY <2>1 DEF ToSet
    <2>3. QED
      BY <2>1, <2>2 DEF Outputs, OnlyArrived, UndamagedProgress, UndamagedOutputs
  <1>2. QED
    BY <1>1, OutputsStep, FaultInvariantHolds, PTL DEF FaultSpec

-----------------------------------------------------------------------------
(* How often a token can be in a cache *)

\* A request whose token ids no pass can take never runs.
UsableRun == \A s \in ToSet(running) : s \notin unusable

Doubling == DoubledBounded /\ UsableRun

\* It is about who runs: its cache, its tokens, and how many passes have raised.
LEMMA DoublingKept ==
    ASSUME FInv, Doubling,
           UNCHANGED unusable, faults' \in Nat, faults' >= faults,
           \A s \in ToSet(running') :
              /\ s \in ToSet(running)
              /\ cached'[s] = cached[s] /\ seq_len'[s] = seq_len[s]
    PROVE  Doubling'
  <1>1. /\ running \in Seq(SeqIds) /\ ToSet(running) \subseteq SeqIds
        /\ seq_len \in [SeqIds -> Nat] /\ faults \in Nat
    BY FaultLists, ListOfIds DEF FInv, FaultTypeOK
  <1>2. ASSUME NEW s \in ToSet(running')
        PROVE  /\ cached'[s] \in seq_len'[s] .. seq_len'[s] + faults'
               /\ s \notin unusable'
    <2>1. /\ s \in ToSet(running)
          /\ cached'[s] = cached[s] /\ seq_len'[s] = seq_len[s]
      BY <1>2
    <2>2. /\ cached[s] \in seq_len[s] .. seq_len[s] + faults /\ s \notin unusable
          /\ seq_len[s] \in Nat
      BY <1>1, <2>1 DEF Doubling, DoubledBounded, UsableRun
    <2>3. QED
      BY <1>1, <2>1, <2>2
  <1>3. QED
    BY <1>2 DEF Doubling, DoubledBounded, UsableRun

\* A request is admitted with a cache of its own, which holds its tokens once,
\* also when it is taken up for the second time.
LEMMA DoublingAdmit ==
    ASSUME FInv, Doubling, AdmitOne, Possible(Head(todo), seq_len[Head(todo)]),
           UNCHANGED faultVars
    PROVE  Doubling'
  <1> DEFINE h == Head(todo)
  <1>1. /\ running \in Seq(SeqIds) /\ ToSet(running) \subseteq SeqIds
        /\ seq_len \in [SeqIds -> Nat] /\ cached \in [SeqIds -> Nat \cup {None}]
        /\ faults \in Nat
    BY FaultLists, ListOfIds DEF FInv, FaultTypeOK, TypeOK
  <1>2. /\ pc = "admit" /\ todo # <<>>
        /\ Allocate(h, BlocksFor(prompt_len[h]))
        /\ cached' = [cached EXCEPT ![h] = seq_len[h]]
        /\ running' = IF h \in ToSet(running) THEN running ELSE Append(running, h)
        /\ UNCHANGED <<seq_len, unusable, faults>>
    BY DEF AdmitOne, faultVars
  <1>3. h \in SeqIds
    BY <1>2, PromptFacts
  <1>4. h \notin unusable
    BY DEF Possible
  <1>5. \A s \in ToSet(running') : s = h \/ (s \in ToSet(running) /\ s \in SeqIds \ {h})
    BY <1>1, <1>2, <1>3, InAppend
  <1>6. /\ cached'[h] = seq_len[h] /\ seq_len[h] \in Nat
        /\ \A s \in SeqIds \ {h} : cached'[s] = cached[s]
    BY <1>1, <1>2, <1>3
  <1> HIDE DEF h
  <1>7. ASSUME NEW s \in ToSet(running')
        PROVE  cached'[s] \in seq_len[s] .. seq_len[s] + faults /\ s \notin unusable
    <2>1. CASE s = h
      BY <1>1, <1>4, <1>6, <2>1
    <2>2. CASE s \in ToSet(running) /\ s \in SeqIds \ {h}
      BY <1>6, <2>2 DEF Doubling, DoubledBounded, UsableRun
    <2>3. QED
      BY <1>5, <2>1, <2>2
  <1>8. QED
    BY <1>2, <1>7 DEF Doubling, DoubledBounded, UsableRun

\* A pass gives the request one token, and caches one; the last one takes the
\* request out of those that run.
LEMMA DoublingDecode ==
    ASSUME FInv, Doubling, DecodeContinues \/ DecodeFinishes, UNCHANGED faultVars
    PROVE  Doubling'
  <1> DEFINE h == Head(todo)
  <1>1. /\ FPlaces
        /\ running \in Seq(SeqIds) /\ ToSet(running) \subseteq SeqIds
        /\ seq_len \in [SeqIds -> Nat] /\ cached \in [SeqIds -> Nat \cup {None}]
        /\ faults \in Nat
    BY FaultLists, ListOfIds DEF FInv, FaultTypeOK, TypeOK
  <1>2. /\ pc = "decode" /\ todo # <<>>
        /\ seq_len' = [seq_len EXCEPT ![h] = @ + 1]
        /\ UNCHANGED <<unusable, faults>>
    BY DEF DecodeContinues, DecodeFinishes, DecodeHead, faultVars
  <1>3. h \in SeqIds /\ h \in ToSet(running)
    BY <1>2, DecodeFacts
  <1>4. CASE DecodeContinues
    <2>1. running' = running /\ cached' = [cached EXCEPT ![h] = @ + 1]
      BY <1>4 DEF DecodeContinues
    <2>2. /\ cached'[h] = cached[h] + 1 /\ seq_len'[h] = seq_len[h] + 1
          /\ \A s \in SeqIds \ {h} : cached'[s] = cached[s] /\ seq_len'[s] = seq_len[s]
      BY <1>1, <1>2, <1>3, <2>1
    <2> HIDE DEF h
    <2>3. ASSUME NEW s \in ToSet(running)
          PROVE  cached'[s] \in seq_len'[s] .. seq_len'[s] + faults /\ s \notin unusable
      <3>1. /\ cached[s] \in seq_len[s] .. seq_len[s] + faults /\ s \notin unusable
            /\ s \in SeqIds /\ seq_len[s] \in Nat
        BY <1>1, <2>3 DEF Doubling, DoubledBounded, UsableRun
      <3>2. CASE s = h
        BY <1>1, <2>2, <3>1, <3>2
      <3>3. CASE s # h
        BY <2>2, <3>1, <3>3
      <3>4. QED
        BY <3>2, <3>3
    <2>4. QED
      BY <1>2, <2>1, <2>3 DEF Doubling, DoubledBounded, UsableRun
  <1>5. CASE DecodeFinishes
    <2>1. PICK i \in DOMAIN running : running[i] = h /\ running' = RemoveAt(running, i)
      BY <1>5 DEF DecodeFinishes
    <2>2. IsInjective(running) /\ i \in 1 .. Len(running)
      BY <1>1 DEF FPlaces, Found
    <2>3. \A s \in ToSet(running') : s \in ToSet(running) /\ s \in SeqIds \ {h}
      BY <1>1, <2>1, <2>2, InRemoveAt
    <2>4. cached' = [cached EXCEPT ![h] = None]
      BY <1>5 DEF DecodeFinishes
    <2>5. \A s \in SeqIds \ {h} : cached'[s] = cached[s] /\ seq_len'[s] = seq_len[s]
      BY <1>1, <1>2, <1>3, <2>4
    <2>6. QED
      BY <1>1, <1>2, <2>3, <2>5, DoublingKept
  <1>6. QED
    BY <1>4, <1>5

\* A decode that raises may leave its token behind in the cache.  It raises for
\* want of memory, and is counted, since who runs is usable and a cache with no
\* room takes no token.
LEMMA DoublingRaise ==
    ASSUME FInv, Doubling, DecodeRaises
    PROVE  Doubling'
  <1> DEFINE h == Head(todo)
  <1>1. /\ running \in Seq(SeqIds) /\ ToSet(running) \subseteq SeqIds
        /\ seq_len \in [SeqIds -> Nat] /\ cached \in [SeqIds -> Nat \cup {None}]
        /\ faults \in Nat
    BY FaultLists, ListOfIds DEF FInv, FaultTypeOK, TypeOK
  <1>2. /\ pc = "decode" /\ todo # <<>>
        /\ PassRaises(h, cached[h] + 1)
        /\ \/ UNCHANGED cached
           \/ HasRoom(cached[h] + 1) /\ cached' = [cached EXCEPT ![h] = @ + 1]
        /\ UNCHANGED <<running, seq_len, unusable>>
    BY DEF DecodeRaises
  <1>3. h \in SeqIds /\ h \in ToSet(running)
    BY <1>2, DecodeFacts
  <1>4. faults' \in {faults, faults + 1}
    BY <1>2 DEF PassRaises
  <1>5. CASE UNCHANGED cached
    BY <1>1, <1>2, <1>4, <1>5, DoublingKept
  <1>6. CASE HasRoom(cached[h] + 1) /\ cached' = [cached EXCEPT ![h] = @ + 1]
    <2>1. Possible(h, cached[h] + 1)
      BY <1>3, <1>6 DEF Doubling, UsableRun, Possible
    <2>2. faults' = faults + 1
      BY <1>2, <2>1 DEF PassRaises
    <2>3. /\ cached'[h] = cached[h] + 1
          /\ \A s \in SeqIds \ {h} : cached'[s] = cached[s]
      BY <1>1, <1>3, <1>6
    <2> HIDE DEF h
    <2>4. ASSUME NEW s \in ToSet(running)
          PROVE  cached'[s] \in seq_len[s] .. seq_len[s] + (faults + 1) /\ s \notin unusable
      <3>1. /\ cached[s] \in seq_len[s] .. seq_len[s] + faults /\ s \notin unusable
            /\ s \in SeqIds /\ seq_len[s] \in Nat
        BY <1>1, <2>4 DEF Doubling, DoubledBounded, UsableRun
      <3>2. cached'[s] \in {cached[s], cached[s] + 1}
        BY <2>3, <3>1
      <3>3. QED
        BY <1>1, <3>1, <3>2
    <2>5. QED
      BY <1>2, <2>2, <2>4 DEF Doubling, DoubledBounded, UsableRun
  <1>7. QED
    BY <1>2, <1>5, <1>6

\* A request that arrives does not run yet.
LEMMA DoublingArrival ==
    ASSUME FInv, Doubling, NEW p \in PromptLens, NEW m \in MaxNews, FaultAddRequest(p, m)
    PROVE  Doubling'
  <1> DEFINE n == next_seq_id
  <1>1. /\ FPlaces
        /\ running \in Seq(SeqIds) /\ ToSet(running) \subseteq SeqIds
        /\ seq_len \in [SeqIds -> Nat]
        /\ n \in 0 .. MaxRequests
    BY FaultLists, ListOfIds DEF FInv, FaultTypeOK, TypeOK
  <1>2. /\ n < MaxRequests
        /\ seq_len' = [seq_len EXCEPT ![n] = p]
        /\ unusable' \subseteq unusable \cup {n}
        /\ UNCHANGED <<running, cached, faults>>
    BY DEF FaultAddRequest, AddRequest
  <1>3. n \in SeqIds /\ n >= n
    BY <1>1, <1>2, MaxRequestsAssumption DEF SeqIds
  <1>4. status[n] = "none"
    BY <1>1, <1>3 DEF FPlaces, Arrived, ArrivedPlace
  <1>5. \A s \in ToSet(running) : s \in SeqIds \ {n}
    BY <1>1, <1>4 DEF FPlaces, Arrived
  <1>6. \A s \in SeqIds \ {n} : seq_len'[s] = seq_len[s]
    BY <1>1, <1>2, <1>3
  <1> HIDE DEF n
  <1>7. QED
    BY <1>2, <1>5, <1>6 DEF Doubling, DoubledBounded, UsableRun

LEMMA DoublingStep == FInv /\ Doubling /\ [FaultNext]_allVars => Doubling'
  <1> SUFFICES ASSUME FInv, Doubling, [FaultNext]_allVars
               PROVE  Doubling'
    OBVIOUS
  <1>0. /\ FPlaces
        /\ running \in Seq(SeqIds) /\ ToSet(running) \subseteq SeqIds
        /\ cached \in [SeqIds -> Nat \cup {None}]
        /\ faults \in Nat
    BY FaultLists, ListOfIds DEF FInv, FaultTypeOK, TypeOK
  \* steps that change neither a cache nor a token list
  <1>1. CASE UNCHANGED <<running, cached, seq_len, unusable, faults>>
    BY <1>0, <1>1, DoublingKept
  <1>2. CASE Evict /\ UNCHANGED faultVars
    <2>1. PICK i \in DOMAIN running :
                /\ running' = RemoveAt(running, i)
                /\ cached' = [cached EXCEPT ![running[i]] = None]
      BY <1>2 DEF Evict
    <2>2. i \in 1 .. Len(running) /\ IsInjective(running)
      BY <1>0 DEF FPlaces, Found
    <2>3. \A s \in ToSet(running') : s \in ToSet(running) /\ s # running[i]
      BY <1>0, <2>1, <2>2, InRemoveAt
    <2>4. \A s \in ToSet(running') : cached'[s] = cached[s]
      BY <1>0, <2>1, <2>3
    <2>5. UNCHANGED <<seq_len, unusable, faults>>
      BY <1>2 DEF Evict, faultVars
    <2>6. QED
      BY <1>0, <2>3, <2>4, <2>5, DoublingKept
  <1>3. CASE PrefillRaises
    <2>1. UNCHANGED <<running, cached, seq_len, unusable>>
      BY <1>3 DEF PrefillRaises
    <2>2. faults' \in {faults, faults + 1}
      BY <1>3 DEF PrefillRaises, PassRaises
    <2>3. QED
      BY <1>0, <2>1, <2>2, DoublingKept
  <1>4. CASE DecodeRaises
    BY <1>4, DoublingRaise
  <1>5. CASE AdmitOne /\ Possible(Head(todo), seq_len[Head(todo)]) /\ UNCHANGED faultVars
    BY <1>5, DoublingAdmit
  <1>6. CASE (DecodeContinues \/ DecodeFinishes) /\ UNCHANGED faultVars
    BY <1>6, DoublingDecode
  <1>7. CASE \E p \in PromptLens, m \in MaxNews : FaultAddRequest(p, m)
    BY <1>7, DoublingArrival
  <1>8. CASE /\ BeginStep \/ KeepWaiting \/ EndAdmit \/ EnsureRoom \/ Retry \/ EndEnsure \/ EndStep
             /\ UNCHANGED faultVars
    BY <1>1, <1>8 DEF BeginStep, KeepWaiting, EndAdmit, EnsureRoom, Retry, EndEnsure, EndStep,
                      faultVars
  <1>9. CASE UNCHANGED allVars
    BY <1>1, <1>9 DEF allVars, faultVars, vars
  <1>10. QED
    BY <1>2, <1>3, <1>4, <1>5, <1>6, <1>7, <1>8, <1>9 DEF FaultNext, Undisturbed, Raises

\* Whatever raises, and however often a request is taken up again: the cache of
\* one that runs holds all of its tokens, and no more of them twice than passes
\* have raised.
THEOREM DoublingIsBounded == FaultSpec => []DoubledBounded
  <1>1. FaultInit => Doubling
    <2> SUFFICES ASSUME FaultInit
                 PROVE  Doubling
      OBVIOUS
    <2>1. ToSet(running) = {}
      BY DEF FaultInit, Init, ToSet
    <2>2. QED
      BY <2>1 DEF Doubling, DoubledBounded, UsableRun
  <1>2. Doubling => DoubledBounded
    BY DEF Doubling
  <1>3. QED
    BY <1>1, <1>2, DoublingStep, FaultInvariantHolds, PTL DEF FaultSpec

=============================================================================
