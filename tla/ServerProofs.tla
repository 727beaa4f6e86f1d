----------------------------- MODULE ServerProofs -----------------------------
(***************************************************************************)
(* Theorems about Server and ServerFaults: what the handlers, one after    *)
(* the other, make of the scheduler, and what the clients are sent.  The   *)
(* invariants of the two schedulers, IInv and FInv, are the ground of both *)
(* parts.                                                                  *)
(***************************************************************************)
EXTENDS ServerFaults, SchedulerFaultsProofs

-----------------------------------------------------------------------------
(* Connections and replies *)

ServerTypeOK ==
    /\ conns \in Seq(Requests)
    /\ arrived \subseteq DOMAIN conns
    /\ replies \in Seq([code : Nat, len : Nat])
    /\ Len(replies) <= Len(conns)
    /\ seq_id \in SeqIds \cup {None}

\* A handler that waits has submitted the valid request of its connection.
Serving == seq_id # None =>
    /\ Len(replies) < Len(conns)
    /\ Valid(Current)
    /\ prompt_len[seq_id] = Current.p
    /\ max_new_tokens[seq_id] = Current.m

\* What do_POST lets through is a request as add_request wants it.
LEMMA ValidFacts ==
    ASSUME NEW r \in Requests, Valid(r)
    PROVE  /\ r.p \in PromptLens /\ r.m \in MaxNews
           /\ r.p \in Nat \ {0} /\ r.m \in Nat \ {0}
  <1>1. r.kind = "generate" /\ r.p > 0 /\ r.m >= 1
    BY DEF Valid
  <1>2. r \in [kind : {"generate"}, p : PromptLens \cup {0}, m : MaxNews \cup {0}]
    BY <1>1 DEF Requests
  <1>3. r.p \in PromptLens \cup {0} /\ r.m \in MaxNews \cup {0}
    BY <1>2
  <1>4. PromptLens \subseteq Nat /\ 0 \notin PromptLens /\ MaxNews \subseteq Nat
    BY PromptLensAssumption, MaxNewsAssumption
  <1>5. r.p # 0 /\ r.m # 0
    BY <1>1
  <1>6. QED
    BY <1>3, <1>4, <1>5

\* A connection that waits for its turn is in the list.
LEMMA CurrentFacts ==
    ASSUME ServerTypeOK, Len(replies) < Len(conns)
    PROVE  /\ Len(replies) \in Nat /\ Len(conns) \in Nat
           /\ Len(replies) + 1 \in 1 .. Len(conns)
           /\ Current \in Requests
  <1>1. /\ Len(replies) \in Nat /\ Len(conns) \in Nat
        /\ Len(replies) + 1 \in 1 .. Len(conns)
    BY DEF ServerTypeOK
  <1>2. QED
    BY <1>1 DEF ServerTypeOK, Current

\* A request that a handler has read is one of a connection without a reply.
LEMMA ReadFacts ==
    ASSUME ServerTypeOK, HasRead
    PROVE  seq_id = None /\ Len(replies) < Len(conns)
  <1>1. Len(replies) \in Nat /\ Len(conns) \in Nat /\ DOMAIN conns = 1 .. Len(conns)
    BY DEF ServerTypeOK
  <1>2. Len(replies) + 1 \in DOMAIN conns
    BY DEF ServerTypeOK, HasRead
  <1>3. QED
    BY <1>1, <1>2 DEF HasRead

\* A reply is added behind the others.
LEMMA SendFacts ==
    ASSUME ServerTypeOK, NEW c \in Nat, NEW l \in Nat, Send(c, l), UNCHANGED <<conns, arrived>>,
           Len(replies) < Len(conns), seq_id' \in SeqIds \cup {None}
    PROVE  /\ ServerTypeOK'
           /\ DOMAIN replies' = 1 .. Len(replies) + 1
           /\ Len(replies) \in Nat
           /\ \A i \in 1 .. Len(replies) : replies'[i] = replies[i]
           /\ replies'[Len(replies) + 1] = [code |-> c, len |-> l]
  <1> DEFINE R == [code : Nat, len : Nat]
             e == [code |-> c, len |-> l]
             new == Append(replies, e)
  <1>1. replies \in Seq(R) /\ e \in R /\ Len(replies) \in Nat /\ Len(conns) \in Nat
    BY DEF ServerTypeOK
  <1>2. replies' = new
    BY DEF Send
  <1> HIDE DEF R, e
  <1>3. /\ new \in Seq(R) /\ Len(new) = Len(replies) + 1
        /\ \A i \in 1 .. Len(replies) : new[i] = replies[i]
        /\ new[Len(replies) + 1] = e
    BY <1>1, AppendProperties
  <1> HIDE DEF new
  <1>4. DOMAIN new = 1 .. Len(replies) + 1
    BY <1>3
  <1>5. Len(replies') <= Len(conns')
    BY <1>1, <1>2, <1>3
  <1>6. conns' \in Seq(Requests) /\ arrived' \subseteq DOMAIN conns'
    BY DEF ServerTypeOK
  <1>7. QED
    BY <1>1, <1>2, <1>3, <1>4, <1>5, <1>6 DEF ServerTypeOK, R, e

\* A connection is added behind the others, and the one at hand stays.
LEMMA ConnectFacts ==
    ASSUME ServerTypeOK, NEW r \in Requests, Connect(r)
    PROVE  /\ ServerTypeOK'
           /\ UNCHANGED <<vars, replies, seq_id>>
           /\ \A i \in DOMAIN replies : conns'[i] = conns[i]
           /\ Len(replies) < Len(conns) => Current' = Current /\ Len(replies') < Len(conns')
  <1> DEFINE new == Append(conns, r)
  <1>1. /\ conns \in Seq(Requests) /\ Len(conns) \in Nat
        /\ replies \in Seq([code : Nat, len : Nat]) /\ Len(replies) \in Nat
        /\ Len(replies) <= Len(conns)
        /\ conns' = new /\ UNCHANGED <<vars, arrived, replies, seq_id>>
        /\ arrived \subseteq 1 .. Len(conns)
    BY DEF ServerTypeOK, Connect
  <1>2. /\ new \in Seq(Requests) /\ Len(new) = Len(conns) + 1
        /\ \A i \in 1 .. Len(conns) : new[i] = conns[i]
    BY <1>1, AppendProperties
  <1> HIDE DEF new
  <1>3. ServerTypeOK'
    <2>1. arrived' \subseteq DOMAIN conns'
      BY <1>1, <1>2
    <2>2. QED
      BY <1>1, <1>2, <2>1 DEF ServerTypeOK
  <1>4. \A i \in DOMAIN replies : i \in 1 .. Len(conns)
    BY <1>1
  <1>5. Len(replies) < Len(conns) => Len(replies) + 1 \in 1 .. Len(conns)
    BY <1>1
  <1>6. QED
    BY <1>1, <1>2, <1>3, <1>4, <1>5 DEF Current

\* A client comes to the end of its request, and nothing else changes.
LEMMA ArriveFacts ==
    ASSUME ServerTypeOK, NEW i \in DOMAIN conns, Arrive(i)
    PROVE  ServerTypeOK' /\ UNCHANGED <<vars, conns, replies, seq_id>>
  BY DEF ServerTypeOK, Arrive

\* The refusal of a request is a reply of code 200 for GET /health only.
LEMMA RefusalIsRight ==
    ASSUME AnswerAtOnce, ServerTypeOK
    PROVE  \E c \in {200, 400, 404} : Send(c, 0) /\ (c = 200 <=> Current.kind = "health")
  <1> DEFINE c == CASE Current.kind = "health"  -> 200
                    [] Current.kind = "unknown" -> 404
                    [] OTHER                    -> 400
  <1>1. Send(c, 0)
    BY DEF AnswerAtOnce
  <1>2. c \in {200, 400, 404} /\ (c = 200 <=> Current.kind = "health")
    OBVIOUS
  <1> HIDE DEF c
  <1>3. QED
    BY <1>1, <1>2

\* A reply that has been sent stays what it is, for the connection it was sent on.
LEMMA OldRepliesRight ==
    ASSUME NEW i, conns'[i] = conns[i], replies'[i] = replies[i]
    PROVE  ReplyIsRight(i)' <=> ReplyIsRight(i)
  BY DEF ReplyIsRight, Fits, Valid

-----------------------------------------------------------------------------
(* The pool between two requests *)

\* If nobody owns a block, every block is free.
LEMMA WholePool ==
    ASSUME PoolTypeOK, Partitioned, \A s \in SeqIds : owned[s] = <<>>
    PROVE  Len(free) = TotalBlocks
  <1>1. /\ free \in Seq(Blocks) /\ Len(free) \in Nat /\ DOMAIN free = 1 .. Len(free)
        /\ \A i, j \in DOMAIN free : free[i] = free[j] => i = j
    BY DEF PoolTypeOK, Partitioned, NoBlockShared
  <1>2. ASSUME NEW b \in Blocks
        PROVE  \E i \in DOMAIN free : free[i] = b
    <2>1. \A s \in SeqIds : DOMAIN owned[s] = {}
      OBVIOUS
    <2>2. QED
      BY <2>1 DEF Partitioned, NoBlockLost
  <1>3. Len(free) <= TotalBlocks
    BY <1>1, ListBounded
  <1>4. TotalBlocks <= Len(free)
    <2>1. /\ IsFiniteSet(1 .. Len(free)) /\ Cardinality(1 .. Len(free)) = Len(free)
      <3>1. Len(free) \in Int /\ 1 \in Int
        BY <1>1
      <3>2. /\ IsFiniteSet(1 .. Len(free))
            /\ Cardinality(1 .. Len(free)) = IF 1 > Len(free) THEN 0 ELSE Len(free) - 1 + 1
        BY <3>1, FS_Interval, Zenon
      <3>3. QED
        BY <1>1, <3>2
    <2>2. Cardinality(Blocks) = TotalBlocks
      <3>1. TotalBlocks - 1 \in Int /\ 0 \in Int
        BY TotalBlocksAssumption
      <3>2. Cardinality(0 .. TotalBlocks - 1) =
                    IF 0 > TotalBlocks - 1 THEN 0 ELSE (TotalBlocks - 1) - 0 + 1
        BY <3>1, FS_Interval, Zenon
      <3>3. QED
        BY <3>2, TotalBlocksAssumption DEF Blocks
    <2>3. free \in Surjection(1 .. Len(free), Blocks)
      <3>1. free \in [1 .. Len(free) -> Blocks]
        BY <1>1
      <3>2. QED
        BY <1>1, <1>2, <3>1 DEF Surjection
    <2>4. Cardinality(Blocks) <= Cardinality(1 .. Len(free))
      BY <2>1, <2>3, FS_Surjection
    <2>5. QED
      BY <2>1, <2>2, <2>4
  <1>5. Len(free) \in Int /\ TotalBlocks \in Int
    BY <1>1, TotalBlocksAssumption
  <1>6. QED
    BY <1>3, <1>4, <1>5

-----------------------------------------------------------------------------
(* One request in the scheduler *)

\* Whoever is in one of the lists of the scheduler.
Members == ToSet(waiting) \cup ToSet(running) \cup ToSet(still_waiting) \cup ToSet(todo)

\* The scheduler works for the handler's request and for nobody else.
Alone == Members \subseteq {seq_id}

\* No step() is half done while no handler waits.
Resting ==
    /\ pc = "idle" => todo = <<>>
    /\ seq_id = None => pc = "idle"

\* Earlier requests have given all of their blocks back.
NothingLeft == \A s \in SeqIds \ {seq_id} : owned[s] = <<>>

\* A request that finished has had a block for each of its tokens.
FinishedFit == \A s \in SeqIds : status[s] = "finished" => BlocksAtEnd(s) <= TotalBlocks

\* What the theorems about ServerSpec are derived from.
SInv ==
    /\ IInv
    /\ ServerTypeOK /\ Serving
    /\ Alone /\ Resting /\ NothingLeft
    /\ FinishedFit
    /\ RepliesAreRight

\* A call of step() takes nobody in who was not there.
LEMMA MembersStep ==
    ASSUME TypeOK, StatusMatchesPlace, OldestFirst, RetryAsks, Step
    PROVE  Members' \subseteq Members
  <1>0. /\ waiting \in Seq(SeqIds) /\ running \in Seq(SeqIds)
        /\ still_waiting \in Seq(SeqIds) /\ todo \in Seq(SeqIds)
        /\ ToSet(<<>>) = {}
    BY DEF TypeOK, ToSet
  <1>1. ASSUME todo # <<>>
        PROVE  Head(todo) \in SeqIds /\ Head(todo) \in ToSet(todo) /\ ToSet(Tail(todo)) \subseteq ToSet(todo)
    BY <1>0, <1>1, InTail
  <1>2. ASSUME NEW i \in DOMAIN running
        PROVE  ToSet(RemoveAt(running, i)) \subseteq ToSet(running)
    BY <1>0, InRemoveAt DEF StatusMatchesPlace, RunningPlace
  <1>3. CASE AdmitOne
    <2>1. /\ UNCHANGED <<waiting, still_waiting>> /\ todo' = Tail(todo) /\ todo # <<>>
          /\ running' = running \/ running' = Append(running, Head(todo))
      BY <1>3 DEF AdmitOne
    <2>a. \A x : x \in ToSet(Append(running, Head(todo)))
                    <=> x \in ToSet(running) \/ x = Head(todo)
      BY <1>0, <1>1, <2>1, InAppend
    <2>2. ToSet(running') \subseteq ToSet(running) \cup {Head(todo)}
      BY <2>1, <2>a, Zenon
    <2>3. QED
      BY <1>1, <2>1, <2>2 DEF Members
  <1>4. CASE KeepWaiting
    <2>1. /\ UNCHANGED <<waiting, running>> /\ todo' = Tail(todo) /\ todo # <<>>
          /\ still_waiting' = Append(still_waiting, Head(todo))
      BY <1>4 DEF KeepWaiting
    <2>2. ToSet(still_waiting') \subseteq ToSet(still_waiting) \cup {Head(todo)}
      BY <1>0, <1>1, <2>1, InAppend
    <2>3. QED
      BY <1>1, <2>1, <2>2 DEF Members
  <1>5. CASE Evict
    <2>1. /\ UNCHANGED <<waiting, still_waiting, todo>>
          /\ \E i \in DOMAIN running : running' = RemoveAt(running, i)
      BY <1>5 DEF Evict
    <2>2. QED
      BY <1>2, <2>1 DEF Members
  <1>6. CASE DecodeFinishes
    <2>1. /\ UNCHANGED <<waiting, still_waiting>> /\ todo' = Tail(todo) /\ todo # <<>>
          /\ \E i \in DOMAIN running : running' = RemoveAt(running, i)
      BY <1>6 DEF DecodeFinishes, DecodeHead
    <2>2. QED
      BY <1>1, <1>2, <2>1 DEF Members
  <1>7. CASE EnsureRoom \/ Retry \/ DecodeContinues
    <2>1. /\ UNCHANGED <<waiting, running, still_waiting>> /\ todo' = Tail(todo) /\ todo # <<>>
      BY <1>7 DEF EnsureRoom, Retry, DecodeContinues, DecodeHead, RetryAsks
    <2>2. QED
      BY <1>1, <2>1 DEF Members
  <1>8. CASE BeginStep \/ EndAdmit \/ EndEnsure \/ EndStep
    <2>1. /\ running' = running
          /\ waiting' = waiting \/ waiting' = still_waiting
          /\ still_waiting' = still_waiting \/ still_waiting' = <<>>
          /\ todo' \in {todo, waiting, running, <<>>}
      BY <1>8 DEF BeginStep, EndAdmit, EndEnsure, EndStep, NextPhase
    <2>2. QED
      BY <1>0, <2>1 DEF Members
  <1>9. QED
    BY <1>3, <1>4, <1>5, <1>6, <1>7, <1>8 DEF Step

\* ... and touches no block of a sequence that is in none of the lists.
LEMMA OwnedStep ==
    ASSUME TypeOK, RetryAsks, Step, NEW s \in SeqIds, s \notin Members
    PROVE  owned'[s] = owned[s]
  <1>0. PoolTypeOK /\ running \in Seq(SeqIds) /\ todo \in Seq(SeqIds)
    BY DEF TypeOK
  <1>1. ASSUME todo # <<>>
        PROVE  Head(todo) \in SeqIds /\ Head(todo) # s
    BY <1>0, <1>1, InTail DEF Members
  <1>2. ASSUME NEW t \in SeqIds, t # s,
               Free(t) \/ \E n \in Nat : Allocate(t, n)
        PROVE  owned'[s] = owned[s]
    BY <1>0, <1>2, FreeFacts, AllocateFacts
  <1>3. CASE AdmitOne
    BY <1>1, <1>2, <1>3, HeadFacts DEF AdmitOne
  <1>4. ASSUME todo # <<>>, GrowHead
        PROVE  owned'[s] = owned[s]
    <2>1. Needed(Head(todo)) \in Nat
      BY <1>4, HeadFacts
    <2>2. QED
      BY <1>1, <1>2, <1>4, <2>1 DEF GrowHead
  <1>5. CASE EnsureRoom
    BY <1>4, <1>5 DEF EnsureRoom
  <1>6. CASE Retry
    BY <1>4, <1>6 DEF Retry, RetryAsks, poolVars
  <1>7. CASE Evict
    <2>1. PICK i \in DOMAIN running : Free(running[i])
      BY <1>7 DEF Evict
    <2>2. running[i] \in SeqIds /\ running[i] # s
      BY <1>0, InList DEF Members
    <2>3. QED
      BY <1>2, <2>1, <2>2
  <1>8. CASE DecodeFinishes
    BY <1>1, <1>2, <1>8 DEF DecodeFinishes, DecodeHead
  <1>9. CASE UNCHANGED owned
    BY <1>9
  <1>10. QED
    BY <1>3, <1>5, <1>6, <1>7, <1>8, <1>9
       DEF Step, BeginStep, KeepWaiting, EndAdmit, EndEnsure, DecodeContinues, EndStep, poolVars

\* A call of step() leaves what the requests asked for, and ends with nothing
\* left to walk over.
LEMMA StepRests ==
    ASSUME Step
    PROVE  UNCHANGED requests /\ (pc' = "idle" => todo' = <<>>)
  BY DEF Step, BeginStep, AdmitOne, KeepWaiting, EndAdmit, NextPhase, EnsureRoom, Evict,
         Retry, EndEnsure, DecodeContinues, DecodeFinishes, DecodeHead, EndStep

\* The last token of a request is written into a block it was given first, so
\* the request fits the pool.
LEMMA FitStep ==
    ASSUME IInv, FinishedFit, [Next]_vars
    PROVE  FinishedFit'
  <1>0. /\ TypeOK /\ PoolTypeOK /\ NoBlockShared /\ StatusMatchesPlace /\ RunningPlace
        /\ TodoIsRunning /\ OldestFirst /\ BilledExactly
        /\ status \in [SeqIds -> Statuses]
    BY DEF IInv, TypeOK, StatusMatchesPlace
  <1>1. ASSUME NEW p \in PromptLens, NEW m \in MaxNews, AddRequest(p, m)
        PROVE  FinishedFit'
    <2>1. /\ next_seq_id \in SeqIds
          /\ status' = [status EXCEPT ![next_seq_id] = "waiting"]
          /\ prompt_len' = [prompt_len EXCEPT ![next_seq_id] = p]
          /\ max_new_tokens' = [max_new_tokens EXCEPT ![next_seq_id] = m]
          /\ prompt_len \in [SeqIds -> Nat] /\ max_new_tokens \in [SeqIds -> Nat]
      BY <1>0, <1>1, MaxRequestsAssumption DEF AddRequest, TypeOK, SeqIds
    <2>2. QED
      BY <1>0, <2>1 DEF FinishedFit, BlocksAtEnd, Target
  <1>2. ASSUME UNCHANGED requests,
               \A s \in SeqIds : status'[s] = "finished" => status[s] = "finished"
        PROVE  FinishedFit'
    BY <1>2 DEF FinishedFit, BlocksAtEnd, Target, requests
  <1>3. CASE DecodeFinishes
    <2> DEFINE h == Head(todo)
    <2>1. /\ pc = "decode" /\ todo # <<>> /\ UNCHANGED requests
          /\ status' = [status EXCEPT ![h] = "finished"]
          /\ seq_len' = [seq_len EXCEPT ![h] = @ + 1]
      BY <1>3 DEF DecodeFinishes, DecodeHead
    <2>2. h \in SeqIds /\ h \in ToSet(running) /\ h \in ToSet(todo)
      <3>1. todo \in Seq(SeqIds)
        BY <1>0 DEF TypeOK
      <3>2. QED
        BY <1>0, <2>1, <3>1, HeadRuns, InTail
    <2>3. seq_len'[h] = seq_len[h] + 1 /\ seq_len[h] \in Nat
      BY <1>0, <2>1, <2>2 DEF TypeOK
    <2>4. Provisioned(h)
      BY <2>1, <2>2 DEF Provisioned
    <2>5. Len(owned[h]) = BlocksFor(seq_len'[h])
      BY <1>0, <2>2, <2>3, <2>4 DEF BilledExactly
    <2>6. Len(owned[h]) <= TotalBlocks
      BY <1>0, <2>2, PoolBounds
    <2>7. seq_len'[h] = prompt_len[h] + Target(h)
      <3>1. Progress'
        BY IInvStep DEF IInv
      <3>2. status'[h] = "finished"
        BY <1>0, <2>1, <2>2
      <3>3. \A s \in SeqIds : status'[s] = "finished" =>
                                seq_len'[s] = prompt_len'[s] + Target(s)'
        BY <3>1 DEF Progress
      <3>4. \A s \in SeqIds : prompt_len'[s] + Target(s)' = prompt_len[s] + Target(s)
        BY <2>1 DEF Target, requests
      <3> HIDE DEF h
      <3>5. QED
        BY <2>2, <3>2, <3>3, <3>4
    <2> HIDE DEF h
    <2>8. \A s \in SeqIds : BlocksAtEnd(s)' = BlocksAtEnd(s)
      BY <2>1 DEF BlocksAtEnd, Target, requests
    <2>9. BlocksAtEnd(h) <= TotalBlocks
      <3>1. BlocksAtEnd(h) = BlocksFor(seq_len'[h])
        BY <2>7 DEF BlocksAtEnd
      <3>2. QED
        BY <2>5, <2>6, <3>1
    <2>10. ASSUME NEW s \in SeqIds, status'[s] = "finished"
           PROVE  BlocksAtEnd(s) <= TotalBlocks
      BY <1>0, <2>1, <2>2, <2>9, <2>10 DEF FinishedFit
    <2>11. QED
      BY <2>8, <2>10 DEF FinishedFit
  <1>4. CASE AdmitOne
    <2>1. Head(todo) \in SeqIds /\ status' = [status EXCEPT ![Head(todo)] = "running"]
      BY <1>0, <1>4, HeadFacts DEF AdmitOne
    <2>2. QED
      BY <1>0, <1>2, <1>4, <2>1 DEF AdmitOne
  <1>5. CASE Evict
    <2>1. running[1] \in SeqIds /\ status' = [status EXCEPT ![running[1]] = "evicted"]
      BY <1>0, <1>5, EvictFacts
    <2>2. QED
      BY <1>0, <1>2, <1>5, <2>1 DEF Evict
  <1>6. CASE UNCHANGED <<status, requests>>
    BY <1>2, <1>6
  <1>7. QED
    BY <1>1, <1>3, <1>4, <1>5, <1>6
       DEF Next, Step, BeginStep, KeepWaiting, EndAdmit, EnsureRoom, Retry, EndEnsure,
           DecodeContinues, DecodeHead, EndStep, vars

-----------------------------------------------------------------------------
(* The handlers, one after the other *)


\* Nothing of the scheduler changes: what SInv says of it stays.
LEMMA SchedulerKept ==
    ASSUME IInv, FinishedFit, UNCHANGED vars
    PROVE  /\ IInv' /\ FinishedFit'
           /\ Members' = Members
           /\ UNCHANGED <<pc, todo, owned, requests>>
  <1>1. IInv' /\ FinishedFit'
    BY IInvStep, FitStep
  <1>2. QED
    BY <1>1 DEF vars, control, Members

\* The replies stay what they are when none is added.
LEMMA NoReply ==
    ASSUME RepliesAreRight, UNCHANGED <<conns, replies>>
    PROVE  RepliesAreRight'
  <1>1. ASSUME NEW i \in DOMAIN replies
        PROVE  ReplyIsRight(i)'
    BY <1>1, OldRepliesRight DEF RepliesAreRight
  <1>2. QED
    BY <1>1 DEF RepliesAreRight

\* ... and so does all but the last when one is.
LEMMA OneReply ==
    ASSUME RepliesAreRight, UNCHANGED conns,
           DOMAIN replies' = 1 .. Len(replies) + 1, Len(replies) \in Nat,
           DOMAIN replies = 1 .. Len(replies),
           \A i \in 1 .. Len(replies) : replies'[i] = replies[i],
           NEW n, n = Len(replies) + 1, ReplyIsRight(n)'
    PROVE  RepliesAreRight'
  <1>1. ASSUME NEW i \in 1 .. Len(replies)
        PROVE  ReplyIsRight(i)'
    BY <1>1, OldRepliesRight DEF RepliesAreRight
  <1>2. ASSUME NEW i \in DOMAIN replies'
        PROVE  ReplyIsRight(i)'
    <2>1. i \in 1 .. Len(replies) \/ i = n
      BY <1>2
    <2>2. QED
      BY <1>1, <2>1
  <1>3. QED
    BY <1>2 DEF RepliesAreRight

LEMMA ConnectStep ==
    ASSUME SInv, NEW r \in Requests, Connect(r)
    PROVE  SInv'
  <1>1. /\ ServerTypeOK' /\ UNCHANGED <<vars, replies, seq_id>>
        /\ \A i \in DOMAIN replies : conns'[i] = conns[i]
        /\ Len(replies) < Len(conns) => Current' = Current /\ Len(replies') < Len(conns')
    BY ConnectFacts DEF SInv
  <1>2. /\ IInv' /\ FinishedFit' /\ Members' = Members
        /\ UNCHANGED <<pc, todo, owned, requests>>
    BY <1>1, SchedulerKept DEF SInv
  <1>3. Serving'
    BY <1>1, <1>2 DEF SInv, Serving, Valid, requests
  <1>4. Alone' /\ Resting' /\ NothingLeft'
    BY <1>1, <1>2 DEF SInv, Alone, Resting, NothingLeft
  <1>5. RepliesAreRight'
    <2>1. ASSUME NEW i \in DOMAIN replies
          PROVE  ReplyIsRight(i)'
      BY <1>1, <2>1, OldRepliesRight DEF SInv, RepliesAreRight
    <2>2. QED
      BY <1>1, <2>1 DEF RepliesAreRight
  <1>6. QED
    BY <1>1, <1>2, <1>3, <1>4, <1>5 DEF SInv

LEMMA ArriveStep ==
    ASSUME SInv, NEW i \in DOMAIN conns, Arrive(i)
    PROVE  SInv'
  <1>1. ServerTypeOK' /\ UNCHANGED <<vars, conns, replies, seq_id>>
    BY ArriveFacts DEF SInv
  <1>2. /\ IInv' /\ FinishedFit' /\ Members' = Members
        /\ UNCHANGED <<pc, todo, owned, requests>>
    BY <1>1, SchedulerKept DEF SInv
  <1>3. Serving' /\ Alone' /\ Resting' /\ NothingLeft'
    BY <1>1, <1>2 DEF SInv, Serving, Current, Valid, requests, Alone, Resting, NothingLeft
  <1>4. RepliesAreRight'
    BY <1>1, NoReply DEF SInv
  <1>5. QED
    BY <1>1, <1>2, <1>3, <1>4 DEF SInv

LEMMA AnswerStep ==
    ASSUME SInv, AnswerAtOnce
    PROVE  SInv'
  <1>1. /\ seq_id = None /\ Len(replies) < Len(conns) /\ ~ Valid(Current)
        /\ UNCHANGED <<vars, conns, arrived, seq_id>>
        /\ ServerTypeOK
    BY ReadFacts DEF AnswerAtOnce, SInv
  <1>2. PICK c \in {200, 400, 404} : Send(c, 0) /\ (c = 200 <=> Current.kind = "health")
    BY <1>1, RefusalIsRight
  <1>3. /\ ServerTypeOK' /\ DOMAIN replies' = 1 .. Len(replies) + 1
        /\ Len(replies) \in Nat
        /\ \A i \in 1 .. Len(replies) : replies'[i] = replies[i]
        /\ replies'[Len(replies) + 1] = [code |-> c, len |-> 0]
    <2>1. c \in Nat /\ 0 \in Nat /\ Send(c, 0) /\ UNCHANGED <<conns, arrived>>
      BY <1>2, <1>1
    <2>2. seq_id' \in SeqIds \cup {None}
      BY <1>1
    <2>3. QED
      BY <1>1, <2>1, <2>2, SendFacts
  <1>4. ASSUME NEW n, n = Len(replies) + 1
        PROVE  ReplyIsRight(n)'
    <2>1. conns'[n] = Current /\ replies'[n].code = c
      BY <1>1, <1>3, <1>4 DEF Current
    <2>2. QED
      BY <1>1, <1>2, <2>1 DEF ReplyIsRight, Valid
  <1>5. RepliesAreRight'
    <2>1. RepliesAreRight /\ DOMAIN replies = 1 .. Len(replies)
      BY DEF SInv, ServerTypeOK
    <2>2. UNCHANGED conns
      BY <1>1
    <2>3. QED
      BY <1>3, <1>4, <2>1, <2>2, OneReply
  <1>6. /\ IInv' /\ FinishedFit' /\ Members' = Members
        /\ UNCHANGED <<pc, todo, owned, requests>>
    BY <1>1, SchedulerKept DEF SInv
  <1>7. Serving' /\ Alone' /\ Resting' /\ NothingLeft'
    BY <1>1, <1>6 DEF SInv, Serving, Alone, Resting, NothingLeft
  <1>8. QED
    BY <1>3, <1>5, <1>6, <1>7 DEF SInv

\* The scheduler is empty when do_POST submits its request.
LEMMA SubmitStep ==
    ASSUME SInv, Submit
    PROVE  SInv'
  <1> DEFINE n == next_seq_id
  <1>1. /\ seq_id = None /\ Len(replies) < Len(conns) /\ Valid(Current)
        /\ AddRequest(Current.p, Current.m)
        /\ seq_id' = n /\ UNCHANGED <<conns, arrived, replies>>
        /\ ServerTypeOK /\ TypeOK
    BY ReadFacts DEF Submit, SInv, IInv
  <1>2. Current.p \in PromptLens /\ Current.m \in MaxNews
    BY <1>1, CurrentFacts, ValidFacts
  <1>3. Next
    BY <1>1, <1>2 DEF Next
  <1>4. IInv' /\ FinishedFit'
    BY <1>3, IInvStep, FitStep DEF SInv
  <1>5. /\ n \in SeqIds
        /\ prompt_len' = [prompt_len EXCEPT ![n] = Current.p]
        /\ max_new_tokens' = [max_new_tokens EXCEPT ![n] = Current.m]
        /\ waiting' = Append(waiting, n)
        /\ pc = "idle"
        /\ UNCHANGED <<owned, running, todo, still_waiting, pc>>
        /\ prompt_len \in [SeqIds -> Nat] /\ max_new_tokens \in [SeqIds -> Nat]
        /\ waiting \in Seq(SeqIds)
    <2>1. TypeOK /\ next_seq_id < MaxRequests /\ next_seq_id \in Nat
      <3>1. next_seq_id < MaxRequests
        BY <1>1 DEF AddRequest
      <3>2. next_seq_id \in 0 .. MaxRequests
        BY <1>1 DEF TypeOK
      <3>3. QED
        BY <1>1, <3>1, <3>2, MaxRequestsAssumption
    <2>2. n \in SeqIds
      BY <2>1, MaxRequestsAssumption DEF SeqIds
    <2>3. /\ prompt_len \in [SeqIds -> Nat] /\ max_new_tokens \in [SeqIds -> Nat]
          /\ waiting \in Seq(SeqIds)
      BY <2>1 DEF TypeOK
    <2>4. QED
      BY <1>1, <2>2, <2>3 DEF AddRequest, poolVars, control
  <1>6. ServerTypeOK'
    BY <1>1, <1>5 DEF ServerTypeOK
  <1>7. Serving'
    <2>1. Current' = Current
      BY <1>1 DEF Current
    <2>2. prompt_len'[n] = Current.p /\ max_new_tokens'[n] = Current.m
      BY <1>5
    <2>3. QED
      BY <1>1, <2>1, <2>2 DEF Serving, Valid
  <1>8. Members \subseteq {seq_id}
    BY DEF SInv, Alone
  <1>9. Members = {}
    <2>1. ASSUME NEW x \in Members
          PROVE  x \in SeqIds
      <3>1. ASSUME NEW l \in Seq(SeqIds), x \in ToSet(l)
            PROVE  x \in SeqIds
        BY <3>1, InList
      <3>2. QED
        BY <1>1, <3>1 DEF TypeOK, Members
    <2>2. None \notin SeqIds
      BY MaxRequestsAssumption DEF SeqIds, None
    <2>3. QED
      BY <1>1, <1>8, <2>1, <2>2
  <1>10. Alone'
    <2>1. \A x : x \in ToSet(Append(waiting, n)) <=> x \in ToSet(waiting) \/ x = n
      BY <1>5, InAppend
    <2>2. QED
      BY <1>1, <1>5, <1>9, <2>1 DEF Alone, Members
  <1>11. Resting'
    BY <1>5 DEF SInv, Resting
  <1>12. NothingLeft'
    BY <1>1, <1>5, MaxRequestsAssumption DEF SInv, NothingLeft, None, SeqIds
  <1>13. RepliesAreRight'
    BY <1>1, NoReply DEF SInv
  <1>14. QED
    BY <1>4, <1>6, <1>7, <1>10, <1>11, <1>12, <1>13 DEF SInv

\* A call of step() is for the handler's request.
LEMMA LoopStep ==
    ASSUME SInv, Loop
    PROVE  SInv'
  <1>1. /\ Step /\ seq_id # None /\ UNCHANGED <<conns, arrived, replies, seq_id>>
        /\ TypeOK /\ StatusMatchesPlace /\ OldestFirst /\ RetryAsks
    BY DEF Loop, serverVars, SInv, IInv, TodoIsRunning, RetryAsks
  <1>2. IInv' /\ FinishedFit'
    BY <1>1, IInvStep, FitStep DEF SInv, Next
  <1>3. UNCHANGED requests /\ (pc' = "idle" => todo' = <<>>)
    BY <1>1, StepRests
  <1>4. Members' \subseteq Members
    BY <1>1, MembersStep
  <1>5. ServerTypeOK' /\ Serving'
    BY <1>1, <1>3 DEF SInv, ServerTypeOK, Serving, Current, Valid, requests
  <1>6. Alone' /\ Resting'
    BY <1>1, <1>3, <1>4 DEF SInv, Alone, Resting
  <1>7. NothingLeft'
    <2>1. ASSUME NEW s \in SeqIds \ {seq_id}
          PROVE  owned'[s] = <<>>
      <3>1. s \notin Members
        BY DEF SInv, Alone
      <3>2. owned'[s] = owned[s]
        BY <1>1, <3>1, OwnedStep
      <3>3. QED
        BY <3>2 DEF SInv, NothingLeft
    <2>2. QED
      BY <1>1, <2>1 DEF NothingLeft
  <1>8. RepliesAreRight'
    BY <1>1, NoReply DEF SInv
  <1>9. QED
    BY <1>2, <1>5, <1>6, <1>7, <1>8 DEF SInv

\* A request that has a result is in none of the lists, owns nothing, and has
\* all of its tokens.
LEMMA ResultFacts ==
    ASSUME IInv, FinishedFit, Resting, Alone, NothingLeft, ServerTypeOK,
           seq_id # None, pc = "idle", get_result(seq_id) # None
    PROVE  /\ Members = {}
           /\ \A s \in SeqIds : owned[s] = <<>>
           /\ get_result(seq_id) = prompt_len[seq_id] + Target(seq_id)
           /\ BlocksAtEnd(seq_id) <= TotalBlocks
  <1> DEFINE s == seq_id
  <1>1. s \in SeqIds
    BY DEF ServerTypeOK
  <1>2. status[s] = "finished" /\ finished[s] = prompt_len[s] + Target(s)
    BY <1>1 DEF IInv, FinishedLength, get_result
  <1>3. Members = {}
    <2>1. todo = <<>> /\ still_waiting = <<>>
      BY DEF Resting, IInv, Control
    <2>2. s \notin ToSet(running)
      BY <1>1, <1>2 DEF IInv, StatusMatchesPlace, RunningPlace
    <2>3. s \notin ToSet(waiting)
      BY <1>1, <1>2 DEF IInv, StatusMatchesPlace, WaitingPlace, Unadmitted
    <2>4. QED
      BY <2>1, <2>2, <2>3 DEF Alone, Members, ToSet
  <1>4. owned[s] = <<>>
    <2>1. Len(owned[s]) <= 0
      BY <1>1, <1>2 DEF IInv, LeakBounded
    <2>2. owned[s] \in Seq(Blocks)
      BY <1>1 DEF IInv, TypeOK, PoolTypeOK
    <2>3. QED
      BY <2>1, <2>2, EmptySeq
  <1>5. QED
    BY <1>1, <1>2, <1>3, <1>4 DEF NothingLeft, FinishedFit, get_result

LEMMA ReplyStep ==
    ASSUME SInv, Reply
    PROVE  SInv' /\ Fits(Current)
  <1> DEFINE s == seq_id
  <1>1. /\ s # None /\ pc = "idle" /\ get_result(s) # None
        /\ Send(200, get_result(s)) /\ seq_id' = None
        /\ UNCHANGED <<vars, conns, arrived>>
        /\ ServerTypeOK /\ s \in SeqIds
        /\ IInv /\ FinishedFit
    BY DEF Reply, SInv, ServerTypeOK
  <1>2. /\ Members = {} /\ \A t \in SeqIds : owned[t] = <<>>
        /\ get_result(s) = prompt_len[s] + Target(s)
        /\ BlocksAtEnd(s) <= TotalBlocks
    BY <1>1, ResultFacts DEF SInv
  <1>3. /\ Len(replies) < Len(conns) /\ Valid(Current)
        /\ prompt_len[s] = Current.p /\ max_new_tokens[s] = Current.m
    BY <1>1 DEF SInv, Serving
  <1>4. Current.p \in Nat /\ Current.m \in Nat \ {0}
    BY <1>1, <1>3, CurrentFacts, ValidFacts
  <1>5. Target(s) = Current.m
    BY <1>3, <1>4 DEF Target
  <1>6. Fits(Current) /\ get_result(s) = Current.p + Current.m
    BY <1>2, <1>3, <1>5 DEF Fits, BlocksAtEnd
  <1>7. get_result(s) \in Nat
    BY <1>4, <1>6
  <1>8. /\ ServerTypeOK' /\ DOMAIN replies' = 1 .. Len(replies) + 1
        /\ Len(replies) \in Nat
        /\ \A i \in 1 .. Len(replies) : replies'[i] = replies[i]
        /\ replies'[Len(replies) + 1] = [code |-> 200, len |-> get_result(s)]
    BY <1>1, <1>3, <1>7, SendFacts
  <1>9. ASSUME NEW n, n = Len(replies) + 1
        PROVE  ReplyIsRight(n)'
    <2>1. conns'[n] = Current /\ replies'[n] = [code |-> 200, len |-> Current.p + Current.m]
      BY <1>1, <1>6, <1>8, <1>9 DEF Current
    <2>2. QED
      BY <1>3, <1>6, <2>1 DEF ReplyIsRight, Valid, Fits
  <1>10. RepliesAreRight'
    BY <1>1, <1>8, <1>9, OneReply DEF SInv, ServerTypeOK
  <1>11. /\ IInv' /\ FinishedFit' /\ Members' = Members
         /\ UNCHANGED <<pc, todo, owned, requests>>
    BY <1>1, SchedulerKept
  <1>12. Serving' /\ Alone' /\ Resting' /\ NothingLeft'
    BY <1>1, <1>2, <1>11 DEF SInv, Serving, Alone, Resting, NothingLeft
  <1>13. QED
    BY <1>6, <1>8, <1>10, <1>11, <1>12 DEF SInv

LEMMA InitSInv == ServerInit => SInv
  <1> SUFFICES ASSUME ServerInit
               PROVE  SInv
    OBVIOUS
  <1>1. Init /\ conns = <<>> /\ arrived = {} /\ replies = <<>> /\ seq_id = None
    BY DEF ServerInit
  <1>2. IInv
    BY <1>1, InitIInv
  <1>3. ServerTypeOK /\ RepliesAreRight /\ Serving
    <2>1. DOMAIN replies = {} /\ Len(replies) = 0 /\ Len(conns) = 0
      BY <1>1
    <2>2. conns \in Seq(Requests) /\ replies \in Seq([code : Nat, len : Nat])
      BY <1>1, EmptySeq
    <2>3. QED
      BY <1>1, <2>1, <2>2 DEF ServerTypeOK, RepliesAreRight, Serving
  <1>4. Alone /\ Resting /\ NothingLeft /\ FinishedFit
    BY <1>1 DEF Init, PoolInit, Alone, Members, ToSet, Resting, NothingLeft, FinishedFit
  <1>5. QED
    BY <1>2, <1>3, <1>4 DEF SInv

LEMMA SInvStep == SInv /\ [ServerNext]_<<vars, serverVars>> => SInv'
  <1> SUFFICES ASSUME SInv, [ServerNext]_<<vars, serverVars>>
               PROVE  SInv'
    OBVIOUS
  <1>1. CASE UNCHANGED <<vars, serverVars>>
    <2>1. /\ IInv' /\ FinishedFit' /\ Members' = Members
          /\ UNCHANGED <<pc, todo, owned, requests>>
      BY <1>1, SchedulerKept DEF SInv
    <2>2. UNCHANGED <<conns, arrived, replies, seq_id>>
      BY <1>1 DEF serverVars
    <2>3. RepliesAreRight'
      BY <2>2, NoReply DEF SInv
    <2>4. QED
      BY <2>1, <2>2, <2>3
         DEF SInv, ServerTypeOK, Serving, Current, Valid, Alone, Resting, NothingLeft, requests
  <1>2. QED
    BY <1>1, ConnectStep, ArriveStep, AnswerStep, SubmitStep, LoopStep, ReplyStep
       DEF ServerNext, Serve

-----------------------------------------------------------------------------
(* The theorems about ServerSpec *)

\* The inductive invariant of the server, for every pool, and all clients.
THEOREM ServerInvariantHolds == ServerSpec => []SInv
  BY InitSInv, SInvStep, PTL DEF ServerSpec

\* The scheduler never has more than one request, and it is the one that the
\* handler of the moment waits for.
THEOREM ServesOneAtATime == ServerSpec => []OneAtATime
  <1>1. SInv => OneAtATime
    BY DEF SInv, Alone, Members, OneAtATime
  <1>2. QED
    BY <1>1, ServerInvariantHolds, PTL

\* Between two requests every block of the pool is free.
THEOREM PoolWholeBetweenRequests == ServerSpec => []PoolIsWhole
  <1>1. SInv => PoolIsWhole
    <2> SUFFICES ASSUME SInv, seq_id = None
                 PROVE  Len(free) = TotalBlocks
      BY DEF PoolIsWhole
    <2>1. PoolTypeOK /\ Partitioned
      BY DEF SInv, IInv, TypeOK, Partitioned
    <2>2. \A s \in SeqIds : owned[s] = <<>>
      BY MaxRequestsAssumption DEF SInv, NothingLeft, None, SeqIds
    <2>3. QED
      BY <2>1, <2>2, WholePool
  <1>2. QED
    BY <1>1, ServerInvariantHolds, PTL

\* Each client is sent the prompt and all the tokens it asked for, or the
\* refusal it has earned; nobody whose request outgrows the pool gets a reply.
THEOREM RepliesAlwaysRight == ServerSpec => []RepliesAreRight
  <1>1. SInv => RepliesAreRight
    BY DEF SInv
  <1>2. QED
    BY <1>1, ServerInvariantHolds, PTL

\* The handler of a request that does not fit never gets to its reply.
THEOREM OversizedBlocksTheServer == ServerSpec => StuckForGood
  <1>1. SInv /\ [ServerNext]_<<vars, serverVars>> =>
            [seq_id # None /\ ~ Fits(Current) => UNCHANGED <<replies, seq_id>>]_<<vars, serverVars>>
    <2> SUFFICES ASSUME SInv, ServerNext, seq_id # None, ~ Fits(Current)
                 PROVE  UNCHANGED <<replies, seq_id>>
      OBVIOUS
    <2>1. ~ Reply
      BY ReplyStep
    <2>2. QED
      BY <2>1 DEF ServerNext, Serve, AnswerAtOnce, Submit, HasRead, Loop, Connect, Arrive, serverVars
  <1>2. QED
    BY <1>1, ServerInvariantHolds, PTL DEF ServerSpec, StuckForGood

\* The server is one of the scheduler's callers: whatever the clients send, it
\* calls add_request and step() as Spec lets them be called, so that all that
\* is proved about Spec holds of the scheduler inside the server.
THEOREM ServerCallsTheScheduler == ServerSpec => Spec
  <1>1. ServerInit => Init
    BY DEF ServerInit
  <1>2. SInv /\ [ServerNext]_<<vars, serverVars>> => [Next]_vars
    <2> SUFFICES ASSUME SInv, [ServerNext]_<<vars, serverVars>>
                 PROVE  [Next]_vars
      OBVIOUS
    <2>1. CASE Submit
      <3>1. Valid(Current) /\ AddRequest(Current.p, Current.m) /\ Len(replies) < Len(conns)
        BY <2>1, ReadFacts DEF Submit, SInv
      <3>2. Current.p \in PromptLens /\ Current.m \in MaxNews
        BY <3>1, CurrentFacts, ValidFacts DEF SInv
      <3>3. QED
        BY <3>1, <3>2 DEF Next
    <2>2. CASE Loop
      BY <2>2 DEF Loop, Next
    <2>3. CASE UNCHANGED vars
      BY <2>3
    <2>4. QED
      BY <2>1, <2>2, <2>3 DEF ServerNext, Serve, AnswerAtOnce, Reply, Connect, Arrive
  <1>3. QED
    BY <1>1, <1>2, ServerInvariantHolds, PTL DEF ServerSpec, Spec

-----------------------------------------------------------------------------
(* When the scheduler or the handler raises *)

\* A handler waits for a request that no exception has touched: when step()
\* raises, the handler that called it is gone.
HandlerUndamaged == seq_id # None => seq_id \notin damaged

\* What the theorems about ServerFaultSpec are derived from.
FSInv ==
    /\ FInv /\ Outputs
    /\ ServerTypeOK /\ Serving
    /\ HandlerUndamaged
    /\ RepliedRight

\* What RepliedRight says of connection i.
Replied(i) == replies[i].code # Closed => ReplyIsRight(i)

LEMMA InitFSInv == ServerFaultInit => FSInv
  <1> SUFFICES ASSUME ServerFaultInit
               PROVE  FSInv
    OBVIOUS
  <1>1. /\ Init /\ FaultInit
        /\ conns = <<>> /\ arrived = {} /\ replies = <<>> /\ seq_id = None
        /\ unusable = {} /\ damaged = {}
    BY DEF ServerFaultInit, ServerInit, FaultInit
  <1>2. FInv
    BY <1>1, InitFInv
  <1>3. Outputs
    <2>1. \A s \in SeqIds : finished[s] = None
      BY <1>1 DEF Init
    <2>2. ToSet(running) = {}
      BY <1>1 DEF Init, ToSet
    <2>3. QED
      BY <1>1, <2>1, <2>2 DEF Outputs, OnlyArrived, UndamagedProgress, UndamagedOutputs
  <1>4. ServerTypeOK /\ Serving /\ HandlerUndamaged /\ RepliedRight
    <2>1. DOMAIN replies = {} /\ Len(replies) = 0 /\ Len(conns) = 0
      BY <1>1
    <2>2. conns \in Seq(Requests) /\ replies \in Seq([code : Nat, len : Nat])
      BY <1>1, EmptySeq
    <2>3. QED
      BY <1>1, <2>1, <2>2 DEF ServerTypeOK, Serving, HandlerUndamaged, RepliedRight
  <1>5. QED
    BY <1>2, <1>3, <1>4 DEF FSInv

\* Nobody is sent anything, and what has been sent stays right.
LEMMA NoneReplied ==
    ASSUME RepliedRight, UNCHANGED replies,
           \A i \in DOMAIN replies : conns'[i] = conns[i]
    PROVE  RepliedRight'
  <1>1. ASSUME NEW i \in DOMAIN replies
        PROVE  Replied(i)'
    BY <1>1, OldRepliesRight DEF RepliedRight, Replied
  <1>2. QED
    BY <1>1 DEF RepliedRight, Replied

\* One more reply is sent, or a connection is closed.
LEMMA OneReplied ==
    ASSUME RepliedRight, ServerTypeOK, Len(replies) < Len(conns),
           NEW c \in Nat, NEW l \in Nat, Send(c, l), UNCHANGED <<conns, arrived>>,
           seq_id' \in SeqIds \cup {None},
           c = Closed \/ /\ Valid(Current) => /\ Fits(Current)
                                              /\ c = 200 /\ l = Current.p + Current.m
                         /\ ~ Valid(Current) => (c = 200 <=> Current.kind = "health")
    PROVE  RepliedRight' /\ ServerTypeOK'
  <1> DEFINE n == Len(replies) + 1
  <1>1. /\ ServerTypeOK' /\ DOMAIN replies' = 1 .. n
        /\ Len(replies) \in Nat /\ DOMAIN replies = 1 .. Len(replies)
        /\ \A i \in 1 .. Len(replies) : replies'[i] = replies[i]
        /\ replies'[n] = [code |-> c, len |-> l]
    BY SendFacts DEF ServerTypeOK
  <1>2. ASSUME NEW i \in 1 .. Len(replies)
        PROVE  Replied(i)'
    BY <1>1, <1>2, OldRepliesRight DEF RepliedRight, Replied
  <1>3. ASSUME NEW i, i = n
        PROVE  Replied(i)'
    <2>1. conns'[i] = Current /\ replies'[i] = [code |-> c, len |-> l]
      BY <1>1, <1>3 DEF Current
    <2>2. QED
      BY <2>1 DEF Replied, ReplyIsRight, Valid, Fits
  <1>4. \A i \in DOMAIN replies' : i \in 1 .. Len(replies) \/ i = n
    BY <1>1
  <1>5. QED
    BY <1>1, <1>2, <1>3, <1>4 DEF RepliedRight, Replied

\* Nothing of the scheduler changes: what FSInv says of it stays.
LEMMA FSKept ==
    ASSUME FInv, Outputs, UNCHANGED allVars
    PROVE  /\ FInv' /\ Outputs'
           /\ UNCHANGED <<requests, damaged>>
  BY FInvStep, OutputsStep DEF allVars, vars, faultVars

LEMMA FSConnect ==
    ASSUME FSInv, NEW r \in Requests, Connect(r), UNCHANGED faultVars
    PROVE  FSInv'
  <1>1. /\ ServerTypeOK' /\ UNCHANGED <<vars, replies, seq_id>>
        /\ \A i \in DOMAIN replies : conns'[i] = conns[i]
        /\ Len(replies) < Len(conns) => Current' = Current /\ Len(replies') < Len(conns')
    BY ConnectFacts DEF FSInv
  <1>2. FInv' /\ Outputs' /\ UNCHANGED <<requests, damaged>>
    BY <1>1, FSKept DEF FSInv, allVars
  <1>3. Serving' /\ HandlerUndamaged'
    BY <1>1, <1>2 DEF FSInv, Serving, Valid, requests, HandlerUndamaged
  <1>4. RepliedRight'
    BY <1>1, NoneReplied DEF FSInv
  <1>5. QED
    BY <1>1, <1>2, <1>3, <1>4 DEF FSInv

LEMMA FSArrive ==
    ASSUME FSInv, NEW i \in DOMAIN conns, Arrive(i), UNCHANGED faultVars
    PROVE  FSInv'
  <1>1. ServerTypeOK' /\ UNCHANGED <<vars, conns, replies, seq_id>>
    BY ArriveFacts DEF FSInv
  <1>2. FInv' /\ Outputs' /\ UNCHANGED <<requests, damaged>>
    BY <1>1, FSKept DEF FSInv, allVars
  <1>3. Serving' /\ HandlerUndamaged'
    BY <1>1, <1>2 DEF FSInv, Serving, Current, Valid, requests, HandlerUndamaged
  <1>4. RepliedRight'
    BY <1>1, NoneReplied DEF FSInv
  <1>5. QED
    BY <1>1, <1>2, <1>3, <1>4 DEF FSInv

LEMMA FSAnswer ==
    ASSUME FSInv, (AnswerAtOnce /\ UNCHANGED faultVars) \/ HandlerRaises
    PROVE  FSInv'
  <1>1. /\ seq_id = None /\ Len(replies) < Len(conns)
        /\ UNCHANGED <<allVars, conns, arrived, seq_id>>
        /\ ServerTypeOK /\ RepliedRight
    BY ReadFacts DEF AnswerAtOnce, HandlerRaises, FSInv, allVars
  <1>2. RepliedRight' /\ ServerTypeOK'
    <2>1. CASE AnswerAtOnce
      <3>1. PICK c \in {200, 400, 404} : Send(c, 0) /\ (c = 200 <=> Current.kind = "health")
        BY <1>1, <2>1, RefusalIsRight
      <3>2. ~ Valid(Current)
        BY <2>1 DEF AnswerAtOnce
      <3>3. QED
        BY <1>1, <3>1, <3>2, OneReplied
    <2>2. CASE HandlerRaises
      BY <1>1, <2>2, OneReplied DEF HandlerRaises, Closed
    <2>3. QED
      BY <2>1, <2>2
  <1>3. FInv' /\ Outputs'
    BY <1>1, FSKept DEF FSInv
  <1>4. QED
    BY <1>1, <1>2, <1>3 DEF FSInv, Serving, HandlerUndamaged

\* The request that a handler submits is new: nothing has damaged it.
LEMMA FSSubmit ==
    ASSUME FSInv, FaultSubmit
    PROVE  FSInv'
  <1> DEFINE n == next_seq_id
  <1>1. /\ seq_id = None /\ Len(replies) < Len(conns) /\ Valid(Current)
        /\ AddRequest(Current.p, Current.m)
        /\ seq_id' = n /\ UNCHANGED <<conns, arrived, replies, damaged>>
        /\ FaultAddRequest(Current.p, Current.m)
        /\ ServerTypeOK /\ TypeOK
    BY ReadFacts DEF FaultSubmit, FaultAddRequest, Submit, FSInv, FInv, FaultTypeOK
  <1>2. Current.p \in PromptLens /\ Current.m \in MaxNews
    BY <1>1, CurrentFacts, ValidFacts
  <1>3. FInv' /\ Outputs'
    BY <1>1, <1>2, FInvStep, OutputsStep DEF FSInv, FaultNext
  <1>4. /\ n \in SeqIds /\ n >= n
        /\ prompt_len' = [prompt_len EXCEPT ![n] = Current.p]
        /\ max_new_tokens' = [max_new_tokens EXCEPT ![n] = Current.m]
        /\ prompt_len \in [SeqIds -> Nat] /\ max_new_tokens \in [SeqIds -> Nat]
    <2>1. TypeOK /\ next_seq_id < MaxRequests /\ next_seq_id \in Nat
      <3>1. next_seq_id < MaxRequests
        BY <1>1 DEF AddRequest
      <3>2. next_seq_id \in 0 .. MaxRequests
        BY <1>1 DEF TypeOK
      <3>3. QED
        BY <1>1, <3>1, <3>2, MaxRequestsAssumption
    <2>2. n \in SeqIds /\ n >= n
      BY <2>1, MaxRequestsAssumption DEF SeqIds
    <2>3. prompt_len \in [SeqIds -> Nat] /\ max_new_tokens \in [SeqIds -> Nat]
      BY <2>1 DEF TypeOK
    <2>4. QED
      BY <1>1, <2>2, <2>3 DEF AddRequest
  <1>5. ServerTypeOK'
    BY <1>1, <1>4 DEF ServerTypeOK
  <1>6. Serving'
    <2>1. Current' = Current
      BY <1>1 DEF Current
    <2>2. prompt_len'[n] = Current.p /\ max_new_tokens'[n] = Current.m
      BY <1>4
    <2>3. QED
      BY <1>1, <2>1, <2>2 DEF Serving, Valid
  <1>7. HandlerUndamaged'
    <2>1. status[n] = "none"
      BY <1>4 DEF FSInv, FInv, Arrived, ArrivedPlace
    <2>2. n \notin damaged
      BY <1>4, <2>1 DEF FSInv, Outputs, OnlyArrived
    <2>3. QED
      BY <1>1, <2>2 DEF HandlerUndamaged
  <1>8. RepliedRight'
    BY <1>1, NoneReplied DEF FSInv
  <1>9. QED
    BY <1>3, <1>5, <1>6, <1>7, <1>8 DEF FSInv

LEMMA FSLoop ==
    ASSUME FSInv, FaultLoop
    PROVE  FSInv'
  <1>1. /\ Undisturbed /\ UNCHANGED <<conns, arrived, replies, seq_id, damaged>>
        /\ UNCHANGED requests
    BY StepRests DEF FaultLoop, Undisturbed, Step, faultVars, serverVars
  <1>2. FInv' /\ Outputs'
    BY <1>1, FInvStep, OutputsStep DEF FSInv, FaultNext
  <1>3. RepliedRight'
    BY <1>1, NoneReplied DEF FSInv
  <1>4. QED
    BY <1>1, <1>2, <1>3 DEF FSInv, ServerTypeOK, Serving, Current, Valid, requests,
                            HandlerUndamaged

\* An exception ends the handler that called step(), whoever it damages.
LEMMA FSRaises ==
    ASSUME FSInv, StepRaises
    PROVE  FSInv'
  <1>1. /\ Raises /\ Send(Closed, 0) /\ seq_id' = None /\ UNCHANGED <<conns, arrived>>
        /\ seq_id # None /\ ServerTypeOK /\ RepliedRight
        /\ Len(replies) < Len(conns)
    BY DEF StepRaises, FSInv, Serving
  <1>2. FInv' /\ Outputs'
    BY <1>1, FInvStep, OutputsStep DEF FSInv, FaultNext
  <1>3. RepliedRight' /\ ServerTypeOK'
    BY <1>1, OneReplied DEF Closed
  <1>4. QED
    BY <1>1, <1>2, <1>3 DEF FSInv, Serving, HandlerUndamaged

\* What a handler finds when the loop of step() ends.
LEMMA FSResult ==
    ASSUME FSInv, Reply
    PROVE  /\ seq_id \notin damaged \cup unusable
           /\ Len(replies) < Len(conns) /\ Valid(Current) /\ Fits(Current)
           /\ get_result(seq_id) = Current.p + Current.m
           /\ get_result(seq_id) \in Nat
  <1> DEFINE s == seq_id
  <1>1. /\ s # None /\ get_result(s) # None
        /\ ServerTypeOK /\ s \in SeqIds /\ s \notin damaged
    BY DEF Reply, FSInv, ServerTypeOK, HandlerUndamaged
  <1>2. /\ get_result(s) = prompt_len[s] + Target(s)
        /\ HasRoom(get_result(s))
        /\ s \notin unusable
    BY <1>1 DEF FSInv, Outputs, UndamagedOutputs, get_result
  <1>3. /\ Len(replies) < Len(conns) /\ Valid(Current)
        /\ prompt_len[s] = Current.p /\ max_new_tokens[s] = Current.m
    BY <1>1 DEF FSInv, Serving
  <1>4. Current.p \in Nat /\ Current.m \in Nat \ {0}
    BY <1>1, <1>3, CurrentFacts, ValidFacts
  <1>5. Target(s) = Current.m
    BY <1>3, <1>4 DEF Target
  <1>6. Fits(Current) /\ get_result(s) = Current.p + Current.m
    BY <1>2, <1>3, <1>5 DEF Fits, HasRoom
  <1>7. QED
    BY <1>1, <1>2, <1>3, <1>4, <1>6

LEMMA FSReply ==
    ASSUME FSInv, Reply, UNCHANGED faultVars
    PROVE  FSInv'
  <1>1. /\ Send(200, get_result(seq_id)) /\ seq_id' = None
        /\ UNCHANGED <<allVars, conns, arrived>>
        /\ ServerTypeOK /\ RepliedRight
    BY DEF Reply, FSInv, allVars
  <1>2. RepliedRight' /\ ServerTypeOK'
    BY <1>1, FSResult, OneReplied
  <1>3. FInv' /\ Outputs'
    BY <1>1, FSKept DEF FSInv
  <1>4. QED
    BY <1>1, <1>2, <1>3 DEF FSInv, Serving, HandlerUndamaged

LEMMA FSInvStep == FSInv /\ [ServerFaultNext]_allServerVars => FSInv'
  <1> SUFFICES ASSUME FSInv, [ServerFaultNext]_allServerVars
               PROVE  FSInv'
    OBVIOUS
  <1>1. CASE UNCHANGED allServerVars
    <2>1. UNCHANGED <<allVars, conns, arrived, replies, seq_id>>
      BY <1>1 DEF allServerVars, serverVars
    <2>2. FInv' /\ Outputs' /\ UNCHANGED <<requests, damaged>>
      BY <2>1, FSKept DEF FSInv
    <2>3. RepliedRight'
      BY <2>1, NoneReplied DEF FSInv
    <2>4. QED
      BY <2>1, <2>2, <2>3 DEF FSInv, ServerTypeOK, Serving, Current, Valid, requests,
                              HandlerUndamaged
  <1>2. QED
    BY <1>1, FSConnect, FSArrive, FSAnswer, FSSubmit, FSLoop, FSRaises, FSReply
       DEF ServerFaultNext, ServeFaulty

-----------------------------------------------------------------------------
(* The theorems about ServerFaultSpec *)

\* The inductive invariant of the server, whatever raises and however often.
THEOREM FaultyServerInvariantHolds == ServerFaultSpec => []FSInv
  BY InitFSInv, FSInvStep, PTL DEF ServerFaultSpec

\* A client that is sent a result at all is sent the right one.
THEOREM FaultyRepliesRight == ServerFaultSpec => []RepliedRight
  <1>1. FSInv => RepliedRight
    BY DEF FSInv
  <1>2. QED
    BY <1>1, FaultyServerInvariantHolds, PTL

\* No exception has touched the cache that a reply was computed from.
THEOREM RepliesAreUndamaged == ServerFaultSpec => RepliedUndamaged
  <1>1. FSInv /\ [ServerFaultNext]_allServerVars =>
            [Reply => seq_id \notin damaged \cup unusable]_allServerVars
    BY FSResult
  <1>2. QED
    BY <1>1, FaultyServerInvariantHolds, PTL DEF ServerFaultSpec, RepliedUndamaged

\* Also when passes raise, the server calls the scheduler as FaultSpec lets it
\* be called: what is proved about FaultSpec holds inside the server.
THEOREM FaultyServerCallsTheScheduler == ServerFaultSpec => FaultSpec
  <1>1. ServerFaultInit => FaultInit
    BY DEF ServerFaultInit, ServerInit, FaultInit
  <1>2. FSInv /\ [ServerFaultNext]_allServerVars => [FaultNext]_allVars
    <2> SUFFICES ASSUME FSInv, [ServerFaultNext]_allServerVars
                 PROVE  [FaultNext]_allVars
      OBVIOUS
    <2>1. CASE FaultSubmit
      <3>1. /\ Valid(Current) /\ Len(replies) < Len(conns)
            /\ FaultAddRequest(Current.p, Current.m)
        BY <2>1, ReadFacts DEF FaultSubmit, Submit, FaultAddRequest, FSInv
      <3>2. Current.p \in PromptLens /\ Current.m \in MaxNews
        BY <3>1, CurrentFacts, ValidFacts DEF FSInv
      <3>3. QED
        BY <3>1, <3>2 DEF FaultNext
    <2>2. CASE FaultLoop \/ StepRaises
      BY <2>2 DEF FaultLoop, StepRaises, FaultNext
    <2>3. CASE UNCHANGED allVars
      BY <2>3
    <2>4. QED
      BY <2>1, <2>2, <2>3
         DEF ServerFaultNext, ServeFaulty, AnswerAtOnce, HandlerRaises, Reply, Connect, Arrive,
             allVars, allServerVars
  <1>3. QED
    BY <1>1, <1>2, FaultyServerInvariantHolds, PTL DEF ServerFaultSpec, FaultSpec

=============================================================================
