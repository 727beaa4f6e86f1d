------------------------------ MODULE Scheduler ------------------------------
(***************************************************************************)
(* The continuous-batching scheduler, scheduler/scheduler.py, over the     *)
(* block pool it owns.                                                     *)
(*                                                                         *)
(* The scheduler runs in one thread.  A call of step() is modelled as a    *)
(* chain of actions, one for each iteration of its three loops (admission, *)
(* decode capacity, decode); pc says which loop is running and todo holds  *)
(* what is left of the list the loop walks over.  Between two calls pc is  *)
(* "idle", and only then can a caller add a request.                       *)
(*                                                                         *)
(* Tokens are abstracted to how many there are.  What is kept of a         *)
(* sequence's private PagedKVCache is the number of tokens it caches.      *)
(***************************************************************************)
EXTENDS BlockPool

CONSTANTS
    PromptLens,     \* the prompt lengths that requests come with
    MaxNews         \* the max_new_tokens that requests come with

ASSUME PromptLensAssumption == PromptLens \subseteq Nat \ {0}
ASSUME MaxNewsAssumption == MaxNews \subseteq Nat

None == -1

Statuses == {"none", "waiting", "running", "finished", "evicted"}
Phases == {"idle", "admit", "ensure", "retry", "decode"}
StepResults == {"absent", "none", "token"}

VARIABLES
    waiting,        \* _waiting: ids, in the order of the list
    running,        \* _running: ids, in the insertion order of the dict
    cached,         \* _caches: tokens in each sequence's cache, or None
    finished,       \* _finished: length of each recorded output, or None
    next_seq_id,    \* _next_seq_id
    prompt_len,     \* SequenceState.prompt_len
    max_new_tokens, \* SequenceState.max_new_tokens
    seq_len,        \* SequenceState.seq_len: the length of token_ids
    status,         \* SequenceState.status, "none" before the request arrives
    block_table,    \* SequenceState.block_table
    pc,             \* the loop of step() that is running, or "idle"
    todo,           \* what is left of the list that this loop walks over
    still_waiting,  \* the local still_waiting of _admit_waiting
    results         \* the local results of step

requests == <<next_seq_id, prompt_len, max_new_tokens>>
control == <<pc, todo, still_waiting>>
vars == <<free, owned, waiting, running, cached, finished, requests, seq_len,
          status, block_table, control, results>>

-----------------------------------------------------------------------------
(* Helpers *)

num_generated(s) == seq_len[s] - prompt_len[s]

IsDoneLate(s, len) == len - prompt_len[s] > max_new_tokens[s]  \* mutant: >

\* is_done, for a token list of length len.
IsDone(s, len) == len - prompt_len[s] >= max_new_tokens[s]

NoResults == [s \in SeqIds |-> "absent"]

IsVictimShortest(i) ==                     \* mutant: evicts the newest work
    \A j \in DOMAIN running :
        IF j < i THEN num_generated(running[i]) < num_generated(running[j])
                 ELSE num_generated(running[i]) <= num_generated(running[j])

\* max(self._running, key=num_generated) returns the first maximum it meets.
IsVictim(i) == \A j \in DOMAIN running :
    IF j < i THEN num_generated(running[i]) > num_generated(running[j])
             ELSE num_generated(running[i]) >= num_generated(running[j])

NextPhaseReversed(next) ==                 \* mutant: the newest first
    IF running = <<>>
    THEN pc' = "idle" /\ todo' = <<>> /\ results' = NoResults
    ELSE pc' = next /\ todo' = Reverse(running) /\ UNCHANGED results

\* A phase of step() ends: step() goes on to phase next over the running
\* requests, or returns if there are none.
NextPhase(next) ==
    IF running = <<>>
    THEN pc' = "idle" /\ todo' = <<>> /\ results' = NoResults
    ELSE pc' = next /\ todo' = running /\ UNCHANGED results

-----------------------------------------------------------------------------
(* Public methods *)

\* add_request: a prompt of p tokens, m tokens to generate.
AddRequest(p, m) ==
    LET s == next_seq_id
    IN  /\ pc = "idle"
        /\ next_seq_id < MaxRequests
        /\ next_seq_id' = next_seq_id + 1
        /\ prompt_len' = [prompt_len EXCEPT ![s] = p]
        /\ max_new_tokens' = [max_new_tokens EXCEPT ![s] = m]
        /\ seq_len' = [seq_len EXCEPT ![s] = p]
        /\ status' = [status EXCEPT ![s] = "waiting"]
        /\ waiting' = Append(waiting, s)
        /\ UNCHANGED <<poolVars, running, cached, finished, block_table,
                       control, results>>

\* step is called, and calls _admit_waiting.
BeginStep ==
    /\ pc = "idle"
    /\ pc' = "admit"
    /\ todo' = waiting
    /\ UNCHANGED <<poolVars, waiting, running, cached, finished, requests,
                   seq_len, status, block_table, still_waiting, results>>

-----------------------------------------------------------------------------
(* _admit_waiting *)

AdmitOneReuses ==                          \* mutant: into the cache it had
    LET s == Head(todo)
        n == BlocksFor(prompt_len[s])
    IN  /\ pc = "admit"
        /\ todo # <<>>
        /\ Allocate(s, n)
        /\ block_table' = [block_table EXCEPT ![s] = @ \o NewBlocks(n)]
        /\ status' = [status EXCEPT ![s] = "running"]
        /\ cached' = [cached EXCEPT ![s] = IF @ = None THEN seq_len[s]
                                                       ELSE @ + seq_len[s]]
        /\ running' = IF s \in ToSet(running) THEN running
                                              ELSE Append(running, s)
        /\ todo' = Tail(todo)
        /\ UNCHANGED <<waiting, finished, requests, seq_len, pc,
                       still_waiting, results>>

\* The next waiting request gets the blocks of its prompt, is prefilled and
\* starts to run.
AdmitOne ==
    LET s == Head(todo)
        n == BlocksFor(prompt_len[s])
    IN  /\ pc = "admit"
        /\ todo # <<>>
        /\ Allocate(s, n)
        /\ block_table' = [block_table EXCEPT ![s] = @ \o NewBlocks(n)]
        /\ status' = [status EXCEPT ![s] = "running"]
        /\ cached' = [cached EXCEPT ![s] = seq_len[s]]
        /\ running' = IF s \in ToSet(running) THEN running
                                              ELSE Append(running, s)
        /\ todo' = Tail(todo)
        /\ UNCHANGED <<waiting, finished, requests, seq_len, pc,
                       still_waiting, results>>

KeepWaitingDrop ==                         \* mutant: the request is forgotten
    /\ pc = "admit"
    /\ todo # <<>>
    /\ ~ CanAllocate(BlocksFor(prompt_len[Head(todo)]))
    /\ todo' = Tail(todo)
    /\ UNCHANGED <<poolVars, waiting, running, cached, finished, requests,
                   seq_len, status, block_table, pc, still_waiting, results>>

KeepWaitingBreak ==                        \* mutant: break, not continue
    /\ pc = "admit"
    /\ todo # <<>>
    /\ ~ CanAllocate(BlocksFor(prompt_len[Head(todo)]))
    /\ still_waiting' = still_waiting \o todo
    /\ todo' = <<>>
    /\ UNCHANGED <<poolVars, waiting, running, cached, finished, requests,
                   seq_len, status, block_table, pc, results>>

\* The pool has no room for its prompt: it keeps waiting.
KeepWaiting ==
    LET s == Head(todo)
    IN  /\ pc = "admit"
        /\ todo # <<>>
        /\ ~ CanAllocate(BlocksFor(prompt_len[s]))
        /\ still_waiting' = Append(still_waiting, s)
        /\ todo' = Tail(todo)
        /\ UNCHANGED <<poolVars, waiting, running, cached, finished, requests,
                       seq_len, status, block_table, pc, results>>

EndAdmitKeeps ==                           \* mutant: waiting is not replaced
    /\ pc = "admit"
    /\ todo = <<>>
    /\ still_waiting' = <<>>
    /\ NextPhase("ensure")
    /\ UNCHANGED <<poolVars, waiting, running, cached, finished, requests,
                   seq_len, status, block_table>>

\* _admit_waiting returns.
EndAdmit ==
    /\ pc = "admit"
    /\ todo = <<>>
    /\ waiting' = still_waiting
    /\ still_waiting' = <<>>
    /\ NextPhase("ensure")
    /\ UNCHANGED <<poolVars, running, cached, finished, requests, seq_len,
                   status, block_table>>

-----------------------------------------------------------------------------
(* _ensure_decode_capacity *)

NeededSkip(s) == 0                        \* mutant: never asks for a block

\* The blocks that sequence s needs for its next token.
Needed(s) == BlocksNeeded(seq_len[s], 1)

GrowHeadNoTable ==                         \* mutant: the table is not extended
    Allocate(Head(todo), Needed(Head(todo))) /\ UNCHANGED block_table

GrowHeadReplaces ==                        \* mutant: the record is replaced
    LET s == Head(todo)
    IN  /\ CanAllocate(Needed(s))
        /\ free' = SubSeq(free, 1, Len(free) - Needed(s))
        /\ owned' = [owned EXCEPT ![s] = NewBlocks(Needed(s))]
        /\ block_table' = [block_table EXCEPT ![s] = NewBlocks(Needed(s))]

\* The allocation asked for the sequence at the head of the list, granted.
\* The sequence need not be running any more: see Retry.
GrowHead ==
    LET s == Head(todo)
    IN  /\ Allocate(s, Needed(s))
        /\ block_table' = [block_table EXCEPT ![s] = @ \o NewBlocks(Needed(s))]

\* The next sequence has room in its tail block (its need is 0), or gets the
\* block it needs.
EnsureRoom ==
    /\ pc = "ensure"
    /\ todo # <<>>
    /\ GrowHead
    /\ todo' = Tail(todo)
    /\ UNCHANGED <<waiting, running, cached, finished, requests, seq_len,
                   status, pc, still_waiting, results>>

\* The pool is exhausted: the running sequence that has generated the most
\* tokens is evicted, even if it is the one that asked.
Evict ==
    /\ pc = "ensure"
    /\ todo # <<>>
    /\ ~ CanAllocate(Needed(Head(todo)))
    /\ \E i \in DOMAIN running :
        LET v == running[i]
        IN  /\ IsVictim(i)
            /\ running' = RemoveAt(running, i)
            /\ status' = [status EXCEPT ![v] = "evicted"]
            /\ Free(v)
            /\ cached' = [cached EXCEPT ![v] = None]
            /\ results' = [results EXCEPT ![v] = "none"]
    /\ pc' = "retry"
    /\ UNCHANGED <<waiting, finished, requests, seq_len, block_table, todo,
                   still_waiting>>

\* After an eviction the sequence that asked tries once more.  The code does
\* not look whether it is the one that was evicted.
Retry ==
    /\ pc = "retry"
    /\ IF CanAllocate(Needed(Head(todo)))
       THEN GrowHead
       ELSE UNCHANGED <<poolVars, block_table>>
    /\ todo' = Tail(todo)
    /\ pc' = "ensure"
    /\ UNCHANGED <<waiting, running, cached, finished, requests, seq_len,
                   status, still_waiting, results>>

EndEnsureReturns ==                        \* mutant: nothing is decoded
    /\ pc = "ensure"
    /\ todo = <<>>
    /\ pc' = "idle"
    /\ results' = NoResults
    /\ UNCHANGED <<poolVars, waiting, running, cached, finished, requests,
                   seq_len, status, block_table, todo, still_waiting>>

\* _ensure_decode_capacity returns.
EndEnsure ==
    /\ pc = "ensure"
    /\ todo = <<>>
    /\ NextPhase("decode")
    /\ UNCHANGED <<poolVars, waiting, running, cached, finished, requests,
                   seq_len, status, block_table, still_waiting>>

-----------------------------------------------------------------------------
(* The decode loop of step, with _decode_one and _finish *)

DecodeHeadSilent ==                        \* mutant: the token is not reported
    LET s == Head(todo)
    IN  /\ pc = "decode"
        /\ todo # <<>>
        /\ seq_len' = [seq_len EXCEPT ![s] = @ + 1]
        /\ todo' = Tail(todo)
        /\ UNCHANGED <<waiting, requests, block_table, pc, still_waiting, results>>

\* The next sequence gets a token.
DecodeHead ==
    LET s == Head(todo)
    IN  /\ pc = "decode"
        /\ todo # <<>>
        /\ seq_len' = [seq_len EXCEPT ![s] = @ + 1]
        /\ results' = [results EXCEPT ![s] = "token"]
        /\ todo' = Tail(todo)
        /\ UNCHANGED <<waiting, requests, block_table, pc, still_waiting>>

\* ... and has more to generate.
DecodeContinues ==
    LET s == Head(todo)
    IN  /\ DecodeHead
        /\ ~ IsDone(s, seq_len[s] + 1)
        /\ cached' = [cached EXCEPT ![s] = @ + 1]
        /\ UNCHANGED <<poolVars, running, finished, status>>

\* ... and is finished: its blocks are freed and its output is recorded.
DecodeFinishes ==
    LET s == Head(todo)
    IN  /\ DecodeHead
        /\ IsDone(s, seq_len[s] + 1)
        /\ status' = [status EXCEPT ![s] = "finished"]
        /\ \E i \in DOMAIN running : /\ running[i] = s
                                    /\ running' = RemoveAt(running, i)
        /\ Free(s)
        /\ cached' = [cached EXCEPT ![s] = None]
        /\ finished' = [finished EXCEPT ![s] = seq_len[s] + 1]

\* step returns.
EndStep ==
    /\ pc = "decode"
    /\ todo = <<>>
    /\ pc' = "idle"
    /\ results' = NoResults
    /\ UNCHANGED <<poolVars, waiting, running, cached, finished, requests,
                   seq_len, status, block_table, todo, still_waiting>>

-----------------------------------------------------------------------------
(* The specification *)

Init ==
    /\ PoolInit
    /\ waiting = <<>>
    /\ running = <<>>
    /\ cached = [s \in SeqIds |-> None]
    /\ finished = [s \in SeqIds |-> None]
    /\ next_seq_id = 0
    /\ prompt_len = [s \in SeqIds |-> 0]
    /\ max_new_tokens = [s \in SeqIds |-> 0]
    /\ seq_len = [s \in SeqIds |-> 0]
    /\ status = [s \in SeqIds |-> "none"]
    /\ block_table = [s \in SeqIds |-> <<>>]
    /\ pc = "idle"
    /\ todo = <<>>
    /\ still_waiting = <<>>
    /\ results = NoResults

\* What happens in a call of step().
Step ==
    \/ BeginStep
    \/ AdmitOne \/ KeepWaiting \/ EndAdmit
    \/ EnsureRoom \/ Evict \/ Retry \/ EndEnsure
    \/ DecodeContinues \/ DecodeFinishes \/ EndStep

Next == Step \/ \E p \in PromptLens, m \in MaxNews : AddRequest(p, m)

Spec == Init /\ [][Next]_vars

\* The callers (the server's handler, the tests, the benchmark) call step()
\* in a loop, and step() always returns.  Nobody has to add a request.
FairSpec == Spec /\ WF_vars(Step)

-----------------------------------------------------------------------------
(* Invariants *)

\* The shape of the state, and what the recorded numbers can be.
TypeOK ==
    /\ PoolTypeOK
    /\ waiting \in Seq(SeqIds)
    /\ running \in Seq(SeqIds)
    /\ cached \in [SeqIds -> Nat \cup {None}]
    /\ finished \in [SeqIds -> Nat \cup {None}]
    /\ next_seq_id \in 0 .. MaxRequests
    /\ prompt_len \in [SeqIds -> Nat]
    /\ max_new_tokens \in [SeqIds -> Nat]
    /\ seq_len \in [SeqIds -> Nat]
    /\ status \in [SeqIds -> Statuses]
    /\ block_table \in [SeqIds -> Seq(Blocks)]
    /\ pc \in Phases
    /\ todo \in Seq(SeqIds)
    /\ still_waiting \in Seq(SeqIds)
    /\ results \in [SeqIds -> StepResults]

\* l is a tail of m.
IsTailOf(l, m) ==
    /\ Len(l) <= Len(m)
    /\ \A i \in 1 .. Len(l) : l[i] = m[Len(m) - Len(l) + i]

Increasing(l) == \A i, j \in DOMAIN l : i < j => l[i] < l[j]

\* The ids the admission loop has before it, or behind it and refused.
Unadmitted == IF pc = "admit" THEN still_waiting \o todo ELSE waiting

\* An id is handed out once.
ArrivedPlace == \A s \in SeqIds : status[s] = "none" <=> s >= next_seq_id

WaitingPlace ==
    /\ \A s \in SeqIds : status[s] = "waiting" <=> s \in ToSet(Unadmitted)
    /\ Increasing(Unadmitted)

RunningPlace ==
    /\ \A s \in SeqIds : status[s] = "running" <=> s \in ToSet(running)
    /\ IsInjective(running)

\* A request is in the one collection that its status says, exactly once:
\* no request is lost between the two lists of _admit_waiting, none runs
\* twice, and the waiting list stays in the order of arrival.
StatusMatchesPlace == ArrivedPlace /\ WaitingPlace /\ RunningPlace

\* A sequence that has been given, in this step, the room for its next token.
Provisioned(s) ==
    \/ pc \in {"ensure", "retry"} /\ s \notin ToSet(todo)
    \/ pc = "decode" /\ s \in ToSet(todo)

\* The pool bills a running sequence for exactly the blocks that its own cache
\* fills, one token more once the step has provided for it.  The two counts are
\* kept by separate classes that share no state.
BilledExactly == \A s \in ToSet(running) :
    /\ cached[s] = seq_len[s]
    /\ Len(owned[s]) = BlocksFor(seq_len[s] + IF Provisioned(s) THEN 1 ELSE 0)

\* The room a decode writes into was allocated to the sequence first: the
\* private cache, which holds TotalBlocks blocks, never raises "block pool
\* exhausted", neither in prefill nor in decode.
CacheNeverExhausted == \A s \in ToSet(running) :
    /\ BlocksFor(cached[s]) <= TotalBlocks
    /\ pc = "decode" /\ s \in ToSet(todo) => BlocksFor(cached[s] + 1) <= TotalBlocks

\* The block table that a sequence carries is the pool's record of it, until it
\* finishes or is evicted (then the table is stale: nothing clears it).
TableIsOwned == \A s \in SeqIds :
    status[s] \notin {"finished", "evicted"} => block_table[s] = owned[s]

\* The loops over the running requests walk over a copy of the dict while
\* evictions and completions take entries out of it.  What is left of the copy
\* is always the last part of the dict, so that no loop meets an entry that was
\* taken out, and there is always a victim when one is needed.  The exception
\* is a sequence that evicted itself: it is gone, and still asks for a block.
TodoIsRunning ==
    /\ pc \in {"ensure", "decode"} => IsTailOf(todo, running)
    /\ pc = "retry" =>
        /\ todo # <<>>
        /\ \/ IsTailOf(todo, running)
           \/ /\ running = Tail(todo)
              /\ Head(todo) \notin ToSet(running)
              /\ status[Head(todo)] = "evicted"
              /\ owned[Head(todo)] = <<>>

\* The running requests are in the order of how much they have generated, and
\* in the decode loop those already decoded are strictly ahead.
OldestFirst == \A i, j \in DOMAIN running : i < j =>
    /\ num_generated(running[i]) >= num_generated(running[j])
    /\ pc = "decode" /\ i <= Len(running) - Len(todo) /\ Len(running) - Len(todo) < j
            => num_generated(running[i]) > num_generated(running[j])

\* After an eviction there is always a block for the sequence that asked: the
\* case the comment at the end of the loop provides for does not happen.
RetrySucceeds == pc = "retry" => CanAllocate(Needed(Head(todo)))

\* A request that is not running owns no block, but for the one block that a
\* sequence that evicted itself was then given.
LeakBounded == \A s \in SeqIds : status[s] # "running" =>
    Len(owned[s]) <= IF status[s] = "evicted" THEN 1 ELSE 0

\* What the admission loop has refused so far still has no room now.
AdmissionMaximal == pc = "admit" =>
    \A s \in ToSet(still_waiting) : ~ CanAllocate(BlocksFor(prompt_len[s]))

\* A request is overtaken only by those that need fewer blocks for their prompt.
OvertakenBySmaller == \A s, u \in SeqIds :
    /\ s < u
    /\ status[s] = "waiting"
    /\ status[u] \notin {"none", "waiting"}
    => BlocksFor(prompt_len[u]) < BlocksFor(prompt_len[s])

\* Admission leaves nobody waiting who fits, and prefers a later request to an
\* earlier one only where the earlier one needs more blocks: whatever has been
\* evicted, finished and refused since, requests alike are served in turn.
AdmissionFair == AdmissionMaximal /\ OvertakenBySmaller

\* How many tokens s generates: is_done is tested after a token only.
Target(s) == IF max_new_tokens[s] = 0 THEN 1 ELSE max_new_tokens[s]

\* An output is recorded for the finished requests only, and it is as long as
\* was asked: the prompt and max_new_tokens more, with at least one generated.
FinishedLength == \A s \in SeqIds :
    finished[s] = IF status[s] = "finished"
                  THEN prompt_len[s] + Target(s)
                  ELSE None

\* What step() returns: None for the sequences evicted in this step, a token
\* for those that went through the decode loop, and one token for every
\* sequence that is running when it returns.
ResultsMatchStatus == \A s \in SeqIds :
    /\ results[s] = "none" => status[s] = "evicted"
    /\ results[s] = "token" => status[s] \in {"running", "finished"}
    /\ pc = "decode" /\ status[s] = "running" =>
            (results[s] = "token" <=> s \notin ToSet(todo))

-----------------------------------------------------------------------------
(* The inductive invariant of the proofs *)

\* The local list of the admission loop is empty outside of it.
Control == pc # "admit" => still_waiting = <<>>

\* How far a request has got: what its status says of its token list.
Progress == \A s \in SeqIds :
    /\ status[s] \in {"none", "waiting"} => seq_len[s] = prompt_len[s]
    /\ status[s] # "none" => prompt_len[s] >= 1
    /\ status[s] = "running" =>
        /\ seq_len[s] >= prompt_len[s]
        /\ seq_len[s] = prompt_len[s] \/ ~ IsDone(s, seq_len[s])
    /\ status[s] = "finished" => seq_len[s] = prompt_len[s] + Target(s)

\* Only the decode loop reports tokens.
ResultsSoFar == pc # "decode" => \A s \in SeqIds : results[s] # "token"

\* What the theorems of SchedulerProofs are derived from.
IInv ==
    /\ TypeOK
    /\ NoBlockShared /\ NoBlockLost
    /\ Control
    /\ StatusMatchesPlace
    /\ TodoIsRunning
    /\ OldestFirst
    /\ Progress
    /\ BilledExactly /\ LeakBounded /\ TableIsOwned
    /\ RetrySucceeds
    /\ AdmissionFair
    /\ FinishedLength
    /\ ResultsMatchStatus /\ ResultsSoFar

-----------------------------------------------------------------------------
(* Action properties *)

\* What the submitter of a request sees: RequestLifecycle.
LC == INSTANCE RequestLifecycle WITH
    Requests <- SeqIds, Prompts <- PromptLens, Budgets <- MaxNews,
    phase <- status, prompt <- prompt_len, budget <- max_new_tokens,
    generated <- [s \in SeqIds |-> num_generated(s)], output <- finished

\* A request is admitted once, generates one token at a time while it runs,
\* its output is recorded once, by its last token, and is never changed or
\* taken back; an evicted request is never taken up again; and what is done
\* for one request changes no other.
Lifecycle == LC!ReqSpec

\* The sequence that generated most, the one that is evicted, is always the
\* one admitted first.
VictimIsOldest ==
    [][pc = "ensure" /\ pc' = "retry" => running' = Tail(running)]_vars

-----------------------------------------------------------------------------
(* Liveness, under FairSpec *)

\* A request that is admitted is finished or evicted in the end.
RunningEnds == \A s \in SeqIds :
    status[s] = "running" ~> status[s] \in {"finished", "evicted"}

\* The blocks that s fills when it is done.
BlocksAtEnd(s) == BlocksFor(prompt_len[s] + Target(s))

\* A request that came later is admitted, and s goes on waiting.
Overtaken(s) ==
    /\ status[s] = "waiting"
    /\ \E u \in SeqIds : u > s /\ status[u] = "waiting" /\ status'[u] = "running"

\* A request that fits the pool is finished in the end, whatever else is
\* waiting or running, as long as nothing is evicted and unless requests go on
\* overtaking it for ever: _admit_waiting lets every later request by that
\* needs fewer blocks, so that an overlapping stream of small ones starves it.
\* One that is overtaken often, but not for ever, is served.
ServedUnlessStarved == \A s \in SeqIds :
    <>[][~ Overtaken(s)]_vars =>
        (status[s] = "waiting" /\ BlocksAtEnd(s) <= TotalBlocks
            ~> \/ status[s] = "finished"
               \/ \E u \in SeqIds : status[u] = "evicted")

-----------------------------------------------------------------------------
(* What the code's comments say and the code does not do *)

\* scheduler.py: evicting the longest-running sequence "keeps the scheduler
\* making progress rather than deadlocking".  Checked where every request
\* would finish if it were alone.
SomeRequestFinishes ==
    (\E s \in SeqIds : status[s] = "waiting") ~>
        (\E s \in SeqIds : status[s] = "finished")

=============================================================================
