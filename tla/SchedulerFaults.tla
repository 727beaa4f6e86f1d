--------------------------- MODULE SchedulerFaults ---------------------------
(***************************************************************************)
(* The scheduler when the forward pass can raise, scheduler/scheduler.py.  *)
(*                                                                         *)
(* step() catches nothing: an exception leaves it in the middle of a loop, *)
(* with the locals of the call gone and the fields as they are.  Callers   *)
(* that survive it (HTTPServer does, one handler later) call step() again  *)
(* on what is left.  A pass raises for a token id that the embedding does  *)
(* not have, for want of memory, or because the sequence's own cache is    *)
(* full, which the scheduler excludes only as long as nothing has raised.  *)
(*                                                                         *)
(* Evict needs a running request, as max() does.  That there always is one *)
(* is checked as the absence of deadlock.                                  *)
(***************************************************************************)
EXTENDS Scheduler

CONSTANT MaxFaults      \* bound: passes that raise for want of memory

ASSUME MaxFaultsAssumption == MaxFaults \in Nat

VARIABLES
    unusable,   \* the requests whose prompt no pass can take
    faults,     \* history: passes that raised for want of memory
    damaged     \* history: the requests that an exception may have damaged

faultVars == <<unusable, faults, damaged>>
allVars == <<vars, faultVars>>

-----------------------------------------------------------------------------
(* When a pass raises *)

\* The private cache of a sequence has as many blocks as the pool.
HasRoom(tokens) == BlocksFor(tokens) <= TotalBlocks

\* A pass of s, over a cache that would then hold so many tokens, can succeed.
Possible(s, tokens) == s \notin unusable /\ HasRoom(tokens)

\* A pass raises when it must, or at any time, for want of memory.
PassRaises(s, tokens) ==
    IF Possible(s, tokens)
    THEN faults < MaxFaults /\ faults' = faults + 1
    ELSE UNCHANGED faults

\* The exception leaves step(): its locals are gone.
LeaveStep ==
    /\ pc' = "idle"
    /\ todo' = <<>>
    /\ still_waiting' = <<>>
    /\ results' = NoResults

PrefillRaisesDrop ==                       \* mutant: waiting is replaced
    LET s == Head(todo)
        n == BlocksFor(prompt_len[s])
    IN  /\ pc = "admit"
        /\ todo # <<>>
        /\ PassRaises(s, seq_len[s])
        /\ Allocate(s, n)
        /\ block_table' = [block_table EXCEPT ![s] = @ \o NewBlocks(n)]
        /\ status' = [status EXCEPT ![s] = "running"]
        /\ waiting' = still_waiting \o Tail(todo)
        /\ damaged' = damaged \cup {s}
        /\ LeaveStep
        /\ UNCHANGED <<running, cached, finished, requests, seq_len, unusable>>

\* The prefill in _admit_waiting raises.  The blocks are allocated and the
\* status is set; the new cache, and the record of what this call has admitted
\* and refused, are lost.  The waiting list still names all of them.
PrefillRaises ==
    LET s == Head(todo)
        n == BlocksFor(prompt_len[s])
    IN  /\ pc = "admit"
        /\ todo # <<>>
        /\ PassRaises(s, seq_len[s])
        /\ Allocate(s, n)
        /\ block_table' = [block_table EXCEPT ![s] = @ \o NewBlocks(n)]
        /\ status' = [status EXCEPT ![s] = "running"]
        /\ damaged' = damaged \cup {t \in ToSet(waiting) : status'[t] # "waiting"}
        /\ LeaveStep
        /\ UNCHANGED <<waiting, running, cached, finished, requests, seq_len,
                       unusable>>

\* _decode_one raises.  The first layers may have cached the token before, and
\* cached is the length of layer 0.  This sequence and those behind it have
\* been given room for a token that they did not get.
DecodeRaises ==
    LET s == Head(todo)
    IN  /\ pc = "decode"
        /\ todo # <<>>
        /\ PassRaises(s, cached[s] + 1)
        /\ \/ UNCHANGED cached
           \/ HasRoom(cached[s] + 1) /\ cached' = [cached EXCEPT ![s] = @ + 1]
        /\ damaged' = damaged \cup ToSet(todo)
        /\ LeaveStep
        /\ UNCHANGED <<poolVars, waiting, running, finished, requests,
                       seq_len, status, block_table, unusable>>

-----------------------------------------------------------------------------
(* The specification *)

\* The token ids of a request may be such that no pass can take them.
FaultAddRequest(p, m) ==
    /\ AddRequest(p, m)
    /\ unusable' \in {unusable, unusable \cup {next_seq_id}}
    /\ UNCHANGED <<faults, damaged>>

\* What happens in step() as long as nothing raises.
Undisturbed ==
    /\ \/ BeginStep
       \/ AdmitOne /\ Possible(Head(todo), seq_len[Head(todo)])
       \/ KeepWaiting \/ EndAdmit
       \/ EnsureRoom \/ Evict \/ Retry \/ EndEnsure
       \/ /\ DecodeContinues \/ DecodeFinishes
          /\ Possible(Head(todo), cached[Head(todo)] + 1)
       \/ EndStep
    /\ UNCHANGED faultVars

Raises == PrefillRaises \/ DecodeRaises

FaultInit ==
    /\ Init
    /\ unusable = {}
    /\ faults = 0
    /\ damaged = {}

FaultNext ==
    \/ Undisturbed
    \/ Raises
    \/ \E p \in PromptLens, m \in MaxNews : FaultAddRequest(p, m)

FaultSpec == FaultInit /\ [][FaultNext]_allVars

-----------------------------------------------------------------------------
(* What survives *)

\* Whatever raises, and wherever: a request that arrived and has not come to
\* its end is still in a list that step() will look at, and in no list twice.
NobodyForgotten ==
    /\ \A s \in SeqIds : status[s] \in {"waiting", "running"} =>
            s \in ToSet(waiting) \cup ToSet(running)
    /\ Increasing(waiting)
    /\ IsInjective(running)

\* An exception does damage to no more than the requests that were admitted by
\* the same call before it, or were to be decoded by it: all others that run are
\* billed for exactly what their caches hold, which is all of their tokens.
DamageContained == \A s \in ToSet(running) \ damaged :
    /\ cached[s] = seq_len[s]
    /\ Len(owned[s]) = BlocksFor(seq_len[s] + IF Provisioned(s) THEN 1 ELSE 0)

\* A token whose decode raised may be in the cache when step() decodes it again,
\* and is then there twice.  Of every request that runs, damaged or taken up a
\* second time, the cache still holds all the tokens, and no more of them twice
\* than passes have raised: nothing else doubles a token or drops one.
DoubledBounded == \A s \in ToSet(running) :
    cached[s] \in seq_len[s] .. seq_len[s] + faults

=============================================================================
