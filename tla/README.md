# Specifications of llama-inference

TLA+ specifications, model-checking runs and machine-checked proofs for this
repository: the continuous-batching scheduler and its block pool, the KV-caches,
the cached forward pass and generation loop, and the HTTP server on top, with and
without exceptions; how a checkpoint becomes the model that they run, and the
index arithmetic of its attention.

Every safety invariant and every action property that a run checks on a small
instance is also proved, for all values of the constants; liveness is checked
only.

To run something:

    tlc -workers 2 -config MCScheduler.cfg MCScheduler
    tlapm SchedulerProofs.tla

`PROJECT.json` lists the runs, the properties with a mutation of the code that
each of them detects, the source lines that every definition stands for, the
hazards, the findings and the theorems.

## 1. The system

| Component | Source | State | Operations | What makes it correct |
|---|---|---|---|---|
| Block pool | `scheduler/block_pool.py` | free list (a stack); blocks owned by each sequence id | `allocate`, `free`, `blocks_needed` | a block is free or owned, once; none is lost; a refused allocation changes nothing |
| Scheduler | `scheduler/scheduler.py` | waiting list, running dict, one cache for each running sequence, finished outputs, next id; per sequence: token list, block table, status | `add_request`, `step` (admit, ensure capacity with eviction, decode, finish), `get_result`, `is_idle` | nobody is lost or runs twice; what the pool bills is what the caches hold; a decode always has the room it writes into; outputs have the right length; somebody makes progress |
| Naive cache | `kvcache/naive_cache.py` | one growing tensor per layer | `append`, `seq_len` | returns all tokens in order |
| Paged cache | `kvcache/paged_cache.py` | per layer: a private block pool, free list, block table, tail offset, length | `append` (allocate, write, gather), `seq_len`, `memory_bytes` | returns what the naive cache would; an append raises only when full; layers in lockstep until a pass raises between two of them |
| Forward pass, `generate()` | `model/model.py`, `decoder.py`, `attention.py`, `rope.py` | the cache; `all_ids` | `forward`, `forward_with_cache`, `generate` | cached and uncached pass compute the same; positions, mask and cache agree |
| HTTP server | `server/server.py` | the one scheduler; the request being handled | `do_GET`, `do_POST` | every connection that is sent gets its own, right answer; nothing is left behind for the next |
| Position-wise arithmetic | `model/rmsnorm.py`, `mlp.py`, `rope.py`, `attention.py`, `config.py` | none | `apply_rope`, `repeat_kv`, views that split and merge heads; `rms_norm`, `swiglu_mlp` | elements, angles, heads and groups meet as the checkpoint was trained; numerical agreement with a reference |
| Weights, loader | `model/weights.py`, `load_weights.py` | the merged dict of tensors; the weights, set once | `CheckpointTensors.from_directory`, `load_config_from_directory`, `verify_config_matches`, `load_model_weights`, `output_projection` | each layer gets its own tensors, the right way round; a checkpoint of another configuration is refused |
| Client, benchmarks, scripts, random weights | `server/client.py`, `benchmark/`, `scripts/`, `testutil/` | none | | |

How they interact. The handler of `POST /generate` calls `add_request` and then
`step()` in a loop until `get_result` answers. `step()` asks the block pool for
blocks (for a prompt, and for the next token of each running sequence), evicts
when there are none, and calls `forward_with_cache` for a prefill or one decoded
token. That runs the decoder layers in order, and each appends the new K/V to
its layer of the sequence's `PagedKVCache`. The pool only counts: the index a
sequence gets from it is not the index its cache uses. Each `PagedKVCache` has
its own storage and its own free list of `total_blocks` blocks per layer, so the
two have to agree in number although no code connects them.

Everything runs in one thread: there are no locks, callbacks or messages, and
nothing is persisted. What is hard is elsewhere:

* loops over a copy of a dict whose entries the loop's own body removes
  (eviction and completion inside `step()`);
* an eviction in the middle of a loop that provides for all the others, of a
  sequence that may be the one that asked;
* two independent counts of the same blocks, and the rounding at multiples of
  the block size;
* liveness: a request that never gets an answer, with a caller that waits for it;
  a large prompt that smaller ones overtake for ever; a client that never sends
  the body that the only thread waits for;
* exceptions half-way through an append, a pass or a loop of `step()`. Nobody
  catches them but `HTTPServer`, which goes on with the next connection, and the
  one scheduler of the process goes on with what is left;
* three separately computed notions of a token's position;
* agreements that no shape shows: square projections, the pairing of elements in
  a rotation, the order of heads, two configurations that nobody compares, five
  places that decide a dtype.

## 2. Modules

    BlockPool <--EXTENDS-- Scheduler <--EXTENDS-- Server
        ^                   |      ^                 ^
        |        implements |      |                 |
        |                   v      |                 |
        |      RequestLifecycle    |                 |
        |                          |                 |
        +--PoolSpec-- SchedulerFaults <--EXTENDS-- ServerFaults

    PagedCache --implements--> NaiveCache

    Generation            LoadedModel            RotaryAttention

| Module | What it is |
|---|---|
| `BlockPool` | the pool: `Allocate`, `Free` and the block arithmetic; alone (`PoolSpec`), with any caller |
| `RequestLifecycle` | abstract: what the submitter of a request sees |
| `Scheduler` | `add_request` and `step()` |
| `NaiveCache` | the naive cache, which is also the abstract specification of a cache |
| `PagedCache` | the paged cache of one sequence, driven by forward passes |
| `Generation` | forward pass, cached forward pass and their callers, symbolically |
| `Server` | the handler loop on top of `Scheduler` |
| `SchedulerFaults` | the scheduler with a forward pass that can raise |
| `ServerFaults` | the server on top of that, with handlers that die; composes `Server` and `SchedulerFaults` |
| `LoadedModel` | from files to weights to a first pass: names, shapes, dtypes |
| `RotaryAttention` | rotation and heads for one query and one key, in integers |
| `MC*` | instances for TLC, with one `.cfg` for each run |
| `ListFacts` | lemmas on lists, induction over the natural numbers, sums |
| `SchedulerProofs` | theorems about the pool and the scheduler |
| `SchedulerFaultsProofs` | theorems about the scheduler with exceptions; uses the lemmas of `SchedulerProofs` |
| `ServerProofs` | theorems about the server, with and without exceptions; uses those of both schedulers |
| `PagedCacheProofs`, `GenerationProofs`, `LoadedModelProofs`, `RotaryAttentionProofs` | theorems about the module of that name |

### BlockPool and Scheduler

A call of `step()` is a chain of actions, one for each turn of its three loops:

| Code | Actions |
|---|---|
| `add_request` | `AddRequest` |
| `step` is called | `BeginStep` |
| `_admit_waiting` | `AdmitOne` (allocation, prefill and move to running are one turn), `KeepWaiting`, `EndAdmit` |
| `_ensure_decode_capacity` | `EnsureRoom`, `Evict`, `Retry`, `EndEnsure` |
| decode loop, `_decode_one`, `_finish` | `DecodeContinues`, `DecodeFinishes`, `EndStep` |

`pc` names the loop that runs and `todo` what is left of the list it walks over
(`_waiting`, or the copy `list(self._running.items())`). Requests are added only
while `pc = "idle"`, since there is one thread. The dict `_running` is the list
of its keys in insertion order, which matters: `max()` returns the first of
equal keys, and that decides who is evicted. `results` is the dict that `step()`
returns. Tokens are counted and not computed; a sequence's cache is the number
of tokens in it. The forward pass does not raise in this module; see
`SchedulerFaults`.

The early returns of `step()` (nothing is running) are in `NextPhase`.

### NaiveCache and PagedCache

One action is one turn of the loop in `append`: a write into the tail block
(`WriteInTail`), a write after taking a block (`WriteInNewBlock`), the
`RuntimeError` (`Exhausted`), or the return (`AppendReturns`), which moves the
pass on to the next layer. `Exhausted` ends the pass and leaves what was
written. `PassRaises` is every other way for a pass to raise: whatever allocates
a tensor can, before an append, in its gather, in the rest of the layer, or
after the last layer. The appends done stay done, the layers behind get
nothing. In the loop itself only `_allocate_block` raises: a token is written
into storage that exists. After either, a pass can be started on the cache
again, because a caller that survives the exception still has it. K and V go
through the same code and are one value. `stranded`, `exhausted` and `raises`
are history variables.

The refinement mapping gives the naive tensor of a layer as what `_gather`
returns, without the tokens of an append that has not returned.

### Generation

Real arithmetic is replaced by terms. The state of a token above a layer is the
state below together with the weighted set of keys it attended to, each with its
distance from the query: RoPE makes a score a function of the distance, and
softmax makes a key count in proportion to how often it occurs. So two logits
are the same term exactly when the code combines the same inputs in the same
way, whatever the weights are. Functions of one position (norm, projections,
MLP, residual) add nothing to a term. `RunLayer` is one decoder layer of a
cached pass. The two callers are `generate()` and the scheduler, which begin
alike but sample from different logits. Sampling picks any token, because any
token can have the highest logit.

### Server

`Server` extends `Scheduler`, and every step of `Scheduler` but `AddRequest` is
a step of the handler's loop (`Loop`); `Submit` is `AddRequest`. Connections are
answered in the order they are accepted, one at a time. What does not reach the
scheduler (health, unknown path, a body that fails validation) is `AnswerAtOnce`.

A connection is there before its request is. `Connect` is the accept; `Arrive(i)`
is the moment from which a read from connection i no longer blocks: the request
line, the headers and the announced body are there, or the client has closed its
end. The handler does nothing before that (`HasRead`): `rfile.read(length)`
(`server.py:83-84`), like the reading of the request line, has no timeout, and it
blocks the only thread.
Handlers that raise are in `ServerFaults`.

### SchedulerFaults and ServerFaults

A pass raises because it must (a token id that the embedding does not have, a
cache that is full) or at any time for want of memory. It does so in two places:

| Code | Action | What is left behind |
|---|---|---|
| the prefill in `_admit_waiting` | `PrefillRaises` | the blocks are allocated and `status` is "running", but `_waiting` is not yet replaced: it still names this request and all that the loop has admitted |
| `_decode_one` | `DecodeRaises` | those before it have their tokens, this one and those behind it have room and no token; layer 0 may have cached the token or not |

Both leave `step()` (`LeaveStep`): the locals are gone, the fields stay. All
other actions are those of `Scheduler`, with the condition that the pass in
them can succeed (`Undisturbed`). So `AdmitOne` is also taken for requests that
already run, or have finished, and own blocks. `unusable` are the requests with
bad token ids; `faults` and `damaged` are history variables. An eviction needs a
running request, as `max()` does; that there always is one is the absence of
deadlock.

In `ServerFaults` the handler calls that `step()`. If it raises (`StepRaises`),
for its own request or for one that an earlier handler left behind, the
connection is closed without a reply, and the handler's request stays in the
scheduler. A body that makes `do_POST` itself raise (`HandlerRaises`) submits
nothing.

### LoadedModel

A tensor is the name and the file it comes from, its shape, its dtype and
whether it has been transposed. `config.json` is whole, missing, not JSON or
without a field that is read (`config_json`), and only the scripts read it.
`ReadConfig`, `MergeFile`, `EndMerge` and `Load`
are the loader, `RandomWeights` is `random_model_weights`; then one forward pass
follows (`Lookup`, `RunLayer`, `Logits`), in which an operation raises when
PyTorch would: unequal inner dimensions, unequal dtypes of a product, a view
with another number of elements. `caller` is who loads: the server (with the
configuration of `model/config.py`), the server with random weights, the scripts
(with that of the checkpoint, compared, and upcast to float32), the tests. The
pass of the server goes through a float32 cache, those of the scripts and tests
through none.

### RotaryAttention

The same pass for one query and one key, at the level of elements. Angles are
numbers of quarter turns, so that all cosines and sines are integers and the
score can be compared with its definition exactly. `ProjectAndSplit`, `Rotate`,
`Repeat` and `Attend` follow `attention`.

## 3. Runs

| Run | Instance | What it shows |
|---|---|---|
| `scheduler` | 3 blocks of 2 tokens, 3 requests, prompts of 1, 2, 3 tokens, 0, 1 or 4 new ones, fairness | the safety properties of the scheduler; `PoolSpec` and `RequestLifecycle` implemented; whatever runs ends; whatever fits is served unless something is evicted or it is overtaken for ever |
| `scheduler_faults` | 3 blocks of 2 tokens, 3 requests, prompts 1, 2, 3, new 1, 3, any request unusable, 2 faults | whatever raises: no block shared or lost, held blocks stay, nobody is forgotten, damage is contained, and how far caches can be off |
| `paged_cache` | 3 layers, 3 blocks of 2 tokens, passes of 1 to 3 tokens, 2 values, 1 pass that raises | the paged cache returns what the naive one does; exhaustion is final; no layer is ahead of one before it |
| `generation` | 2 layers, 2 token ids, prompts of 1 to 3, 0, 1 or 4 new ones | `generate()` computes what `forward` computes at every step; what the scheduler computes instead |
| `server` | 2 blocks of 2 tokens, 3 connections of every kind, each sent at any time or never, fairness | one request at a time, pool whole between them, right replies; a request that fits and is sent, behind requests that fit and are sent, is answered, and one that does not fit is stuck for good |
| `server_faults` | 3 blocks of 2 tokens, 3 connections, 2 faults | after handlers that died, a reply is still the right one, from an undamaged cache |
| `loaded_model` | 60 configurations, 4 states of `config.json`, 2 dtypes, 0 to 2 files, a name missing or twice, 4 callers | what runs is the checkpoint; failures have their causes; what a disagreement can amount to |
| `rotary_attention` | 4 heads over 2 KV heads of 4 elements, positions to 5 | the score is that of grouped rotary attention |
| `some_request_finishes`, `scheduled_matches_forward`, `every_connection_answered`, `real_checkpoint_runs` | small | violated: see Findings |

The pool has no run of its own: `scheduler_faults` is the widest caller that the
code has for it, and any caller at all is what the first part of
`SchedulerProofs` is about.

### Why these bounds are enough

* Pool of 3 blocks of 2 tokens, prompts of 1 to 3 and up to 4 new tokens: a
  request needs from 1 to 4 blocks, so there are requests that fit together,
  that fit only alone, and one (3 + 4) that outgrows the pool alone. With a
  block size of 2 every prompt and every growth step falls on both sides of a
  block boundary. Three requests are needed for an eviction to hit a sequence
  before, at and after the one that asks, and for a waiting one to be
  overtaken. `MaxNews` has 0 because `add_request` does not refuse it.
  `MaxRequests` also bounds the arrivals, which the code does not: with three
  requests nobody is overtaken for ever. No property relies on that. The
  premise of `ServedUnlessStarved` names it, and its conclusion is claimed under
  the premise only.
* Paged cache: 3 blocks of 2 tokens are exhausted after 6 tokens; passes of up
  to 3 tokens make an append cross one boundary or two, and fail at its first,
  second or third token. Three layers tell the first, a middle one and the last
  apart. Two values suffice to see any swap or overwrite, since all
  sequences of them are tried. One pass that raises, at each of its points and
  at every fill of the cache, leaves the layers apart, and any passes may follow;
  more of them make steps between layers of other heights. The proofs have no
  such bound.
* Generation: with two layers the cached keys of the second depend on what the
  first attended to. Prompts of one token are the boundary of "last token of
  the prompt", and the doubled key shows there only from the second decode.
* Server: a pool of 4 tokens against requests of 2, 4 (fits exactly), 6
  (outgrows it while running) and more (prompt never admitted). Each connection
  may be sent before or after those ahead of it, or never.

* Faults: two let a second exception hit what the first has left, and one more
  step of every kind follow. Unusable requests raise every time and need no
  bound. Three requests give one before, one at and one behind the one that
  raises.
* Loader: one to three layers against two assumed (fewer, equal, more); heads of
  another number with the same widths, and with other widths; another hidden
  size; another theta. Two files tell the first from the last; one missing name
  and one name in both suffice, since names are looked up independently. The
  assumed configuration has square `q_proj` and `o_proj`, like the real one.
* Rotary attention: a score is linear in the query and in the key, and the
  output in the value, so that rows with a single 1 stand for all. Two pairs
  that turn at speeds 3 and 1, over distances 0 to 5, tell the pairs, the signs
  and the direction apart. Two groups of two heads tell block order from cyclic.
  Quarter turns decide nothing about other angles, but the code treats an angle
  only through its cosine and sine, and a wrong element, angle or sign shows at
  these.

Bounds that are not in the code: `MaxRequests`, `MaxChunk`, `MaxConnections`,
`MaxFaults`, `MaxRaises`, `MaxPosition`, the files of `Layouts`.
Everything else that grows is bounded by what requests ask for.

### Fairness

`FairSpec` assumes weak fairness of `Step`, all actions of `step()` together:
every caller in the repository calls `step()` in a loop (`server.py:103-104`,
the tests, the benchmark), and the loops of `step()` are over finite lists. No
fairness is assumed of `AddRequest`. `ServerFairSpec` assumes that the thread of
`serve_forever` keeps running whenever it has something to do (`Serve`). It has
nothing to do while it blocks in `rfile`: `Serve` is disabled then, and the code
sets no timeout that would enable it. Clients owe nothing, neither to connect
(`Connect`) nor to send what they have announced (`Arrive`), so a liveness
property of the server has to say in its premise who has sent: `FittingAnswered`
does, for the connection and for all before it. Neither specification says
anything about which of several enabled actions of the thread is taken, and only
one ever is.

A reply is assumed to fit the buffer of its socket: a client that reads nothing
does not block the `write` of these small replies, and a reset connection, whose
`write` raises after the request is done, changes nothing in the scheduler.

`CHECK_DEADLOCK FALSE` is set for `Generation` (a sequence is generated),
`Server` and `ServerFaults` (all bounded connections are answered), `LoadedModel`
and `RotaryAttention` (a computation that ends). In the other models there is
always something to do.

### The properties

Pool: `NoBlockShared`, `NoBlockLost`, `HeldBlocksStay`, checked under a scheduler
with exceptions and proved for any caller.

Scheduler:

* `StatusMatchesPlace`: a request is in the one collection that its status says,
  also while `_admit_waiting` moves them between two lists;
* `TodoIsRunning`: what is left of the copied dict is always the last part of
  the dict, so no loop meets an entry that was removed. The exception is the
  sequence that evicted itself;
* `OldestFirst`: running requests are ordered by what they have generated, hence
  `max(..., key=num_generated)` always evicts the one admitted first. It is the
  reason for `TodoIsRunning`;
* `BilledExactly`, `CacheNeverExhausted`: the pool's count and the private
  cache's count agree, so that the `RuntimeError` of the paged cache never
  happens under the scheduler;
* `RetrySucceeds`: one eviction always frees enough; the case that the comment
  at `scheduler.py:245` provides for does not occur;
* `LeakBounded`: what is left behind by a self-eviction is at most one block;
* `AdmissionFair`: who is left waiting does not fit, and a later request gets
  past an earlier one only by needing fewer blocks. So only smaller prompts
  can starve one;
* `TableIsOwned`, `ResultsMatchStatus`;
* `Lifecycle`, `PoolSpec`: refinement;
* `RunningEnds`, `ServedUnlessStarved`: liveness. The second says which of the
  requests that fit may wait for ever: those that are overtaken for ever, and
  those left without blocks by an eviction.

The type invariants of the pool and the scheduler, the length of finished
outputs (`FinishedLength`) and the order of evictions (`VictimIsOldest`) are
proved for all instances and are in no run; see Proofs.

Scheduler with exceptions: `NobodyForgotten`, `DamageContained`,
`DoubledBounded`. The invariants of the undisturbed scheduler do not survive. A
request can be in `_waiting` and `_running` at once, so `StatusMatchesPlace` is
lost, and blocks can be billed twice, so `BilledExactly` is lost. What does
survive is that a request which exists is still looked at, that the pool's own
books are in order, and that requests which no exception has touched are billed
for what they cache. For the others `DoubledBounded` says how far a cache can be
off: it lacks no token, and has no more of them twice than passes have raised,
also when a request is admitted a second time.

Paged cache: `BlocksOnce`, `CountersAgree` (three counters that are kept
separately, and the number of blocks that the scheduler bills),
`RaisesOnlyWhenFull`, `Lockstep`, `ExhaustionIsFinal`, `ImplementsNaive`.
`Lockstep` has two halves. What `seq_len()` promises, that layer 0 stands for
all layers, holds until a pass raises between two appends; after that layer 0
may count too much, and never too little. `ExhaustionIsFinal` is about the pool
only: no pass goes on over half a chunk. Together with `CacheNeverExhausted`
`RaisesOnlyWhenFull` says that the scheduler's caches do not raise: the
scheduler never caches more than `total_blocks * block_size` tokens of a
sequence, and below that no append raises for want of a block.

Generation: `GenerateMatchesForward`, `CacheMatchesForward`,
`ScheduledMatchesRepeated`.

Server: `OneAtATime`, `PoolIsWhole`, `RepliesAreRight`, `StuckForGood`,
`FittingAnswered`. With exceptions: `RepliedRight`, and `RepliedUndamaged`, which
is why: a handler whose request is damaged has died of the same exception.

Loader: `RunsTheCheckpoint` (tensors by name, file, layer and orientation, for
all callers), `DisagreementIsBounded` (what missing names and shape errors do
catch when nobody compares configurations), `FailsForCause` (each class of
exception has its causes, those of an unusable `config.json` among them).

Attention: `IsRotaryAttention`.

## 4. Findings

1. **A batch can evict itself entirely** (`some_request_finishes`).
   `_ensure_decode_capacity` retries the allocation for the sequence that asked
   even if that is the victim. The freed room is gone again, the next sequence
   asks in vain and evicts itself in turn. Two requests that would each finish
   alone are both lost, against "keeps the scheduler making progress rather than
   deadlocking".
2. **The scheduler does not compute what `generate()` computes**
   (`scheduled_matches_forward`). The prefill caches the whole prompt and its
   logits are dropped; the first decode feeds the last prompt token again. Its
   keys and values are then in the cache twice. `ScheduledMatchesRepeated` shows
   that this is the only difference. The comparison in the tests uses one prompt
   and random weights, where the most likely token can be the same.
3. **A request that does not fit hangs the server** (`every_connection_answered`).
   `get_result` is None for a request that was evicted or can never be admitted,
   and the handler loops on it in the only thread, health checks included
   (`StuckForGood`). All clients have sent their requests in this run; that one
   which does not send blocks the server as well is in the premise of
   `FittingAnswered`.
4. **The server does not run the real checkpoint** (`real_checkpoint_runs`). Its
   cache is float32 and returns float32 keys; the product with the bfloat16
   queries of a real checkpoint raises in the first layer. The doc of the
   scheduler says that its cache is bf16 by default.

### Why some properties are as weak as they are

The passing properties are as strong as the code allows. Where one makes an
exception, the code does this:

* `LeakBounded`, for evicted sequences: one that evicts itself is given a block
  by the retry (`scheduler.py:242`), under an id that `free` is never called for
  again. The pool is smaller for good, by that one block.
* `Target`, which is 1 for a request of no tokens: `is_done` is tested only after
  a token. The server refuses 0; `add_request` does not.
* `ServedUnlessStarved`, under the premise that s is not overtaken for ever:
  `_admit_waiting` goes on to the requests behind one that it refuses
  (`scheduler.py:180-183`). With 3 blocks of 2 tokens, let a prompt of 5 tokens
  wait, which needs all three, while requests of 1 prompt token and 2 new ones
  arrive so that each is admitted before the last is done. One block is
  held at every admission, so the prompt of 5 is refused at each, although it
  fits the pool and nothing is ever evicted. It needs arrivals without end, and
  a finite instance does not show it.
* `FittingAnswered`, under the premise that the request and all before it are
  sent to the end: a client that announces a body and sends none keeps the only
  thread in `rfile.read` (`server.py:83-84`), whatever is behind it.
* `Lockstep`, whose equality ends with the first pass that raises between two
  layers' appends: layer 0 has the tokens, the layers behind do not. With room
  left the next pass succeeds on such a cache, and its layers have different
  keys. `ExhaustionIsFinal` speaks of an exhausted pool for the same reason.
* `NobodyForgotten`, where `waiting` and `running` may overlap: a prefill that
  raises leaves `_waiting` as it was before the loop. Those that the same call
  had admitted before are then in both, finish, and are admitted again, from
  finished back to running.
* `DamageContained`, outside of `damaged`: a decode that raises after layer 0 has
  appended is done again, and its token is cached twice, which the pool, billing
  by the length of the token list, does not see. `DoubledBounded` counts with
  the layer that has most, layer 0 (`Lockstep`).
* `RepliedRight`, for those who get a reply: token ids are not validated, and a
  request whose prefill raises stays in `_waiting`. The `step()` of later handlers
  raises on it in turn, or its blocks, allocated again each time, no longer fit.
* `DisagreementIsBounded`, not equality of configurations: the server never reads
  `config.json`. More layers than assumed, heads split otherwise over the same
  widths, and another `rope_theta` or `rms_norm_eps` change no shape, although
  `config.py:6-8` expects a mismatch to surface as a shape error.

## 5. Proofs

Each theorem holds for every value of the constants that the named assumptions
of the module allow:

* `BlockPool`, `Scheduler`: `TotalBlocks` and `MaxRequests` natural, `BlockSize`
  positive, prompts not empty, budgets natural;
* `SchedulerFaults`: `MaxFaults` natural. `Server`: no more connections than
  sequence ids, so that ids, which the code never runs out of, do not run out;
* `PagedCache`: at least one layer, `BlockSize` positive, `MaxBlocks`,
  `MaxChunk` and `MaxRaises` natural. `Zero`, in fresh storage, is no token's
  value, so that the reading of a slot that was never written cannot go unseen;
* `Generation`: at least one layer, prompts not empty;
* `LoadedModel`: in every configuration the query heads are divided evenly among
  the KV heads, and the size of a head is even. The first is asserted at
  `config.py:41`; without the second the rotation has no halves;
* `RotaryAttention`: the same two, as equations.

Almost no invariant that a run checks is inductive. Each module has one that is,
in named parts; one lemma for an action or for a part shows that a step keeps
it, and the theorems follow from it. TLC has checked the inductive invariants
before they were proved.

### SchedulerProofs

The pool's properties of `PoolSpec`, whoever calls it, come from one inductive
invariant, the partition of the blocks, and the facts about rounding
(`BlocksForLeast`: the number of blocks for n tokens is the least that holds
them).

`InvariantHolds` is `Spec => []IInv`, and every safety property of the
`scheduler` run follows, with `TypeOK` and `FinishedLength`. None of them is
inductive alone:

* `BilledExactly` needs `TodoIsRunning`, to know that the sequence whose turn it
  is runs at all and has not been provided for, and `LeakBounded`, to know that a
  request that is admitted owns nothing yet;
* `TodoIsRunning` says that the rest of the copy is the end of the dict. An
  eviction keeps that only if it takes the first entry, which is `OldestFirst`;
* `OldestFirst` needs, in the middle of the decode loop, that those already
  decoded are strictly ahead, and at an admission that the new one has generated
  nothing, which is `Progress`; that a finished request is not in the way of the
  order needs `Progress` again;
* `RetrySucceeds` needs that a running sequence owns a block, which is
  `BilledExactly` with a prompt that is not empty;
* `AdmissionFair` needs both its halves: a request that is admitted ahead of an
  earlier one needs fewer blocks because the earlier one still has no room, which
  is the first half; that the earlier one was refused by this loop follows from
  the order of the lists in `StatusMatchesPlace`;
* `StatusMatchesPlace` carries the two lists of `_admit_waiting`, and
  `Control` says that the local one is empty outside of it;
* `NoBlockShared` and `NoBlockLost` are kept by any call of the pool, whoever
  calls (`PoolEffect`).

From `IInv` also come the action property `EvictsTheOldest` and two refinements:
every step of the scheduler is a call of the pool or leaves it alone
(`UsesThePool`), and is one step of a request's life or a stutter
(`ImplementsLifecycle`).

### SchedulerFaultsProofs

Exceptions destroy most of `IInv`: a request can be in two collections, own
blocks while it waits, and be admitted again after it has finished. `FInv` is
what is left, and it is proved without `IInv`:

* `Arrived`, `Found`: whoever is in a collection has arrived, and whoever is
  waiting or running by its status is in one that the next `step()` walks over,
  also when an exception puts `_waiting` back to what it was. This is
  `NobodyForgotten`;
* `LoopsOnce`: no loop of `step()` meets an id twice. `TodoIsRunning` is lost,
  since the victim of an eviction need not be ahead of the rest any more;
* `VictimsLeft`, `EvictionFrees`: a turn of the loop evicts one at most, so that
  there is somebody left for the next, who owns a block. From these,
  `EvictionHasAVictim`: `max()` never meets an empty dict;
* `Undamaged`: a request that no exception has touched looks, wherever it is,
  as it would without exceptions. `DamageContained`, that it is billed for what
  it caches, is not inductive without that.

`DoubledBounded` is proved beside `FInv`. It needs `UsableRun`, that a request
whose token ids no pass can take never runs: each of its decodes would raise, and
could double a token, without being counted in `faults`.

`FaultsUseThePool` and `FaultsKeepHeldBlocks` are the refinement of `PoolSpec`
and the pool's action property, again with exceptions. `UndamagedAreServed`
(`Outputs`) says that the output of an undamaged request is complete; no run
checks it, and the server's replies rest on it.

### ServerProofs

Every step of the server is one of the scheduler or leaves it alone
(`ServerCallsTheScheduler`, `ServerSpec => Spec`; a blocked read is among the
latter), which makes all of
`SchedulerProofs` hold under the server. `SInv` adds: the scheduler holds nobody
but the request being handled (`Alone`), and nothing between two handlers
(`Resting`); no block is left behind (`NothingLeft`), where a request that
evicted itself keeps one and its handler for good; a request is finished only
if it fits (`FinishedFit`). `RepliesAreRight`, `PoolIsWhole`, `OneAtATime` and
`StuckForGood` follow.

With exceptions the scheduler is not empty between two handlers, and none of
this holds. `FSInv` says in its place that the request of a handler that still
runs is undamaged (`HandlerUndamaged`): each exception that damages requests
ends the handler, and those that it damages are of this handler and of earlier
ones. With `Outputs` this gives `RepliedRight` and `RepliedUndamaged`.
`FaultyServerCallsTheScheduler` is `ServerFaultSpec => FaultSpec`.

### PagedCacheProofs

Three parts of `IInv` tie one layer's records together: `BlocksAddUp` (free and
table make up all blocks), `BlocksOnce`, `CountersAgree`. `Staggered` relates
the layers: each holds what it had when the pass started, and what has been
appended to it in this pass, and what an exhausted append left behind; no layer
started from more than the one before it, and all from the same until a pass has
raised between two appends. Hence `Lockstep`. `OnlyLayerZeroRaises` follows: all
layers have the same number of blocks, a later one never holds more than layer 0,
which is asked first, so layer 0 is the one to run out, and once full it stays
full (`ExhaustionIsForGood`). `PendingHeld`
says that the tokens of an append that has not returned are the last ones of
their layer.

`PagedImplementsNaive` is the refinement. What `_gather` returns is a function
of table, storage and length. The proof shows that a write changes it at its end
only: a token goes into the tail slot of a block that, by `BlocksOnce`, is at
one place of the table (`WriteInvisible`), and quotient and remainder of an
index by the block size name each slot once (`Division`).

### GenerationProofs

The term for a pass over n tokens is a recursion over layers, and each state
depends on its own position and those before it. The central lemma is that
causality: a prefix of the tokens, at the same positions, has a prefix of the
states, in every layer. `GInv` then says what is in the cache in the
middle of a pass: layers already run hold the keys of all tokens fed, the
others those of the tokens of earlier passes (`CacheRight`), and the hidden
states between two layers are those of the uncached pass (`HiddenRight`). It is
stated over the tokens fed and the positions they were fed at, in which the two
callers differ: the scheduler feeds the last token of the prompt twice. So one
invariant gives `GenerateMatchesForward` and `CacheMatchesForward` for
`generate()` and `ScheduledMatchesRepeated` for the scheduler, for any number of
layers, any vocabulary and any length.

### LoadedModelProofs

`LInv` follows the tensors: `TensorsMerged` (a name has the tensor of the last
file merged so far that has it), `WeightsRight` (each weight is the tensor of its
name, turned if it is a projection, of the dtype that the caller made it), and
`PassRight` (width and dtype between layers are those of the checkpoint, and
once a layer has run, the products of heads and head size agree). From the last
come `DisagreementIsBounded` and, with `Causes`, `FailsForCause`.

### RotaryAttentionProofs

`RInv` says what each step has made of the projected rows. The rest is algebra:
a rotated pair's product depends on the difference of the angles
(`cos(a - b)`), the sum over a head splits into pairs of elements, and the head
that `RepeatKv` puts at h is that of its group, h divided by the number of
groups. It holds for all numbers of heads and groups, head sizes, positions and
frequencies, at quarter turns; at other angles the same two identities hold
of real numbers, which are outside the prover's and TLC's arithmetic.

### Induction

The library's induction theorems take an operator as a parameter, which the
installed provers do not instantiate. `ListFacts` has instances with sets in
place of operators, `LeastNumber` and `Induction`, which follow from the
library's fact that the order of the natural numbers is well-founded. By them
it is also proved, and not assumed, that the functions defined by recursion
that the proofs use satisfy their defining equations (`StatesExist`,
`SumsExist`).

### Only model-checked

Liveness, which the prover does not do (no fairness, no `ENABLED`):
`RunningEnds`, `ServedUnlessStarved`, `FittingAnswered`. The absence of deadlock
likewise, but for `EvictionHasAVictim`. The findings are counterexamples of
TLC.

## 6. Not modelled

* The values of real arithmetic and their rounding: RMSNorm, SiLU, softmax,
  products. A model checker cannot decide them, and the tests compare them with
  references. What is modelled of these functions is which elements meet, and
  their shapes and dtypes.
* The client's own code (one blocking call with a timeout): a client is whoever
  connects, and sends or does not. A connection that is closed before its
  request line is no request; one that is closed in its body has a body that is
  not whole, which is malformed. Broken pipes and resets while a reply is written
  are left out: they end the handler after all that it does to the scheduler.
* The benchmarks, which measure, and of the comparison scripts everything after
  loading: download, another implementation, numerical differences.
* Batches larger than one in a tensor: the caches and the scheduler use one.

## 7. Plan

Done: all components of section 1 but the last, with exceptions, and proofs of
all their safety properties and refinements.

Next:

1. A scheduler composed with one `PagedCache` for each sequence in place of the
   number `cached`: the claim that connects `CacheNeverExhausted` and
   `RaisesOnlyWhenFull` is now an argument of this file over two theorems.
2. The same for `Generation`, whose cache is one growing list per layer, as in
   `NaiveCache`: with `PagedImplementsNaive` its theorems hold for paged caches.
3. The safety half of the liveness properties: the bounds that decrease with
   each turn of `step()`.
