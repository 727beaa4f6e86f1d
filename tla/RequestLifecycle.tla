--------------------------- MODULE RequestLifecycle ---------------------------
(***************************************************************************)
(* What the scheduler promises the submitter of a request, with no blocks, *)
(* no lists and no order of work: a request is submitted, admitted,        *)
(* generates one token after another and is finished with the length that  *)
(* was asked for, or is evicted and never heard of again.  Requests are    *)
(* independent of each other.  Scheduler implements this (Lifecycle there).*)
(***************************************************************************)
EXTENDS Integers

CONSTANTS
    Requests,       \* the requests there can be
    Prompts,        \* the lengths of their prompts
    Budgets         \* the numbers of tokens they ask for

VARIABLES
    phase,          \* "none", "waiting", "running", "finished" or "evicted"
    prompt,         \* the length of the prompt
    budget,         \* how many tokens are asked for
    generated,      \* how many tokens have been generated
    output          \* the length of the output that can be collected, or -1

reqVars == <<phase, prompt, budget, generated, output>>

ReqInit ==
    /\ phase = [r \in Requests |-> "none"]
    /\ prompt = [r \in Requests |-> 0]
    /\ budget = [r \in Requests |-> 0]
    /\ generated = [r \in Requests |-> 0]
    /\ output = [r \in Requests |-> -1]

\* A request arrives.
Submit(r, p, m) ==
    /\ phase[r] = "none"
    /\ phase' = [phase EXCEPT ![r] = "waiting"]
    /\ prompt' = [prompt EXCEPT ![r] = p]
    /\ budget' = [budget EXCEPT ![r] = m]
    /\ UNCHANGED <<generated, output>>

\* It starts to run.
Admit(r) ==
    /\ phase[r] = "waiting"
    /\ phase' = [phase EXCEPT ![r] = "running"]
    /\ UNCHANGED <<prompt, budget, generated, output>>

\* It generates a token that leaves it with more to do.
Emit(r) ==
    /\ phase[r] = "running"
    /\ generated[r] + 1 < budget[r]
    /\ generated' = [generated EXCEPT ![r] = @ + 1]
    /\ UNCHANGED <<phase, prompt, budget, output>>

\* It generates its last token, and the output can be collected.
Complete(r) ==
    /\ phase[r] = "running"
    /\ generated[r] + 1 >= budget[r]
    /\ phase' = [phase EXCEPT ![r] = "finished"]
    /\ generated' = [generated EXCEPT ![r] = @ + 1]
    /\ output' = [output EXCEPT ![r] = prompt[r] + generated[r] + 1]
    /\ UNCHANGED <<prompt, budget>>

\* It is given up.
Drop(r) ==
    /\ phase[r] = "running"
    /\ phase' = [phase EXCEPT ![r] = "evicted"]
    /\ UNCHANGED <<prompt, budget, generated, output>>

ReqNext == \E r \in Requests :
    \/ \E p \in Prompts, m \in Budgets : Submit(r, p, m)
    \/ Admit(r) \/ Emit(r) \/ Complete(r) \/ Drop(r)

ReqSpec == ReqInit /\ [][ReqNext]_reqVars

=============================================================================
