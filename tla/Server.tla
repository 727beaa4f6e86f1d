-------------------------------- MODULE Server --------------------------------
(***************************************************************************)
(* The HTTP server, server/server.py, on top of the scheduler.             *)
(*                                                                         *)
(* HTTPServer handles one connection after the other, in one thread.  The  *)
(* handler of POST /generate reads its request, for as long as the client  *)
(* takes to send it, submits it, and calls step() until it has a result;   *)
(* step() is the chain of actions of Scheduler.  Connections that come     *)
(* meanwhile wait in the listen queue.                                     *)
(***************************************************************************)
EXTENDS Scheduler

CONSTANT MaxConnections     \* bound: connections made

ASSUME MaxConnectionsAssumption ==
    MaxConnections \in Nat /\ MaxConnections <= MaxRequests

\* What a client can send: GET /health, any other path, a body that is not
\* JSON (one that is cut off, too) or whose fields have the wrong type, or p
\* token ids of the vocabulary and a number m.
Requests ==
    [kind : {"health", "unknown", "malformed"}] \cup
    [kind : {"generate"}, p : PromptLens \cup {0}, m : MaxNews \cup {0}]

VARIABLES
    conns,      \* the requests of the connections, in the order of accept
    arrived,    \* those of them, by number, that have been sent to the end
    replies,    \* the replies sent so far: replies[i] answers conns[i]
    seq_id      \* the local seq_id of the handler that runs, or None

serverVars == <<conns, arrived, replies, seq_id>>

-----------------------------------------------------------------------------
(* The handler *)

\* The connection whose turn it is.
Current == conns[Len(replies) + 1]

ValidNoLower(r) == r.kind = "generate" /\ r.p > 0   \* mutant: any number

\* The validation in do_POST.
Valid(r) == r.kind = "generate" /\ r.p > 0 /\ r.m >= 1

\* _send_json
Send(code, len) == replies' = Append(replies, [code |-> code, len |-> len])

\* A client connects.  It does not wait for the server.
Connect(r) ==
    /\ Len(conns) < MaxConnections
    /\ conns' = Append(conns, r)
    /\ UNCHANGED <<vars, arrived, replies, seq_id>>

\* The i-th client has sent all that its handler reads, the announced body
\* too, or has closed its end.  Before that it may take any time, or for ever.
Arrive(i) ==
    /\ i \in DOMAIN conns \ arrived
    /\ arrived' = arrived \cup {i}
    /\ UNCHANGED <<vars, conns, replies, seq_id>>

\* No handler waits for a result, and the next one has read its request: until
\* then it blocks in rfile, without a timeout, and with it the only thread.
HasRead ==
    /\ seq_id = None
    /\ Len(replies) + 1 \in arrived

\* do_GET, and do_POST up to its last early return: nothing is submitted.
AnswerAtOnce ==
    /\ HasRead
    /\ ~ Valid(Current)
    /\ Send(CASE Current.kind = "health"  -> 200
              [] Current.kind = "unknown" -> 404
              [] OTHER                    -> 400, 0)
    /\ UNCHANGED <<vars, conns, arrived, seq_id>>

\* do_POST submits the request.
Submit ==
    /\ HasRead
    /\ Valid(Current)
    /\ AddRequest(Current.p, Current.m)
    /\ seq_id' = next_seq_id
    /\ UNCHANGED <<conns, arrived, replies>>

\* get_result
get_result(s) == finished[s]

\* The loop: step() is called when there is no result, and runs to its end.
Loop ==
    /\ seq_id # None
    /\ pc = "idle" => get_result(seq_id) = None
    /\ Step
    /\ UNCHANGED serverVars

ReplyEarly ==                               \* mutant: if, not while
    /\ seq_id # None
    /\ pc = "idle"
    /\ Send(200, get_result(seq_id))
    /\ seq_id' = None
    /\ UNCHANGED <<vars, conns, arrived>>

ReplyGivesUp ==                             \* mutant: replies to the evicted
    /\ seq_id # None
    /\ pc = "idle"
    /\ get_result(seq_id) # None \/ status[seq_id] = "evicted"
    /\ Send(200, seq_len[seq_id])
    /\ seq_id' = None
    /\ UNCHANGED <<vars, conns, arrived>>

\* The loop ends, and the result is sent.
Reply ==
    /\ seq_id # None
    /\ pc = "idle"
    /\ get_result(seq_id) # None
    /\ Send(200, get_result(seq_id))
    /\ seq_id' = None
    /\ UNCHANGED <<vars, conns, arrived>>

-----------------------------------------------------------------------------
(* The specification *)

ServerInit ==
    /\ Init
    /\ conns = <<>>
    /\ arrived = {}
    /\ replies = <<>>
    /\ seq_id = None

Serve == AnswerAtOnce \/ Submit \/ Loop \/ Reply

ServerNext ==
    \/ Serve
    \/ \E r \in Requests : Connect(r)
    \/ \E i \in DOMAIN conns : Arrive(i)

ServerSpec == ServerInit /\ [][ServerNext]_<<vars, serverVars>>

\* The thread of serve_forever runs while it has something to do.  Nobody has
\* to connect, and who connects does not have to send anything.
ServerFairSpec == ServerSpec /\ WF_<<vars, serverVars>>(Serve)

-----------------------------------------------------------------------------
(* Properties *)

\* A request that the server can serve: alone, it does not outgrow the pool.
Fits(r) == BlocksFor(r.p + r.m) <= TotalBlocks

\* The scheduler, made for batches, never has more than one request here, and
\* it is the one that the handler waits for.
OneAtATime == ToSet(waiting) \cup ToSet(running) \subseteq {seq_id}

\* Between two requests the pool is whole: what earlier requests did never
\* makes a later one fail.
PoolIsWhole == seq_id = None => Len(free) = TotalBlocks

\* What connection i was sent: the prompt and all that was asked for, or a
\* refusal of what is not a valid request.
ReplyIsRight(i) ==
    IF Valid(conns[i])
    THEN Fits(conns[i]) /\ replies[i] = [code |-> 200, len |-> conns[i].p + conns[i].m]
    ELSE replies[i].code = 200 <=> conns[i].kind = "health"

\* Every reply answers the connection it is sent on, and a request that
\* outgrows the pool never gets one.
RepliesAreRight == \A i \in DOMAIN replies : ReplyIsRight(i)

\* A handler whose request does not fit never comes to an end: the server is
\* stuck, and nothing behind it is answered either.
StuckForGood ==
    [][seq_id # None /\ ~ Fits(Current) => UNCHANGED <<replies, seq_id>>]_<<vars, serverVars>>

\* The first i requests have been sent, and the server can serve them.
FirstFit(i) ==
    /\ 1 .. i \subseteq arrived
    /\ \A j \in 1 .. i : Valid(conns[j]) => Fits(conns[j])

\* A request is answered in the end when it and all before it fit the pool
\* and are sent to the end, whatever comes after it: one that is behind a
\* client that never sends its body waits for ever.
FittingAnswered == \A i \in 1 .. MaxConnections :
    FirstFit(i) ~> i <= Len(replies)

\* server.py: POST /generate is "submit a generation request, block until
\* done, return the generated tokens as JSON", and GET /health "returns
\* {"status": "ok"} immediately".  So every connection is answered, at least
\* when all clients send what they have announced.
EveryConnectionAnswered == \A i \in 1 .. MaxConnections :
    1 .. i \subseteq arrived ~> i <= Len(replies)

=============================================================================
