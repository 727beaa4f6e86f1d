----------------------------- MODULE ServerFaults -----------------------------
(***************************************************************************)
(* The HTTP server when a forward pass, or the handler itself, raises,     *)
(* server/server.py.                                                       *)
(*                                                                         *)
(* do_POST catches nothing but a JSON error.  HTTPServer (external) reports*)
(* what a handler raises on stderr, closes the connection without a reply  *)
(* and goes on to the next one.  The scheduler outlives the handler: the   *)
(* request stays in it, and the handlers of later requests step it.        *)
(***************************************************************************)
EXTENDS Server, SchedulerFaults

Closed == 0         \* stands for a connection closed without a reply

allServerVars == <<allVars, serverVars>>

-----------------------------------------------------------------------------
(* The handler *)

\* do_POST raises before it submits anything: a body that is JSON but not an
\* object, or a Content-Length that is no number.
HandlerRaises ==
    /\ HasRead
    /\ Current.kind = "malformed"
    /\ Send(Closed, 0)
    /\ UNCHANGED <<allVars, conns, arrived, seq_id>>

\* do_POST submits a request whose token ids nobody has looked at.
FaultSubmit ==
    /\ Submit
    /\ unusable' \in {unusable, unusable \cup {next_seq_id}}
    /\ UNCHANGED <<faults, damaged>>

\* The loop calls step(), while there is no result.
FaultLoop ==
    /\ seq_id # None
    /\ pc = "idle" => get_result(seq_id) = None
    /\ Undisturbed
    /\ UNCHANGED serverVars

StepRaisesCaught ==                         \* mutant: try: step() except: pass
    /\ seq_id # None
    /\ Raises
    /\ UNCHANGED serverVars

\* step() raises, for this request or for another one that it is stepping.
StepRaises ==
    /\ seq_id # None
    /\ Raises
    /\ Send(Closed, 0)
    /\ seq_id' = None
    /\ UNCHANGED <<conns, arrived>>

-----------------------------------------------------------------------------
(* The specification *)

ServerFaultInit ==
    /\ ServerInit
    /\ unusable = {}
    /\ faults = 0
    /\ damaged = {}

ServeFaulty ==
    \/ (AnswerAtOnce \/ Reply) /\ UNCHANGED faultVars
    \/ HandlerRaises
    \/ FaultSubmit
    \/ FaultLoop
    \/ StepRaises

ServerFaultNext ==
    \/ ServeFaulty
    \/ \E r \in Requests : Connect(r) /\ UNCHANGED faultVars
    \/ \E i \in DOMAIN conns : Arrive(i) /\ UNCHANGED faultVars

ServerFaultSpec == ServerFaultInit /\ [][ServerFaultNext]_allServerVars

-----------------------------------------------------------------------------
(* What survives *)

\* Whatever has been left behind by handlers that died: a client that gets a
\* reply gets the right one.
RepliedRight == \A i \in DOMAIN replies :
    replies[i].code # Closed => ReplyIsRight(i)

\* ... because its request is one that no exception has touched: its handler
\* would have died of it.  So its tokens were computed from a whole cache.
RepliedUndamaged ==
    [][Reply => seq_id \notin damaged \cup unusable]_allServerVars

=============================================================================
