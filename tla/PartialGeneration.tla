------------------------- MODULE PartialGeneration -------------------------
(***************************************************************************)
(* The n generations of one sample in the fully asynchronous rollout: the  *)
(* agent loops of a worker (fully_async_policy/agent_loop), the server     *)
(* manager that routes their requests, and the servers that can be told to *)
(* stop (fully_async_policy/vllm_rollout/vllm_async_server.py).            *)
(*                                                                         *)
(* Coroutines of a worker or server are interleaved at awaits.  The        *)
(* server's lock is never held across an await, so what runs under it is   *)
(* one step.  A rollout rank of BucketTransfer is a server, and a token    *)
(* remembers the versions of the weights it was computed with.             *)
(*                                                                         *)
(* What a model would say is a function of the tokens it has seen: the     *)
(* k-th token after the prompt is Script[kind][k], one of                  *)
(*   text, open, close (a tool call is what lies between open and close),  *)
(*   end, and tool (not generated: the response of the called tool).       *)
(* A request ends with a token close or end.                               *)
(***************************************************************************)
EXTENDS BucketTransfer

CONSTANTS
  Gens,             \* the n generations of the sample
  Workers,          \* the sequence agent_loop_workers
  Kinds,            \* agent loops used: single (turn), tool
  Script,           \* per kind, what the model says, see above
  ResponseLengths,  \* the values of response_length considered
  Shuffles          \* how the workers may have shuffled server_handles

Servers == RolloutRanks
WorkerSet == ToSet(Workers)

ASSUME GenerationAssumption ==
  /\ Gens # {} /\ Servers # {}
  /\ Workers \in Seq(WorkerSet) /\ Workers # <<>>
  /\ Kinds \subseteq {"single", "tool"}
  /\ \A k \in Kinds : Script[k] \in Seq({"text", "open", "close", "end", "tool"})
  /\ ResponseLengths \subseteq Nat \ {0}
  /\ \A h \in Shuffles : \A w \in WorkerSet : h[w] \in Seq(Servers) /\ ToSet(h[w]) = Servers

(* An end is the last token; a call is closed only by a tool agent's model *)
(* that has opened one; a tool answers a call.                             *)
ASSUME ScriptAssumption ==
  \A a \in Kinds : \A k \in 1 .. Len(Script[a]) :
    /\ Script[a][k] = "end" => k = Len(Script[a])
    /\ Script[a][k] = "close" => a = "tool" /\ \E j \in 1 .. k - 1 : Script[a][j] = "open"
    /\ Script[a][k] = "tool" => /\ a = "tool" /\ k > 1
                               /\ Script[a][k - 1] \in {"close", "tool"}

VARIABLES
  kind,             \* which agent loop
  response_length,
  gpc,              \* where each generation is in its agent loop
  state,            \* AgentState of a tool agent
  ids,              \* tokens after the prompt, with their weights' versions
  mask,             \* response_mask
  logprobs,         \* response_logprobs: the position each one belongs to
  param_version_start,
  param_version_end,
  request,          \* on the server: its number, req_output, finished, event
  reply,            \* of generate_for_partial: tokens, is_cancel
  split,            \* history: a tool call was cut by an interruption
  cancellation_event,  \* of each worker
  server_paused,       \* paused, of each server
  handles,          \* server_handles as each worker shuffled them
  requests_sent,    \* weighted_serveres of each worker
  request_id_to_server,
  on_worker         \* the worker the sample is on

outputs == <<state, ids, mask, logprobs, param_version_start, param_version_end, split>>
routing == <<handles, requests_sent, request_id_to_server>>
generationVars == <<kind, response_length, gpc, outputs, request, reply,
                    cancellation_event, server_paused, routing, on_worker>>

NoServer == "none"
NoRequest == [server |-> NoServer, tokens |-> <<>>, finished |-> FALSE, stop |-> FALSE]
NoReply == [tokens |-> <<>>, is_cancel |-> FALSE]
Plan == Script[kind]
Prefix(s, n) == SubSeq(s, 1, IF Len(s) < n THEN Len(s) ELSE n)

(* extract_tool_calls: a call is found if its open and close are both in   *)
(* the tokens the parser is given.                                         *)
HasToolCall(tokens) == \E a, b \in DOMAIN tokens :
  a < b /\ Plan[tokens[a].pos] = "open" /\ Plan[tokens[b].pos] = "close"

(* The tool's response that follows the first k tokens.                    *)
ToolResponse(k) ==
  LET n == Cardinality({j \in k + 1 .. Len(Plan) :
                          \A i \in k + 1 .. j : Plan[i] = "tool"})
  IN  [j \in 1 .. n |-> [pos |-> k + j, versions |-> {}]]

GenerationInit ==
  /\ kind \in Kinds
  /\ response_length \in ResponseLengths
  /\ gpc = [g \in Gens |-> "waiting"]
  /\ state = [g \in Gens |-> "PENDING"]
  /\ ids = [g \in Gens |-> <<>>]
  /\ mask = [g \in Gens |-> <<>>]
  /\ logprobs = [g \in Gens |-> <<>>]
  /\ param_version_start = [g \in Gens |-> -1]
  /\ param_version_end = [g \in Gens |-> -1]
  /\ request = [g \in Gens |-> NoRequest]
  /\ reply = [g \in Gens |-> NoReply]
  /\ split = [g \in Gens |-> FALSE]
  /\ cancellation_event = [w \in WorkerSet |-> FALSE]
  /\ server_paused = [s \in Servers |-> FALSE]
  /\ handles \in Shuffles
  /\ requests_sent = [w \in WorkerSet |-> [s \in Servers |-> 0]]
  /\ request_id_to_server = [w \in WorkerSet |-> [g \in Gens |-> NoServer]]
  /\ on_worker = Workers[1]

-----------------------------------------------------------------------------
(* generate_sequences_no_post: the sample arrives at worker w with its     *)
(* partial outputs; every generation that is not complete starts a run.    *)
StartRuns(w, version) ==
  LET todo == {g \in Gens : gpc[g] = "waiting"} IN
  /\ on_worker' = w
  /\ gpc' = [g \in Gens |-> IF g \in todo THEN "loop" ELSE gpc[g]]
  /\ param_version_start' = [g \in Gens |-> IF param_version_start[g] = -1
                                            THEN version ELSE param_version_start[g]]
  /\ param_version_end' = [g \in Gens |-> IF g \in todo THEN version
                                          ELSE param_version_end[g]]
  /\ UNCHANGED <<kind, response_length, state, ids, mask, logprobs, request, reply,
                 split, cancellation_event, server_paused, routing>>

(* PartialToolAgentLoop._run_state_machine, top of the loop.               *)
Interrupted(g) ==
  /\ gpc[g] = "loop" /\ kind = "tool"
  /\ state[g] # "TERMINATED"
  /\ cancellation_event[on_worker]
  /\ gpc' = [gpc EXCEPT ![g] = "waiting"]
  /\ UNCHANGED <<kind, response_length, outputs, request, reply,
                 cancellation_event, server_paused, routing, on_worker>>

(* A run that is complete: its output is cut to response_length and is     *)
(* post-processed, which includes the call of the reward function.         *)
Terminated(g) ==
  /\ gpc[g] = "loop" /\ kind = "tool"
  /\ state[g] = "TERMINATED"
  /\ gpc' = [gpc EXCEPT ![g] = "scoring"]
  /\ ids' = [ids EXCEPT ![g] = Prefix(@, response_length)]
  /\ mask' = [mask EXCEPT ![g] = Prefix(@, response_length)]
  /\ logprobs' = [logprobs EXCEPT ![g] = Prefix(@, response_length)]
  /\ UNCHANGED <<kind, response_length, state, param_version_start,
                 param_version_end, request, reply, split, cancellation_event,
                 server_paused, routing, on_worker>>

MayContinue(g) == gpc[g] = "loop" /\ (kind = "tool" => ~cancellation_event[on_worker])

(* _handle_pending_state: the prompt is rendered.                          *)
Pending(g) ==
  /\ MayContinue(g) /\ kind = "tool" /\ state[g] = "PENDING"
  /\ state' = [state EXCEPT ![g] = "GENERATING"]
  /\ UNCHANGED <<kind, response_length, gpc, ids, mask, logprobs,
                 param_version_start, param_version_end, request, reply, split,
                 cancellation_event, server_paused, routing, on_worker>>

(* AsyncLLMServerManager._choose_server: the server of this request id, or *)
(* the one with the fewest requests so far, the first of those in the heap.*)
(* A single-turn run has a new request id each time.                       *)
Chosen(w, g) ==
  LET h == handles[w] IN
  IF request_id_to_server[w][g] # NoServer /\ kind = "tool"
  THEN request_id_to_server[w][g]
  ELSE h[CHOOSE k \in DOMAIN h : \A j \in DOMAIN h :
           \/ requests_sent[w][h[k]] < requests_sent[w][h[j]]
           \/ requests_sent[w][h[k]] = requests_sent[w][h[j]] /\ k <= j]

(* The run calls generate_for_partial.                                     *)
CallServer(g) ==
  LET w == on_worker
      s == Chosen(w, g)
      sticky == kind = "tool" /\ request_id_to_server[w][g] # NoServer
  IN
  /\ MayContinue(g)
  /\ kind = "tool" => state[g] = "GENERATING"
  /\ gpc' = [gpc EXCEPT ![g] = "called"]
  /\ request' = [request EXCEPT ![g] = [NoRequest EXCEPT !.server = s]]
  /\ requests_sent' = IF sticky THEN requests_sent
                      ELSE [requests_sent EXCEPT ![w][s] = @ + 1]
  /\ request_id_to_server' = IF kind = "tool"
                             THEN [request_id_to_server EXCEPT ![w][g] = s]
                             ELSE request_id_to_server
  /\ UNCHANGED <<kind, response_length, outputs, reply, cancellation_event,
                 server_paused, handles, on_worker>>

-----------------------------------------------------------------------------
(* vLLMHttpServerForPartial.generate_for_partial, up to asyncio.wait: a    *)
(* paused server answers at once, otherwise the request is registered.     *)
ServerAccepts(g) ==
  /\ gpc[g] = "called"
  /\ IF server_paused[request[g].server]
     THEN /\ gpc' = [gpc EXCEPT ![g] = "answered"]
          /\ reply' = [reply EXCEPT ![g] = [tokens |-> <<>>, is_cancel |-> TRUE]]
     ELSE gpc' = [gpc EXCEPT ![g] = "running"] /\ reply' = reply
  /\ UNCHANGED <<kind, response_length, outputs, request, cancellation_event,
                 server_paused, routing, on_worker>>

(* The engine's model steps and the loading of weights are run by one event*)
(* loop of the rank's process (_loop_forever), which the load does not give*)
(* back before it is over: a step sees the weights before it or after it.  *)
NotYetCalled(s) == tp[s] = "register" \/ (mode = "plain" /\ tp[s] = "broadcast" /\ gidx = 0)
Computes(s) == tp[s] = "idle" \/ NotYetCalled(s)

(* The engine computes the next token; the last one ends the request.      *)
EngineToken(g) ==
  LET r   == request[g]
      pos == Len(ids[g]) + Len(r.tokens) + 1
      tok == [pos |-> pos, versions |-> {model[r.server][p] : p \in Params}]
  IN
  /\ gpc[g] = "running" /\ ~r.finished
  /\ Computes(r.server)
  /\ pos <= Len(Plan)
  /\ request' = [request EXCEPT ![g].tokens = Append(@, tok),
                                ![g].finished = Plan[pos] \in {"close", "end"}]
  /\ UNCHANGED <<kind, response_length, gpc, outputs, reply, cancellation_event,
                 server_paused, routing, on_worker>>

(* asyncio.wait is over, because generation has ended or the event is set. *)
(* Cancelled means that generation_handle is not among the done; nothing   *)
(* in req_output is reported as cancelled with no tokens.                  *)
ServerReplies(g) ==
  LET r == request[g] IN
  /\ gpc[g] = "running"
  /\ r.finished \/ r.stop
  /\ gpc' = [gpc EXCEPT ![g] = "answered"]
  /\ reply' = [reply EXCEPT ![g] = [tokens |-> r.tokens, is_cancel |-> ~r.finished]]
  /\ UNCHANGED <<kind, response_length, outputs, request, cancellation_event,
                 server_paused, routing, on_worker>>

(* The new tokens, a mask of ones and their log-probabilities.             *)
Ones(n) == [k \in 1 .. n |-> 1]
Positions(tokens) == [k \in DOMAIN tokens |-> tokens[k].pos]

(* Mutant: the log-probabilities of the first part are not kept.           *)
SingleTurnForgetsLogprobs(g) ==
  LET all  == ids[g] \o reply[g].tokens
      stay == reply[g].is_cancel /\ Len(all) < response_length
  IN
  /\ gpc[g] = "answered" /\ kind = "single"
  /\ gpc' = [gpc EXCEPT ![g] = IF stay THEN "waiting" ELSE "scoring"]
  /\ ids' = [ids EXCEPT ![g] = Prefix(all, response_length)]
  /\ mask' = [mask EXCEPT ![g] = Prefix(Ones(Len(all)), response_length)]
  /\ logprobs' = [logprobs EXCEPT ![g] = Positions(reply[g].tokens)]
  /\ request' = [request EXCEPT ![g] = NoRequest]
  /\ reply' = [reply EXCEPT ![g] = NoReply]
  /\ UNCHANGED <<kind, response_length, state, param_version_start,
                 param_version_end, split, cancellation_event, server_paused,
                 routing, on_worker>>

(* PartialSingleTurnAgentLoop.run after the call: the tokens of all        *)
(* requests so far; a full response counts as not cancelled.               *)
SingleTurnAnswered(g) ==
  LET all  == ids[g] \o reply[g].tokens
      stay == reply[g].is_cancel /\ Len(all) < response_length
  IN
  /\ gpc[g] = "answered" /\ kind = "single"
  /\ gpc' = [gpc EXCEPT ![g] = IF stay THEN "waiting" ELSE "scoring"]
  /\ ids' = [ids EXCEPT ![g] = Prefix(all, response_length)]
  /\ mask' = [mask EXCEPT ![g] = Prefix(Ones(Len(all)), response_length)]
  /\ logprobs' = [logprobs EXCEPT ![g] =
                    Prefix(@ \o Positions(reply[g].tokens), response_length)]
  /\ request' = [request EXCEPT ![g] = NoRequest]
  /\ reply' = [reply EXCEPT ![g] = NoReply]
  /\ UNCHANGED <<kind, response_length, state, param_version_start,
                 param_version_end, split, cancellation_event, server_paused,
                 routing, on_worker>>

(* _handle_generating_state_partial after the call.  The tool parser sees  *)
(* only the tokens of this request.                                        *)
NextState(g, n) ==
  LET r == reply[g] IN
  CASE n >= response_length -> "TERMINATED"
    [] n < response_length /\ r.is_cancel -> "GENERATING"
    [] n < response_length /\ ~r.is_cancel /\ HasToolCall(r.tokens) -> "PROCESSING_TOOLS"
    [] OTHER -> "TERMINATED"

(* The model closes in this request a call opened in an earlier one.       *)
CallWasCut(all, new) == /\ new # <<>> /\ Plan[Last(new).pos] = "close"
                        /\ HasToolCall(all) /\ ~HasToolCall(new)

ToolAgentAnswered(g) ==
  LET new == reply[g].tokens
      all == ids[g] \o new
  IN
  /\ gpc[g] = "answered" /\ kind = "tool"
  /\ gpc' = [gpc EXCEPT ![g] = "loop"]
  /\ ids' = [ids EXCEPT ![g] = all]
  /\ mask' = [mask EXCEPT ![g] = @ \o Ones(Len(new))]
  /\ logprobs' = [logprobs EXCEPT ![g] = @ \o Positions(new)]
  /\ state' = [state EXCEPT ![g] = NextState(g, Len(mask[g]) + Len(new))]
  /\ split' = [split EXCEPT ![g] = @ \/ CallWasCut(all, new)]
  /\ request' = [request EXCEPT ![g] = NoRequest]
  /\ reply' = [reply EXCEPT ![g] = NoReply]
  /\ UNCHANGED <<kind, response_length, param_version_start, param_version_end,
                 cancellation_event, server_paused, routing, on_worker>>

(* _handle_processing_tools_state, in two steps: the call of the tool, and *)
(* its response, which is appended unless it would fill the response.      *)
CallTool(g) ==
  /\ MayContinue(g) /\ kind = "tool" /\ state[g] = "PROCESSING_TOOLS"
  /\ gpc' = [gpc EXCEPT ![g] = "tools"]
  /\ UNCHANGED <<kind, response_length, outputs, request, reply,
                 cancellation_event, server_paused, routing, on_worker>>

ToolReturns(g) ==
  LET t    == ToolResponse(Len(ids[g]))
      fits == Len(mask[g]) + Len(t) < response_length
  IN
  /\ gpc[g] = "tools"
  /\ gpc' = [gpc EXCEPT ![g] = "loop"]
  /\ state' = [state EXCEPT ![g] = IF fits THEN "GENERATING" ELSE "TERMINATED"]
  /\ ids' = IF fits THEN [ids EXCEPT ![g] = @ \o t] ELSE ids
  /\ mask' = IF fits THEN [mask EXCEPT ![g] = @ \o [k \in DOMAIN t |-> 0]] ELSE mask
  /\ logprobs' = IF fits /\ logprobs[g] # <<>>
                 THEN [logprobs EXCEPT ![g] = @ \o Positions(t)] ELSE logprobs
  /\ UNCHANGED <<kind, response_length, param_version_start, param_version_end,
                 request, reply, split, cancellation_event, server_paused,
                 routing, on_worker>>

(* The rest of _agent_loop_postprocess: the reward has come back.          *)
Scored(g) ==
  /\ gpc[g] = "scoring"
  /\ gpc' = [gpc EXCEPT ![g] = "completed"]
  /\ UNCHANGED <<kind, response_length, outputs, request, reply,
                 cancellation_event, server_paused, routing, on_worker>>

-----------------------------------------------------------------------------
(* cancel and resume of a server, cancel_agent_loops and                   *)
(* resume_agent_loops of a worker.                                         *)

CancelServer(s) ==
  /\ server_paused' = [server_paused EXCEPT ![s] = TRUE]
  /\ request' = [g \in Gens |->
                   IF gpc[g] = "running" /\ request[g].server = s
                   THEN [request[g] EXCEPT !.stop = TRUE] ELSE request[g]]
  /\ UNCHANGED <<kind, response_length, gpc, outputs, reply, cancellation_event,
                 routing, on_worker>>

ResumeServer(s) ==
  /\ server_paused' = [server_paused EXCEPT ![s] = FALSE]
  /\ UNCHANGED <<kind, response_length, gpc, outputs, request, reply,
                 cancellation_event, routing, on_worker>>

CancelAgentLoops(w) ==
  /\ cancellation_event' = [cancellation_event EXCEPT ![w] = TRUE]
  /\ UNCHANGED <<kind, response_length, gpc, outputs, request, reply,
                 server_paused, routing, on_worker>>

ResumeAgentLoops(w) ==
  /\ cancellation_event' = [cancellation_event EXCEPT ![w] = FALSE]
  /\ UNCHANGED <<kind, response_length, gpc, outputs, request, reply,
                 server_paused, routing, on_worker>>

GenerationStep(g) ==
  \/ Interrupted(g)
  \/ Terminated(g)
  \/ Pending(g)
  \/ CallServer(g)
  \/ ServerAccepts(g)
  \/ EngineToken(g)
  \/ ServerReplies(g)
  \/ SingleTurnAnswered(g)
  \/ ToolAgentAnswered(g)
  \/ CallTool(g)
  \/ ToolReturns(g)
  \/ Scored(g)
=============================================================================
