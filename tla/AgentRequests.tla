----------------------------- MODULE AgentRequests -----------------------------
(***************************************************************************)
(* What an agent asks of the gateway: AgentBuilder (agent/builder.rs), the *)
(* requests that Agent::chat and the StreamExecutor of Agent::chat_stream  *)
(* build (agent/core.rs, stream/executor.rs, tensorzero/src/request.rs),   *)
(* the tools they run for the answers, and what the thread keeps of both.  *)
(*                                                                         *)
(* One agent, one thread, one call at a time: calls that overlap share     *)
(* only the tables, which AgentChat models.  Tools may be registered while *)
(* a stream runs: its task works with a clone of the registry, and only    *)
(* chat borrows the agent.                                                 *)
(***************************************************************************)
EXTENDS ContextFilter, Conversion

CONSTANTS Targets,        \* the names [kind, name] for function or model
          Values,         \* the arguments of each setter in Fields
          Tools,          \* the tools that may be registered
          Shapes,         \* the tool calls of a response, id yet to be given
          Texts,          \* the texts of a response
          UserContents,   \* the blocks of what a person writes
          Usages,         \* the usage of a response, None if it has none
          MaxIterations,  \* Agent.max_iterations
          MaxBatch,       \* bound: tool calls in one response
          MaxToolCalls,   \* bound: tool calls in the thread
          MaxOps,         \* bound: setters, registrations and calls
          Width           \* the number of values of a u32

\* The setters of AgentBuilder besides those of the name and the tools; buffer is
\* the buffer_size of stream_settings.
Fields == {"system", "credentials", "tags", "choice", "parallel", "context", "buffer"}

ASSUME RequestBounds == /\ DOMAIN Values = Fields
                        /\ MaxIterations \in Nat /\ MaxBatch \in Nat
                        /\ MaxToolCalls \in Nat /\ MaxOps \in Nat
                        /\ Width \in Nat \ {0}
                        /\ Usages \subseteq (0..Width - 1) \union {None}
                        /\ Texts \subseteq Seq(STRING)
                        /\ \A tc \in Shapes :
                             DOMAIN tc = {"id", "name", "raw", "args", "rawArgs"}
                        /\ \A content \in UserContents :
                             /\ content \in Seq(Range(content))
                             /\ \A i \in DOMAIN content :
                                  content[i].type \in {"text", "image", "file"}
                        /\ \A t \in Tools : t.says \in {"nothing", "context", "other"}
                        /\ \A cfg \in Values.context : cfg.max \in Nat

VARIABLES
  settings,   \* the fields of the builder, and then of the agent
  target,     \* its function_name or model_name
  registry,   \* its tools
  told,       \* history: the last argument of each setter
  ops,        \* the number of operations so far
  thread,     \* the messages of the thread
  pc,         \* the await the call is suspended at
  mode,       \* "chat" or "stream"
  tools,      \* the registry the call works with
  input,      \* the local `messages` of chat_loop and execute_loop
  iteration,  \* the local `iteration`
  request,    \* the last request sent by the call
  calls,      \* the tool calls of the response in hand
  results,    \* their results so far
  usage,      \* the local total_usage
  truth,      \* history: the sum that usage stands for
  reply       \* the ChatResponse: its usage, and the sum it stands for

agentVars == <<settings, target, registry, told>>
loopVars == <<input, iteration, calls, results>>
usageVars == <<usage, truth, reply>>
vars == <<agentVars, ops, thread, pc, mode, tools, loopVars, request, usageVars>>

Count == /\ ops < MaxOps
         /\ ops' = ops + 1

Init == /\ settings = [f \in Fields |-> None] /\ target = None /\ registry = <<>>
        /\ told = [f \in Fields \union {"target"} |-> None]
        /\ ops = 0 /\ thread = <<>> /\ pc = "building" /\ mode = "chat"
        /\ tools = <<>> /\ input = <<>> /\ iteration = 0 /\ request = None
        /\ calls = <<>> /\ results = <<>>
        /\ usage = 0 /\ truth = 0 /\ reply = None

-----------------------------------------------------------------------------
(* The builder and its agent. *)

Tell(f, v) == told' = [told EXCEPT ![f] = v]

\* The setters that take and give back the same builder.
Configure == /\ pc = "building" /\ Count
             /\ \E f \in Fields : \E v \in Values[f] :
                  /\ settings' = [settings EXCEPT ![f] = v]
                  /\ Tell(f, v)
             /\ UNCHANGED <<target, registry, thread, pc, mode, tools, loopVars, request,
                            usageVars>>

\* Slip: one field is not copied into the new builder.
NameTargetForgetful ==
  /\ pc = "building" /\ target = None
  /\ \E t \in Targets : target' = t /\ Tell("target", t)
  /\ settings' = [settings EXCEPT !.parallel = None]
  /\ UNCHANGED <<registry, ops, thread, pc, mode, tools, loopVars, request, usageVars>>

\* function_name and model_name: a builder of another type, every field copied.
\* (The client and the storage are set in the same way, and are not modelled.)
NameTarget ==
  /\ pc = "building" /\ target = None
  /\ \E t \in Targets : target' = t /\ Tell("target", t)
  /\ UNCHANGED <<settings, registry, ops, thread, pc, mode, tools, loopVars, request,
                 usageVars>>

\* build: an empty name is refused.
Build == /\ pc = "building" /\ target # None
         /\ pc' = IF target.name = Blank THEN "rejected" ELSE "idle"
         /\ UNCHANGED <<agentVars, ops, thread, mode, tools, loopVars, request, usageVars>>

\* AgentBuilder::tools: a registry takes the place of the one before.
GiveTools == /\ pc = "building" /\ Count
             /\ \E t \in Tools : registry' = Register(<<>>, t)
             /\ UNCHANGED <<settings, target, told, thread, pc, mode, tools, loopVars,
                            request, usageVars>>

\* A tool is registered with tools_mut, which needs the agent to itself.
AddTool == /\ pc = "idle" \/ (mode = "stream" /\ pc \notin {"building", "rejected"})
           /\ Count
           /\ \E t \in Tools : registry' = Register(registry, t)
           /\ UNCHANGED <<settings, target, told, thread, pc, mode, tools, loopVars,
                          request, usageVars>>

-----------------------------------------------------------------------------
(* The requests.  A field that is absent is None; absent tools are <<>>. *)

Named(kind) == IF target.kind = kind THEN target.name ELSE None

\* Agent::build_inference_request.
ChatRequest ==
  [function |-> Named("function"), model |-> Named("model"),
   messages |-> input, system |-> settings.system, credentials |-> settings.credentials,
   tags |-> settings.tags, tools |-> Definitions(tools),
   choice |-> IF tools = <<>> THEN None ELSE OrElse(settings.choice, "auto"),
   parallel |-> settings.parallel, stream |-> FALSE]

\* The request of StreamExecutor::execute_loop: chat_stream has given the
\* executor the name, the registry, the budget and the context configuration.
StreamRequest ==
  [function |-> target.name, model |-> None,
   messages |-> input, system |-> None, credentials |-> None, tags |-> None,
   tools |-> Definitions(tools), choice |-> IF tools = <<>> THEN None ELSE "auto",
   parallel |-> None, stream |-> TRUE]

\* The head of the loop: the next iteration, or the end of the budget.
NextIteration(n) == /\ iteration' = n + 1
                    /\ pc' = IF n + 1 > MaxIterations THEN "idle" ELSE "infer"

\* A message is stored, or the statement fails (with or without effect) and
\* ends the call.
Stores(m) == thread' = Append(thread, m)
StoreFails(m) == /\ thread' \in {thread, Append(thread, m)}
                 /\ pc' = "idle"

\* Slip: the task of a stream shares the registry of the agent.
ToolsInForceShared == IF mode = "stream" THEN registry ELSE tools

\* The registry a call works with when it runs a tool.
ToolsInForce == tools

\* chat or chat_stream is called, on a thread that exists.  A channel without
\* room makes mpsc::channel panic before anything is stored.
Begin == /\ pc = "idle" /\ Count
         /\ \E m \in {"chat", "stream"}, content \in UserContents :
              /\ mode' = m
              /\ tools' = registry
              /\ IF m = "stream" /\ settings.buffer = 0
                   THEN UNCHANGED <<thread, pc>>
                   ELSE LET user == [role |-> "user", blocks |-> content]
                        IN StoreFails(user) \/ (Stores(user) /\ pc' = "load")
         /\ input' = <<>> /\ iteration' = 0 /\ calls' = <<>> /\ results' = <<>>
         /\ request' = None /\ usage' = 0 /\ truth' = 0 /\ reply' = None
         /\ UNCHANGED agentVars

\* Agent::filter_context_messages; the executor filters like the first iteration.
FilterContextMessages(ms, isLoop) ==
  IF settings.context = None THEN ms
  ELSE FilterMessages(ms, IF isLoop THEN OrElse(settings.context.loop, settings.context)
                                    ELSE settings.context)

\* The history is loaded, filtered and converted.
Load == /\ pc = "load"
        /\ input' = ConvertMessagesToInput(FilterContextMessages(thread, FALSE))
        /\ NextIteration(0)
        /\ UNCHANGED <<agentVars, ops, thread, mode, tools, calls, results, request,
                       usageVars>>

\* Slip: later iterations filter the thread again.
SendRequestRefiltered ==
  /\ pc = "infer"
  /\ pc' = "answer"
  /\ input' = IF iteration = 1 THEN input
              ELSE ConvertMessagesToInput(FilterContextMessages(thread, TRUE))
  /\ request' = [(IF mode = "chat" THEN ChatRequest ELSE StreamRequest)
                   EXCEPT !.messages = input']
  /\ UNCHANGED <<agentVars, ops, thread, mode, tools, iteration, calls, results, usageVars>>

\* The request is built and sent; every iteration sends all of the messages.
SendRequest ==
  /\ pc = "infer"
  /\ pc' = "answer"
  /\ request' = IF mode = "chat" THEN ChatRequest ELSE StreamRequest
  /\ UNCHANGED <<agentVars, ops, thread, mode, tools, loopVars, usageVars>>

ToolCallsIn(ms) == LET uses(i) == SelectSeq(ms[i].blocks, IsUse)
                   IN Len(FlattenSeq([i \in DOMAIN ms |-> uses(i)]))

\* A response: texts and tool calls, each call with an id of its own.
Responses ==
  LET room == MaxToolCalls - ToolCallsIn(thread)
      Batches == UNION {[1..n -> Shapes] : n \in {k \in 0..MaxBatch : k <= room}}
      WithIds(shapes) == [i \in DOMAIN shapes |->
                            [shapes[i] EXCEPT !.id = <<Len(thread), i>>]]
  IN {[texts |-> t, calls |-> WithIds(b)] : t \in Texts, b \in Batches}

\* What the call makes of a response: a stream is put together from its parts.
Received(r) == IF mode = "chat" THEN r
               ELSE [r EXCEPT !.calls = [i \in DOMAIN @ |-> Streamed(@[i])]]

\* Slip: the usage of the last response only.
AddUsageLast(u) == /\ usage' = IF u = None THEN usage ELSE u
                   /\ truth' = IF u = None THEN truth ELSE truth + u

\* total_usage += response.usage, in u32.  (A build with overflow checks panics
\* instead of wrapping: see Fail.)
AddUsage(u) == /\ usage' = IF u = None THEN usage ELSE (usage + u) % Width
               /\ truth' = IF u = None THEN truth ELSE truth + u

\* The gateway has answered and the assistant message is stored: the end of the
\* call, or tools to run.
Answer ==
  /\ pc = "answer"
  /\ \E response \in Responses :
       LET r == Received(response)
           stored == StoredResponse(r)
       IN \/ StoreFails(stored) /\ UNCHANGED <<loopVars, usageVars>>
          \/ /\ Stores(stored)
             /\ IF mode = "chat" THEN \E u \in Usages : AddUsage(u)
                                 ELSE UNCHANGED <<usage, truth>>
             /\ IF r.calls = <<>>
                  THEN /\ pc' = "idle"
                       /\ reply' = IF mode = "chat" THEN [usage |-> usage', truth |-> truth']
                                                    ELSE None
                       /\ UNCHANGED loopVars
                  ELSE /\ pc' = "tools"
                       /\ input' = Append(input, SentResponse(r))
                       /\ calls' = r.calls /\ results' = <<>>
                       /\ UNCHANGED <<iteration, reply>>
  /\ UNCHANGED <<agentVars, ops, mode, tools, request>>

\* One tool call is answered, in the order of the response.
RunTool ==
  /\ pc = "tools"
  /\ LET tc == calls[Len(results) + 1]
         args == IF mode = "chat" THEN ParseArguments(tc) ELSE Parse(ArgumentsString(tc))
         result == RunByName(ToolsInForce, tc.id, ToolName(tc))
     IN results' = Append(results, [id |-> result.id, name |-> result.name,
                                    fn |-> result.fn, error |-> result.error,
                                    args |-> args])
  /\ pc' = IF Len(results') = Len(calls) THEN "save" ELSE "tools"
  /\ UNCHANGED <<agentVars, ops, thread, mode, tools, input, iteration, calls, request,
                 usageVars>>

\* The results are stored and added to what the next request sends.
SaveResults ==
  /\ pc = "save"
  /\ \/ StoreFails(StoredResults(results)) /\ UNCHANGED <<input, iteration>>
     \/ /\ Stores(StoredResults(results))
        /\ NextIteration(iteration)
        /\ input' = input \o SentResults(results)
  /\ UNCHANGED <<agentVars, ops, mode, tools, calls, results, request, usageVars>>

\* The history cannot be read, the request fails, or total_usage overflows in a
\* build that checks it: the call ends with nothing stored.
Fail == /\ pc \in {"load", "answer"}
        /\ pc' = "idle"
        /\ UNCHANGED <<agentVars, ops, thread, mode, tools, loopVars, request, usageVars>>

Next == \/ Configure \/ GiveTools \/ NameTarget \/ Build \/ AddTool
        \/ Begin \/ Load \/ SendRequest \/ Answer \/ RunTool \/ SaveResults \/ Fail

Spec == Init /\ [][Next]_vars

-----------------------------------------------------------------------------
(* Properties. *)

\* Every variable has its shape; the registry a call works with is the beginning
\* of the agent's, and it has no more results than calls.
TypeOK ==
  /\ settings = [f \in Fields |-> settings[f]]
  /\ \A f \in Fields : settings[f] \in Values[f] \union {None}
  /\ target \in Targets \union {None}
  /\ registry \in Seq(Tools) /\ tools = SubSeq(registry, 1, Len(tools))
  /\ ops \in 0..MaxOps
  /\ pc \in {"building", "rejected", "idle", "load", "infer", "answer", "tools", "save"}
  /\ mode \in {"chat", "stream"}
  /\ iteration \in 0..MaxIterations + 1
  /\ Len(results) <= Len(calls)
  /\ usage \in 0..Width - 1 /\ truth \in Nat

\* What the builder was told last is what a request of chat carries, whichever
\* way the setters were called: the field copied by hand from one builder type to
\* the next and the ones handed on by build_inference_request are all there.
\* (builder.rs, function_name and model_name; core.rs, build_inference_request)
SettingsReachGateway ==
  request # None /\ mode = "chat" =>
    /\ \A f \in {"system", "credentials", "tags", "parallel"} : request[f] = told[f]
    /\ request.choice = IF request.tools = <<>> THEN None ELSE OrElse(told.choice, "auto")
    /\ \A kind \in {"function", "model"} :
         request[kind] = IF kind = told.target.kind THEN told.target.name ELSE None

\* Within a call the gateway is shown the same conversation as in every later
\* call: what the loop adds to its own messages, with code of its own, is what
\* reading the stored messages back and converting them gives.
\* (core.rs, chat_loop and response_to_input_message; convert.rs)
Flat(ms) ==
  FlattenSeq([i \in DOMAIN ms |->
                [j \in DOMAIN ms[i].blocks |-> <<ms[i].role, ms[i].blocks[j]>>]])
LoopAgreesWithHistory ==
  pc \in {"infer", "answer", "tools", "save"} /\ settings.context = None =>
    Flat(ConvertMessagesToInput(thread)) = Flat(input)

\* A tool call runs the first tool that was offered under its name, whatever was
\* registered since the request, and none if none was offered.
\* (core.rs, execute_tools and tools_mut; tools/executor.rs, get)
RunsWhatWasOffered ==
  pc \in {"tools", "save"} =>
    \A i \in DOMAIN results :
      LET Offered == {k \in DOMAIN request.tools :
                        request.tools[k].name = ToolName(calls[i])}
      IN IF Offered = {} THEN results[i].error
         ELSE results[i].fn = request.tools[CHOOSE k \in Offered :
                                              \A l \in Offered : k <= l].fn

\* A result that is sent answers, by id and name, exactly one tool call that is
\* sent before it, unless the tool itself wrote another id or none at all.
\* (tools/executor.rs, simple; core.rs, tool_results_to_message)
ResultsAnswerCalls ==
  request # None =>
    \A i \in DOMAIN request.messages : \A j \in DOMAIN request.messages[i].blocks :
      LET result == request.messages[i].blocks[j]
          Asked == UNION {{<<k, l>> : l \in {m \in DOMAIN request.messages[k].blocks :
                             LET b == request.messages[k].blocks[m]
                             IN IsUse(b) /\ b.id = result.id /\ b.name = result.name}} :
                          k \in 1..i - 1}
      IN IsResult(result) =>
           \/ Cardinality(Asked) = 1
           \/ \E t \in Tools : Careless(t) /\ t.fn = result.body

\* A tool is called with the arguments that the thread records for its call,
\* though each is derived from the response on its own.
\* (executor.rs, execute_tools and response_content_to_message_content; core.rs)
RecordedArgumentsWereUsed ==
  \A i \in DOMAIN results :
    \E k \in DOMAIN thread : \E l \in DOMAIN thread[k].blocks :
      LET b == thread[k].blocks[l]
      IN IsUse(b) /\ b.id = calls[i].id /\ b.body = results[i].args

\* The usage that chat returns is the sum over the responses of the call, or that
\* sum does not fit into the u32 it is added in.
\* (core.rs, chat_loop)
UsageIsTotal ==
  reply # None => reply.usage = reply.truth \/ reply.truth >= Width

\* Within a call each request repeats the one before and adds to it the reply and
\* one message for each of its tool calls, whatever the filter is configured to.
\* (core.rs, chat_loop; executor.rs, execute_loop)
RequestsGrow ==
  [][request # None /\ request' \notin {None, request} =>
       /\ IsPrefix(request.messages, request'.messages)
       /\ Len(request'.messages) = Len(request.messages) + 1 + Len(calls)]_vars

\* builder.rs says of system_prompt: "This overrides any system prompt configured
\* in the TensorZero function."
SystemPromptOverrides ==
  request # None /\ told.system # None => request.system = told.system
=============================================================================
