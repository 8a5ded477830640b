------------------------- MODULE AgentRequestsProofs -------------------------
(* Theorems about AgentRequests, for every value of its constants. *)
EXTENDS AgentRequests, SequenceFacts, TLAPS

-----------------------------------------------------------------------------
(* What the builder was told reaches the gateway. *)

\* The fields of the builder are what it was told, and no request is sent while
\* it can still be told something else.
SettingsAreTold ==
  /\ settings = [f \in Fields |-> settings[f]]
  /\ told = [f \in Fields \union {"target"} |-> told[f]]
  /\ \A f \in Fields : settings[f] = told[f]
  /\ told["target"] = target
  /\ pc = "building" => request = None

\* The builder's setters keep the fields and what they were told in step.
LEMMA ToldStep == SettingsAreTold /\ [Next]_vars => SettingsAreTold'
<1> SUFFICES ASSUME SettingsAreTold, [Next]_vars PROVE SettingsAreTold'
  OBVIOUS
<1> USE DEF SettingsAreTold
<1>1. CASE Configure
  <2>1. PICK f \in Fields : \E v \in Values[f] :
          settings' = [settings EXCEPT ![f] = v] /\ Tell(f, v)
    BY <1>1 DEF Configure
  <2>2. PICK v \in Values[f] : settings' = [settings EXCEPT ![f] = v] /\ Tell(f, v)
    BY <2>1
  <2>3. f # "target"
    BY DEF Fields
  <2>4. UNCHANGED <<target, pc, request>>
    BY <1>1 DEF Configure, usageVars
  <2> QED BY <2>2, <2>3, <2>4 DEF Tell
<1>2. CASE NameTarget
  <2>1. PICK t \in Targets : target' = t /\ Tell("target", t)
    BY <1>2 DEF NameTarget
  <2>2. \A f \in Fields : f # "target"
    BY DEF Fields
  <2>3. UNCHANGED <<settings, pc, request>>
    BY <1>2 DEF NameTarget, usageVars
  <2> QED BY <2>1, <2>2, <2>3 DEF Tell
<1>3. CASE Build
  BY <1>3 DEF Build, agentVars
<1>4. CASE GiveTools \/ AddTool
  BY <1>4 DEF GiveTools, AddTool
<1>5. CASE Begin
  BY <1>5 DEF Begin, agentVars
<1>6. CASE Load
  BY <1>6 DEF Load, NextIteration, agentVars
<1>7. CASE SendRequest
  BY <1>7 DEF SendRequest, agentVars
<1>8. CASE Answer
  BY <1>8 DEF Answer, StoreFails, agentVars
<1>9. CASE RunTool
  BY <1>9 DEF RunTool, agentVars
<1>10. CASE SaveResults
  BY <1>10 DEF SaveResults, StoreFails, NextIteration, agentVars
<1>11. CASE Fail
  BY <1>11 DEF Fail, agentVars
<1>12. CASE UNCHANGED vars
  BY <1>12 DEF vars, agentVars
<1> QED BY <1>1, <1>2, <1>3, <1>4, <1>5, <1>6, <1>7, <1>8, <1>9, <1>10, <1>11, <1>12
        DEF Next

\* A request of chat, as it is built, carries what the agent was told.
LEMMA RequestAsTold ==
  ASSUME SettingsAreTold, SendRequest
  PROVE  SettingsReachGateway'
<1> SUFFICES ASSUME mode' = "chat"
             PROVE  SettingsReachGateway'
  BY DEF SettingsReachGateway
<1>1. request' = ChatRequest /\ UNCHANGED <<settings, target, told, tools>>
  BY DEF SendRequest, agentVars
<1>2. \A f \in {"system", "credentials", "tags", "parallel"} :
        f \in Fields /\ ChatRequest[f] = settings[f]
  BY DEF ChatRequest, Fields
<1>3. settings.choice = told.choice
  BY DEF SettingsAreTold, Fields
<1>4. tools = <<>> <=> Definitions(tools) = <<>>
  BY DEF Definitions
<1>5. \A kind \in {"function", "model"} : ChatRequest[kind] = Named(kind)
  BY DEF ChatRequest
<1> QED BY <1>1, <1>2, <1>3, <1>4, <1>5
        DEF SettingsAreTold, SettingsReachGateway, ChatRequest, Named

\* Every request of a call of chat carries what the builder was told last.
THEOREM SettingsArrive == Spec => []SettingsReachGateway
<1> DEFINE Inv == SettingsAreTold /\ SettingsReachGateway
<1>1. Init => Inv
  BY DEF Init, SettingsAreTold, SettingsReachGateway
<1>2. Inv /\ [Next]_vars => Inv'
  <2> SUFFICES ASSUME Inv, [Next]_vars PROVE SettingsReachGateway'
    BY ToldStep
  <2>1. CASE SendRequest
    BY <2>1, RequestAsTold
  <2>2. CASE Configure \/ NameTarget
    BY <2>2 DEF Configure, NameTarget, SettingsAreTold, SettingsReachGateway
  <2>3. CASE Begin
    BY <2>3 DEF Begin, SettingsReachGateway
  <2>4. CASE UNCHANGED <<request, mode, told>>
    BY <2>4 DEF SettingsReachGateway
  <2> QED BY <2>1, <2>2, <2>3, <2>4
          DEF Next, vars, agentVars, Build, GiveTools, AddTool, Load, Answer, RunTool,
              SaveResults, Fail
<1> QED BY <1>1, <1>2, PTL DEF Spec

-----------------------------------------------------------------------------
(* The usage of a call. *)

\* The running sum is right as long as it fits.
RunningSum == /\ usage \in 0..Width - 1 /\ truth \in Nat
              /\ usage = truth \/ truth >= Width
              /\ UsageIsTotal

\* A sum that fits is not changed by the wrap.
LEMMA Unwrapped == ASSUME NEW w \in Nat \ {0}, NEW n \in Nat
                   PROVE  n % w \in 0..w - 1 /\ (n < w => n % w = n)
OBVIOUS

\* One response is added to the sum.
LEMMA SumStep == ASSUME RunningSum, NEW u \in Usages, AddUsage(u)
                 PROVE  /\ usage' \in 0..Width - 1 /\ truth' \in Nat
                        /\ usage' = truth' \/ truth' >= Width
<1> USE RequestBounds
<1>1. CASE u = None
  BY <1>1 DEF AddUsage, RunningSum
<1>2. CASE u # None
  <2>1. u \in 0..Width - 1 /\ Width \in Nat \ {0}
    BY <1>2
  <2>2. usage' = (usage + u) % Width /\ truth' = truth + u
    BY <1>2 DEF AddUsage
  <2>3. usage + u \in Nat
    BY <2>1 DEF RunningSum
  <2>4. usage' \in 0..Width - 1 /\ (usage + u < Width => usage' = usage + u)
    BY <2>1, <2>2, <2>3, Unwrapped
  <2> QED BY <2>1, <2>2, <2>4 DEF RunningSum
<1> QED BY <1>1, <1>2

\* Only an answer adds to the sum.
LEMMA SumInvariant == RunningSum /\ [Next]_vars => RunningSum'
<1> SUFFICES ASSUME RunningSum, [Next]_vars PROVE RunningSum'
  OBVIOUS
<1>1. CASE Begin
  BY <1>1, RequestBounds DEF Begin, RunningSum, UsageIsTotal
<1>2. CASE Answer
  <2>1. CASE UNCHANGED usageVars
    BY <2>1 DEF RunningSum, UsageIsTotal, usageVars
  <2>2. CASE ~ UNCHANGED usageVars
    <3>1. PICK r \in Responses :
            /\ \/ mode = "chat" /\ \E u \in Usages : AddUsage(u)
               \/ mode # "chat" /\ UNCHANGED <<usage, truth>>
            /\ \/ reply' = IF mode = "chat" THEN [usage |-> usage', truth |-> truth']
                                            ELSE None
               \/ UNCHANGED reply
      BY <1>2, <2>2 DEF Answer
    <3>2. /\ usage' \in 0..Width - 1 /\ truth' \in Nat
          /\ usage' = truth' \/ truth' >= Width
      BY <3>1, SumStep DEF RunningSum
    <3>3. UsageIsTotal'
      BY <3>1, <3>2 DEF RunningSum, UsageIsTotal
    <3> QED BY <3>2, <3>3 DEF RunningSum
  <2> QED BY <2>1, <2>2
<1>3. CASE UNCHANGED usageVars
  BY <1>3 DEF RunningSum, UsageIsTotal, usageVars
<1> QED BY <1>1, <1>2, <1>3
        DEF Next, vars, Configure, NameTarget, Build, GiveTools, AddTool, Load,
            SendRequest, RunTool, SaveResults, Fail

\* The sum is zero before the first response.
LEMMA SumInit == Init => RunningSum
BY RequestBounds DEF Init, RunningSum, UsageIsTotal

\* The usage that chat returns is right whenever it fits into a u32.
THEOREM UsageCorrect == Spec => []UsageIsTotal
<1>1. RunningSum => UsageIsTotal
  BY DEF RunningSum
<1> QED BY <1>1, SumInit, SumInvariant, PTL DEF Spec

-----------------------------------------------------------------------------
(* The tools that run. *)

\* The places of the tools of a name, and the first of them.
Same(ts, name) == {k \in DOMAIN ts : ts[k].name = name}
FirstOf(K) == CHOOSE k \in K : \A l \in K : k <= l

\* The first of some places is one of them.
LEMMA FirstIsIn == ASSUME NEW K, K \subseteq Nat, K # {}
                   PROVE  FirstOf(K) \in K
BY LeastExists DEF FirstOf

\* Get finds the first tool of a name.
LEMMA GetFirst ==
  ASSUME NEW ts, NEW name, DOMAIN ts = 1..Len(ts)
  PROVE  Get(ts, name) = IF Same(ts, name) = {} THEN 0 ELSE FirstOf(Same(ts, name))
BY DEF Get, SelectInSeq, Min, Same, FirstOf

\* A tool keeps the mark of its function, whoever fills in the rest.
LEMMA ExecuteKeepsFn == ASSUME NEW tool, NEW id, NEW name
                        PROVE  Execute(tool, id, name).fn = tool.fn
BY DEF Execute, Filled, Called

\* What a tool call gets: the function of the first tool of its name, or an error.
LEMMA RunsFirst ==
  ASSUME NEW ts, NEW id, NEW name, DOMAIN ts = 1..Len(ts), Len(ts) \in Nat
  PROVE  IF Same(ts, name) = {} THEN RunByName(ts, id, name).error
         ELSE RunByName(ts, id, name).fn = ts[FirstOf(Same(ts, name))].fn
<1>1. CASE Same(ts, name) = {}
  <2>1. RunByName(ts, id, name) = NotFound(id, name)
    BY <1>1, GetFirst DEF RunByName
  <2> QED BY <1>1, <2>1 DEF NotFound
<1>2. CASE Same(ts, name) # {}
  <2>1. Same(ts, name) \subseteq 1..Len(ts)
    BY DEF Same
  <2>2. FirstOf(Same(ts, name)) \in 1..Len(ts)
    BY <1>2, <2>1, FirstIsIn
  <2>3. Get(ts, name) = FirstOf(Same(ts, name)) /\ FirstOf(Same(ts, name)) # 0
    BY <1>2, <2>2, GetFirst
  <2>4. RunByName(ts, id, name) = Execute(ts[FirstOf(Same(ts, name))], id, name)
    BY <2>3 DEF RunByName
  <2> QED BY <1>2, <2>4, ExecuteKeepsFn
<1> QED BY <1>1, <1>2

\* A call between a request and its last tool works with the tools it offered.
ToolsAreOffered ==
  /\ IsSeq(registry) /\ IsSeq(tools) /\ IsSeq(results)
  /\ pc \in {"answer", "tools", "save"} => request.tools = Definitions(tools)
  /\ RunsWhatWasOffered

\* A result is what RunByName gives for its call.
Right(offered, result, tc) ==
  IF Same(offered, ToolName(tc)) = {} THEN result.error
  ELSE result.fn = offered[FirstOf(Same(offered, ToolName(tc)))].fn

\* A tool that runs is one that was offered.
LEMMA RunToolOffered == ASSUME ToolsAreOffered, RunTool
                        PROVE  ToolsAreOffered'
<1> DEFINE tc == calls[Len(results) + 1]
           result == RunByName(tools, tc.id, ToolName(tc))
           args == IF mode = "chat" THEN ParseArguments(tc) ELSE Parse(ArgumentsString(tc))
           added == [id |-> result.id, name |-> result.name, fn |-> result.fn,
                     error |-> result.error, args |-> args]
<1>1. /\ results' = Append(results, added)
      /\ pc = "tools" /\ UNCHANGED <<registry, tools, calls, request>>
  BY DEF RunTool, ToolsInForce, agentVars
<1>2. added.fn = result.fn /\ added.error = result.error
  OBVIOUS
<1>3. request.tools = Definitions(tools)
  BY <1>1 DEF ToolsAreOffered
<1>4. Right(request.tools, added, tc)
  <2>1. DOMAIN tools = 1..Len(tools) /\ Len(tools) \in Nat
    BY AppendIsSeq DEF ToolsAreOffered
  <2>2. \A name : /\ Same(request.tools, name) = Same(tools, name)
                  /\ \A k \in DOMAIN tools : request.tools[k].fn = tools[k].fn
    BY <1>3 DEF Same, Definitions
  <2>3. CASE Same(tools, ToolName(tc)) = {}
    BY <1>2, <2>1, <2>2, <2>3, RunsFirst DEF Right
  <2>4. CASE Same(tools, ToolName(tc)) # {}
    <3>1. /\ Same(tools, ToolName(tc)) \subseteq Nat
          /\ Same(tools, ToolName(tc)) \subseteq DOMAIN tools
      BY <2>1 DEF Same
    <3>2. FirstOf(Same(tools, ToolName(tc))) \in DOMAIN tools
      BY <2>4, <3>1, FirstIsIn
    <3> QED BY <1>2, <2>1, <2>2, <2>4, <3>2, RunsFirst DEF Right
  <2> QED BY <2>3, <2>4
<1>5. \A i \in DOMAIN results : Right(request.tools, results[i], calls[i])
  BY <1>1 DEF ToolsAreOffered, RunsWhatWasOffered, Right, Same, FirstOf
<1> HIDE DEF added, tc
<1>6. /\ IsSeq(results') /\ DOMAIN results' = 1..Len(results) + 1
      /\ \A i \in 1..Len(results) : results'[i] = results[i]
      /\ results'[Len(results) + 1] = added
      /\ DOMAIN results = 1..Len(results) /\ Len(results) \in Nat
  BY <1>1, AppendIsSeq DEF ToolsAreOffered
<1>7. \A i \in DOMAIN results' : Right(request'.tools, results'[i], calls'[i])
  BY <1>1, <1>4, <1>5, <1>6 DEF tc
<1>8. RunsWhatWasOffered'
  BY <1>7 DEF RunsWhatWasOffered, Right, Same, FirstOf
<1> QED BY <1>1, <1>3, <1>6, <1>8 DEF ToolsAreOffered

\* A step that leaves a call alone leaves its results right.
LEMMA OfferKept ==
  ASSUME RunsWhatWasOffered, UNCHANGED <<pc, request, results, calls>>
  PROVE  RunsWhatWasOffered'
<1> SUFFICES ASSUME pc \in {"tools", "save"} PROVE RunsWhatWasOffered'
  BY DEF RunsWhatWasOffered
<1>1. \A i \in DOMAIN results : Right(request.tools, results[i], calls[i])
  BY DEF RunsWhatWasOffered, Right, Same, FirstOf
<1>2. \A i \in DOMAIN results' : Right(request'.tools, results'[i], calls'[i])
  BY <1>1
<1> QED BY <1>2 DEF RunsWhatWasOffered, Right, Same, FirstOf

\* The other steps keep the offer, and start with no results.
LEMMA OfferedStep == ToolsAreOffered /\ [Next]_vars => ToolsAreOffered'
<1> SUFFICES ASSUME ToolsAreOffered, [Next]_vars PROVE ToolsAreOffered'
  OBVIOUS
<1> USE DEF ToolsAreOffered
<1>1. CASE GiveTools
  <2>1. PICK t \in Tools : registry' = Register(<<>>, t)
    BY <1>1 DEF GiveTools
  <2>2. IsSeq(<<>>)
    BY DEF IsSeq
  <2>3. IsSeq(registry')
    BY <2>1, <2>2, AppendIsSeq DEF Register
  <2> QED BY <1>1, <2>3 DEF GiveTools, loopVars, RunsWhatWasOffered
<1>2. CASE AddTool
  <2>1. IsSeq(registry')
    BY <1>2, AppendIsSeq DEF AddTool, Register
  <2>2. UNCHANGED <<tools, results, calls, pc, request>>
    BY <1>2 DEF AddTool, loopVars
  <2> QED BY <2>1, <2>2, OfferKept
<1>3. CASE Begin
  <2>1. IsSeq(<<>>)
    BY DEF IsSeq
  <2>2. pc' \in {"idle", "load"} /\ results' = <<>> /\ tools' = registry
        /\ UNCHANGED registry
    BY <1>3 DEF Begin, StoreFails, agentVars
  <2> QED BY <2>1, <2>2 DEF RunsWhatWasOffered
<1>4. CASE SendRequest
  <2>1. pc' = "answer" /\ UNCHANGED <<registry, tools, results>>
    BY <1>4 DEF SendRequest, agentVars, loopVars
  <2>2. request'.tools = Definitions(tools)
    BY <1>4 DEF SendRequest, ChatRequest, StreamRequest
  <2>3. Definitions(tools') = Definitions(tools)
    BY <2>1
  <2> QED BY <2>1, <2>2, <2>3 DEF RunsWhatWasOffered
<1>5. CASE Answer
  <2>1. pc = "answer" /\ UNCHANGED <<registry, tools, request>>
    BY <1>5 DEF Answer, agentVars
  <2>2. \/ pc' = "idle" /\ UNCHANGED results
        \/ pc' = "tools" /\ results' = <<>>
    BY <1>5 DEF Answer, StoreFails, loopVars
  <2>3. IsSeq(<<>>)
    BY DEF IsSeq
  <2>4. Definitions(tools') = Definitions(tools)
    BY <2>1
  <2>5. RunsWhatWasOffered'
    BY <2>2 DEF RunsWhatWasOffered
  <2> QED BY <2>1, <2>2, <2>3, <2>4, <2>5
<1>6. CASE RunTool
  BY <1>6, RunToolOffered
<1>7. CASE SaveResults
  <2>1. pc' \in {"idle", "infer"} /\ UNCHANGED <<registry, tools, results>>
    BY <1>7 DEF SaveResults, StoreFails, NextIteration, agentVars
  <2> QED BY <2>1 DEF RunsWhatWasOffered
<1>8. CASE Load \/ Fail
  <2>1. pc' \in {"idle", "infer"} /\ UNCHANGED <<registry, tools, results>>
    BY <1>8 DEF Load, Fail, NextIteration, agentVars, loopVars
  <2> QED BY <2>1 DEF RunsWhatWasOffered
<1>9. CASE Build
  <2>1. pc' \in {"rejected", "idle"} /\ UNCHANGED <<registry, tools, results>>
    BY <1>9 DEF Build, agentVars, loopVars
  <2> QED BY <2>1 DEF RunsWhatWasOffered
<1>10. CASE UNCHANGED <<registry, tools, results, calls, pc, request>>
  BY <1>10, OfferKept
<1> QED BY <1>1, <1>2, <1>3, <1>4, <1>5, <1>6, <1>7, <1>8, <1>9, <1>10
        DEF Next, vars, agentVars, loopVars, Configure, NameTarget

\* A tool call runs the first tool offered under its name, or fails, whatever is
\* registered while the call is running.
THEOREM OfferedToolsRun == Spec => []RunsWhatWasOffered
<1>1. Init => ToolsAreOffered
  <2> SUFFICES ASSUME Init PROVE ToolsAreOffered
    OBVIOUS
  <2>1. IsSeq(<<>>)
    BY DEF IsSeq
  <2> QED BY <2>1 DEF Init, ToolsAreOffered, RunsWhatWasOffered
<1>2. ToolsAreOffered => RunsWhatWasOffered
  BY DEF ToolsAreOffered
<1> QED BY <1>1, <1>2, OfferedStep, PTL DEF Spec

-----------------------------------------------------------------------------
(* The arguments of the tools. *)

\* What a stream makes of a tool call reads the same in both ways.
LEMMA StreamedAgrees ==
  ASSUME NEW tc, {"name", "raw", "args", "rawArgs"} \subseteq DOMAIN tc
  PROVE  ParseArguments(Streamed(tc)) = Parse(ArgumentsString(Streamed(tc)))
<1> DEFINE text == OrElse(OrElse(tc.rawArgs, tc.args), Blank)
           arg == IF text \in {Garbage, Blank} THEN None ELSE text
<1>1. text # None
  BY AbsentAssumption DEF OrElse
<1>2. Streamed(tc).rawArgs = text /\ Streamed(tc).args = arg
  BY DEF Streamed
<1> HIDE DEF text
<1>3. ArgumentsString(Streamed(tc)) = text
  BY <1>1, <1>2 DEF ArgumentsString, OrElse
<1> QED BY <1>1, <1>2, <1>3 DEF ParseArguments, Parse

\* Where the elements of the second sequence stand in a concatenation.
LEMMA ConcatAt ==
  ASSUME NEW m \in Nat, NEW n \in Nat, NEW a, NEW b, a = [i \in 1..m |-> a[i]],
         b = [i \in 1..n |-> b[i]], NEW i \in 1..n
  PROVE  m + i \in DOMAIN (a \o b) /\ (a \o b)[m + i] = b[i]
<1> DEFINE S == {a[j] : j \in 1..m} \union {b[j] : j \in 1..n}
<1>1. a \in [1..m -> S] /\ b \in [1..n -> S]
  OBVIOUS
<1> HIDE DEF S
<1>2. a \in Seq(S) /\ Len(a) = m
  BY <1>1
<1>3. b \in Seq(S) /\ Len(b) = n
  BY <1>1
<1> QED BY <1>2, <1>3

\* The thread has a use with the id and the arguments of a tool call.
Recorded(ms, tc) ==
  \E k \in DOMAIN ms : \E l \in DOMAIN ms[k].blocks :
    /\ IsUse(ms[k].blocks[l]) /\ ms[k].blocks[l].id = tc.id
    /\ ms[k].blocks[l].body = ParseArguments(tc)

\* A stored response records each of its tool calls.
LEMMA ResponseRecorded ==
  ASSUME NEW r, NEW n \in Nat, DOMAIN r.calls = 1..n, r.texts \in Seq(STRING),
         NEW i \in 1..n
  PROVE  \E l \in DOMAIN StoredResponse(r).blocks :
           LET b == StoredResponse(r).blocks[l]
           IN IsUse(b) /\ b.id = r.calls[i].id /\ b.body = ParseArguments(r.calls[i])
<1> DEFINE text == [j \in DOMAIN r.texts |-> Text(r.texts[j])]
           use == [j \in DOMAIN r.calls |->
                     Block("use", r.calls[j].id, ToolName(r.calls[j]),
                           ParseArguments(r.calls[j]))]
<1>1. StoredResponse(r).blocks = text \o use
  BY DEF StoredResponse
<1>2. PICK m \in Nat : DOMAIN r.texts = 1..m
  OBVIOUS
<1>3. text = [j \in 1..m |-> text[j]] /\ use = [j \in 1..n |-> use[j]]
  BY <1>2
<1>4. use[i].type = "use" /\ use[i].id = r.calls[i].id
      /\ use[i].body = ParseArguments(r.calls[i])
  BY DEF Block
<1> HIDE DEF text, use
<1>5. m + i \in DOMAIN (text \o use) /\ (text \o use)[m + i] = use[i]
  BY <1>2, <1>3, ConcatAt
<1> QED BY <1>1, <1>4, <1>5 DEF IsUse

\* The tool calls in hand are recorded, and read the same in both ways.
CallsAreRecorded ==
  /\ IsSeq(thread) /\ IsSeq(results) /\ mode \in {"chat", "stream"}
  /\ pc \in {"tools", "save"} =>
       \E n \in Nat : /\ DOMAIN calls = 1..n /\ Len(results) <= n
                      /\ pc = "tools" => Len(results) < n
                      /\ Len(calls) = n
                      /\ \A i \in 1..n :
                           /\ Recorded(thread, calls[i])
                           /\ mode = "stream" => ParseArguments(calls[i])
                                                   = Parse(ArgumentsString(calls[i]))
  /\ RecordedArgumentsWereUsed

\* What is recorded stays so: the thread only grows.
LEMMA GrowthKeeps ==
  ASSUME IsSeq(thread), NEW m, thread' \in {thread, Append(thread, m)}
  PROVE  /\ IsSeq(thread')
         /\ \A k \in DOMAIN thread : k \in DOMAIN thread' /\ thread'[k] = thread[k]
<1>1. CASE thread' = thread
  BY <1>1
<1>2. CASE thread' = Append(thread, m)
  BY <1>2, AppendIsSeq
<1> QED BY <1>1, <1>2

\* What is recorded stays recorded when a message is added to the thread.
LEMMA GrowthKeepsRecords ==
  ASSUME CallsAreRecorded, NEW m, thread' \in {thread, Append(thread, m)},
         UNCHANGED <<calls, results>>
  PROVE  IsSeq(thread') /\ IsSeq(results') /\ RecordedArgumentsWereUsed'
<1>1. IsSeq(thread')
      /\ \A k \in DOMAIN thread : k \in DOMAIN thread' /\ thread'[k] = thread[k]
  BY GrowthKeeps DEF CallsAreRecorded
<1> QED BY <1>1 DEF CallsAreRecorded, RecordedArgumentsWereUsed

\* A response received is a sequence of tool calls that read the same both ways.
LEMMA ReceivedCalls ==
  ASSUME NEW response \in Responses, mode \in {"chat", "stream"}
  PROVE  LET r == Received(response)
         IN /\ r.texts \in Seq(STRING)
            /\ \E n \in Nat : /\ DOMAIN r.calls = 1..n /\ Len(r.calls) = n
                              /\ r.calls # <<>> => n > 0
            /\ mode = "stream" =>
                 \A i \in DOMAIN r.calls : ParseArguments(r.calls[i])
                                             = Parse(ArgumentsString(r.calls[i]))
<1> DEFINE WithIds(b) == [i \in DOMAIN b |-> [b[i] EXCEPT !.id = <<Len(thread), i>>]]
<1>0. PICK t \in Texts, n \in 0..MaxBatch :
        \E b \in [1..n -> Shapes] : response = [texts |-> t, calls |-> WithIds(b)]
  BY DEF Responses
<1>1. PICK b \in [1..n -> Shapes] : response = [texts |-> t, calls |-> WithIds(b)]
  BY <1>0
<1>2. n \in Nat /\ t \in Seq(STRING)
  BY <1>0, RequestBounds
<1>3. DOMAIN WithIds(b) = 1..n
      /\ \A i \in 1..n : DOMAIN WithIds(b)[i] = {"id", "name", "raw", "args", "rawArgs"}
  BY RequestBounds
<1> HIDE DEF WithIds
<1>4. CASE mode = "chat"
  <2>1. Received(response) = response
    BY <1>4 DEF Received
  <2>2. Len(WithIds(b)) = n /\ (WithIds(b) # <<>> => n > 0)
    BY <1>2, <1>3
  <2> QED BY <1>1, <1>2, <1>3, <1>4, <2>1, <2>2
<1>5. CASE mode = "stream"
  <2> DEFINE streamed == [i \in DOMAIN WithIds(b) |-> Streamed(WithIds(b)[i])]
  <2>1. Received(response).texts = t /\ Received(response).calls = streamed
    BY <1>1, <1>5 DEF Received
  <2>2. DOMAIN streamed = 1..n
    BY <1>3
  <2>3. \A i \in 1..n : ParseArguments(streamed[i]) = Parse(ArgumentsString(streamed[i]))
    BY <1>3, StreamedAgrees
  <2> HIDE DEF streamed
  <2>4. Len(streamed) = n /\ (streamed # <<>> => n > 0)
    BY <1>2, <2>2
  <2> QED BY <1>2, <2>1, <2>2, <2>3, <2>4
<1> QED BY <1>4, <1>5

\* A tool that runs gets the arguments that are recorded.
LEMMA RunToolRecorded == ASSUME CallsAreRecorded, RunTool
                         PROVE  CallsAreRecorded'
<1> DEFINE tc == calls[Len(results) + 1]
           args == IF mode = "chat" THEN ParseArguments(tc) ELSE Parse(ArgumentsString(tc))
<1>1. /\ pc = "tools" /\ pc' = IF Len(results') = Len(calls) THEN "save" ELSE "tools"
      /\ UNCHANGED <<thread, mode, calls>>
  BY DEF RunTool
<1>2. \E result : results' = Append(results, result) /\ result.args = args
  BY DEF RunTool
<1>3. PICK n \in Nat : /\ DOMAIN calls = 1..n /\ Len(results) < n /\ Len(calls) = n
                       /\ \A i \in 1..n :
                            /\ Recorded(thread, calls[i])
                            /\ mode = "stream" => ParseArguments(calls[i])
                                                    = Parse(ArgumentsString(calls[i]))
  BY <1>1 DEF CallsAreRecorded
<1>4. /\ IsSeq(results') /\ Len(results') = Len(results) + 1
      /\ Len(results) \in Nat /\ DOMAIN results = 1..Len(results)
      /\ \A i \in 1..Len(results) : results'[i] = results[i]
      /\ results'[Len(results) + 1].args = args
  BY <1>2, AppendIsSeq DEF CallsAreRecorded
<1>5. DOMAIN results' = 1..Len(results) + 1
  BY <1>4, AppendIsSeq
<1>6. Recorded(thread, tc) /\ args = ParseArguments(tc)
  BY <1>3, <1>4 DEF CallsAreRecorded
<1>7. RecordedArgumentsWereUsed'
  <2> SUFFICES ASSUME NEW i \in DOMAIN results'
               PROVE  \E k \in DOMAIN thread : \E l \in DOMAIN thread[k].blocks :
                        LET b == thread[k].blocks[l]
                        IN IsUse(b) /\ b.id = calls[i].id /\ b.body = results'[i].args
    BY <1>1 DEF RecordedArgumentsWereUsed
  <2>1. CASE i = Len(results) + 1
    BY <1>4, <1>6, <2>1 DEF Recorded
  <2>2. CASE i \in DOMAIN results
    BY <1>4, <2>2 DEF CallsAreRecorded, RecordedArgumentsWereUsed
  <2> QED BY <1>4, <1>5, <2>1, <2>2
<1>8. Len(results') <= n /\ (pc' = "tools" => Len(results') < n)
  BY <1>1, <1>3, <1>4
<1> QED BY <1>1, <1>3, <1>4, <1>7, <1>8 DEF CallsAreRecorded

\* An answer records its tool calls before any of them runs.
LEMMA AnswerRecorded == ASSUME CallsAreRecorded, Answer
                        PROVE  CallsAreRecorded'
<1>1. PICK response \in Responses :
        LET r == Received(response)
        IN \/ /\ pc' = "idle" /\ thread' \in {thread, Append(thread, StoredResponse(r))}
              /\ UNCHANGED <<calls, results>>
           \/ /\ pc' = "tools" /\ thread' = Append(thread, StoredResponse(r))
              /\ r.calls # <<>> /\ calls' = r.calls /\ results' = <<>>
  BY DEF Answer, StoreFails, Stores, loopVars
<1>2. UNCHANGED mode
  BY DEF Answer
<1> DEFINE r == Received(response)
<1>3. CASE UNCHANGED <<calls, results>> /\ pc' = "idle"
           /\ thread' \in {thread, Append(thread, StoredResponse(r))}
  BY <1>2, <1>3, GrowthKeepsRecords DEF CallsAreRecorded
<1>4. CASE /\ pc' = "tools" /\ thread' = Append(thread, StoredResponse(r))
           /\ r.calls # <<>> /\ calls' = r.calls /\ results' = <<>>
  <2>1. PICK n \in Nat : DOMAIN r.calls = 1..n /\ Len(r.calls) = n /\ n > 0
    BY <1>4, ReceivedCalls DEF CallsAreRecorded
  <2>2. r.texts \in Seq(STRING)
    BY ReceivedCalls DEF CallsAreRecorded
  <2>3. mode = "stream" => \A i \in 1..n : ParseArguments(r.calls[i])
                                             = Parse(ArgumentsString(r.calls[i]))
    BY <2>1, ReceivedCalls DEF CallsAreRecorded
  <2> HIDE DEF r
  <2>4. /\ IsSeq(thread') /\ Len(thread) + 1 \in DOMAIN thread'
        /\ thread'[Len(thread) + 1] = StoredResponse(r)
    <3>1. IsSeq(thread') /\ Len(thread') = Len(thread) + 1 /\ Len(thread) \in Nat
          /\ thread'[Len(thread) + 1] = StoredResponse(r)
      BY <1>4, AppendIsSeq DEF CallsAreRecorded
    <3>2. DOMAIN thread' = 1..Len(thread')
      BY <3>1, AppendIsSeq
    <3> QED BY <3>1, <3>2
  <2>5. \A i \in 1..n : Recorded(thread', calls'[i])
    BY <1>4, <2>1, <2>2, <2>4, ResponseRecorded DEF Recorded
  <2>6. IsSeq(<<>>)
    BY DEF IsSeq
  <2>7. RecordedArgumentsWereUsed'
    BY <1>4 DEF RecordedArgumentsWereUsed
  <2> QED BY <1>2, <1>4, <2>1, <2>3, <2>4, <2>5, <2>6, <2>7 DEF CallsAreRecorded
<1> QED BY <1>1, <1>3, <1>4

\* The other steps only add to the thread, or start a call.
LEMMA RecordedStep == CallsAreRecorded /\ [Next]_vars => CallsAreRecorded'
<1> SUFFICES ASSUME CallsAreRecorded, [Next]_vars PROVE CallsAreRecorded'
  OBVIOUS
<1>1. CASE RunTool
  BY <1>1, RunToolRecorded
<1>2. CASE Answer
  BY <1>2, AnswerRecorded
<1>3. CASE SaveResults
  <2>1. /\ thread' \in {thread, Append(thread, StoredResults(results))}
        /\ pc' \in {"idle", "infer"} /\ UNCHANGED <<mode, calls, results>>
    BY <1>3 DEF SaveResults, Stores, StoreFails, NextIteration
  <2> QED BY <2>1, GrowthKeepsRecords DEF CallsAreRecorded
<1>4. CASE Begin
  <2>1. PICK m : thread' \in {thread, Append(thread, m)}
    BY <1>4 DEF Begin, Stores, StoreFails
  <2>2. /\ pc' \in {"idle", "load"} /\ results' = <<>> /\ mode' \in {"chat", "stream"}
    BY <1>4 DEF Begin, Stores, StoreFails
  <2>3. IsSeq(<<>>) /\ IsSeq(thread')
    BY <2>1, GrowthKeeps DEF IsSeq, CallsAreRecorded
  <2> QED BY <2>2, <2>3 DEF CallsAreRecorded, RecordedArgumentsWereUsed
<1>5. CASE pc' \notin {"tools", "save"} /\ UNCHANGED <<thread, mode, calls, results>>
  BY <1>5 DEF CallsAreRecorded, RecordedArgumentsWereUsed
<1>6. CASE UNCHANGED <<thread, mode, calls, results, pc>>
  BY <1>6 DEF CallsAreRecorded, RecordedArgumentsWereUsed, Recorded
<1>7. CASE Load \/ SendRequest \/ Fail \/ Build
  BY <1>5, <1>7 DEF Load, SendRequest, Fail, Build, NextIteration, loopVars
<1> QED BY <1>1, <1>2, <1>3, <1>4, <1>6, <1>7
        DEF Next, vars, loopVars, Configure, NameTarget, GiveTools, AddTool

\* Nothing is in hand before the first call.
LEMMA RecordedInit == Init => CallsAreRecorded
<1> SUFFICES ASSUME Init PROVE CallsAreRecorded
  OBVIOUS
<1>1. IsSeq(<<>>)
  BY DEF IsSeq
<1> QED BY <1>1 DEF Init, CallsAreRecorded, RecordedArgumentsWereUsed

\* Every tool is called with the arguments that the thread records for its call.
THEOREM ArgumentsRecorded == Spec => []RecordedArgumentsWereUsed
<1>1. CallsAreRecorded => RecordedArgumentsWereUsed
  BY DEF CallsAreRecorded
<1> QED BY <1>1, RecordedInit, RecordedStep, PTL DEF Spec

-----------------------------------------------------------------------------
(* Types. *)

\* TypeOK, the size of the registry a call works with, and the rounds it may do.
Typed ==
  /\ TypeOK
  /\ Len(tools) \in 0..Len(registry)
  /\ pc = "building" => tools = <<>>
  /\ pc \in {"infer", "answer", "tools", "save"} => iteration \in 1..MaxIterations

\* A registry that grows keeps its beginning.
LEMMA BeginningKept ==
  ASSUME NEW r \in Seq(Tools), NEW t \in Tools, NEW k \in 0..Len(r)
  PROVE  /\ Register(r, t) \in Seq(Tools) /\ Len(Register(r, t)) = Len(r) + 1
         /\ SubSeq(Register(r, t), 1, k) = SubSeq(r, 1, k)
<1>1. Append(r, t) \in Seq(Tools) /\ Len(Append(r, t)) = Len(r) + 1
      /\ \A i \in 1..k : Append(r, t)[i] = r[i]
  OBVIOUS
<1> QED BY <1>1 DEF Register


\* The builder's steps.
LEMMA TypedBuilder ==
  ASSUME Typed, Configure \/ NameTarget \/ Build \/ GiveTools \/ AddTool
  PROVE  Typed'
<1> USE RequestBounds DEF Typed, TypeOK
<1>1. UNCHANGED <<mode, iteration, calls, results, usage, truth, tools>>
  BY DEF Configure, NameTarget, Build, GiveTools, AddTool, loopVars, usageVars
<1>2. CASE Configure
  <2>1. PICK f \in Fields : \E v \in Values[f] : settings' = [settings EXCEPT ![f] = v]
    BY <1>2 DEF Configure
  <2>2. PICK v \in Values[f] : settings' = [settings EXCEPT ![f] = v]
    BY <2>1
  <2>3. /\ settings' = [g \in Fields |-> settings'[g]]
        /\ \A g \in Fields : settings'[g] \in Values[g] \union {None}
    BY <2>2
  <2>4. UNCHANGED <<target, registry, pc>> /\ ops' \in 0..MaxOps
    BY <1>2, SMTT(30) DEF Configure, Count
  <2> QED BY <1>1, <2>3, <2>4
<1>3. CASE NameTarget
  BY <1>1, <1>3 DEF NameTarget
<1>4. CASE Build
  BY <1>1, <1>4 DEF Build, agentVars
<1>5. CASE GiveTools
  <2>1. PICK t \in Tools : registry' = Register(<<>>, t)
    BY <1>5 DEF GiveTools
  <2>2. registry' \in Seq(Tools) /\ Len(registry') = 1
    BY <2>1 DEF Register
  <2>3. tools = <<>> /\ UNCHANGED <<settings, target, pc>> /\ ops' \in 0..MaxOps
    BY <1>5, SMTT(30) DEF GiveTools, Count
  <2>4. tools' = SubSeq(registry', 1, Len(tools')) /\ Len(tools') \in 0..Len(registry')
    BY <1>1, <2>2, <2>3, SubSeqEmpty
  <2> QED BY <1>1, <2>2, <2>3, <2>4
<1>6. CASE AddTool
  <2>1. PICK t \in Tools : registry' = Register(registry, t)
    BY <1>6 DEF AddTool
  <2>2. /\ registry' \in Seq(Tools) /\ Len(registry') = Len(registry) + 1
        /\ SubSeq(registry', 1, Len(tools)) = SubSeq(registry, 1, Len(tools))
    BY <2>1, BeginningKept
  <2>3. UNCHANGED <<settings, target, pc>> /\ ops' \in 0..MaxOps
    BY <1>6, SMTT(30) DEF AddTool, Count
  <2>4. tools' = SubSeq(registry', 1, Len(tools')) /\ Len(tools') \in 0..Len(registry')
    <3>1. UNCHANGED tools /\ Len(registry) \in Nat
      BY <1>1
    <3>2. Len(tools) \in 0..Len(registry) /\ tools = SubSeq(registry, 1, Len(tools))
      OBVIOUS
    <3> HIDE DEF Typed, TypeOK
    <3>3. tools' = SubSeq(registry', 1, Len(tools'))
      BY <2>2, <3>1, <3>2
    <3>4. Len(tools') \in 0..Len(registry')
      BY <2>2, <3>1, <3>2
    <3> QED BY <3>3, <3>4
  <2> QED BY <1>1, <2>2, <2>3, <2>4
<1> QED BY <1>2, <1>3, <1>4, <1>5, <1>6

\* The steps of a call.
LEMMA TypedCall ==
  ASSUME Typed, RunningSum, RunningSum', CallsAreRecorded,
         Begin \/ Load \/ SendRequest \/ Answer \/ RunTool \/ SaveResults \/ Fail
  PROVE  Typed'
<1> USE RequestBounds DEF Typed, TypeOK
<1>1. UNCHANGED <<settings, target, registry>>
      /\ usage' \in 0..Width - 1 /\ truth' \in Nat
  BY DEF RunningSum, Begin, Load, SendRequest, Answer, RunTool, SaveResults, Fail, agentVars
<1>2. CASE Begin
  <2>0. ops' \in 0..MaxOps
    BY <1>2, SMTT(30) DEF Begin, Count
  <2>1. /\ mode' \in {"chat", "stream"} /\ pc' \in {"idle", "load"}
        /\ iteration' = 0 /\ calls' = <<>> /\ results' = <<>> /\ tools' = registry
    <3> HIDE DEF Typed, TypeOK
    <3> QED BY <1>2 DEF Begin, StoreFails
  <2>2. tools' = SubSeq(registry', 1, Len(tools')) /\ Len(tools') \in 0..Len(registry')
    BY <1>1, <2>1, SubSeqFull, SMTT(30)
  <2> QED BY <1>1, <2>0, <2>1, <2>2, SMTT(30)
<1>3. UNCHANGED <<ops, mode, tools>> \/ Begin
  BY DEF Load, SendRequest, Answer, RunTool, SaveResults, Fail
<1>4. CASE Load
  <2>1. UNCHANGED <<calls, results>> /\ iteration' = 1
        /\ pc' = IF 1 > MaxIterations THEN "idle" ELSE "infer"
    BY <1>4 DEF Load, NextIteration
  <2> QED BY <1>1, <1>3, <1>2, <2>1, SMTT(30)
<1>5. CASE SendRequest
  BY <1>1, <1>2, <1>3, <1>5 DEF SendRequest, loopVars
<1>6. CASE Answer
  <2>1. iteration' = iteration /\ pc = "answer"
        /\ \/ pc' = "idle" /\ UNCHANGED <<calls, results>>
           \/ /\ pc' = "tools" /\ results' = <<>>
              /\ \E response \in Responses : calls' = Received(response).calls
    BY <1>6 DEF Answer, StoreFails, loopVars
  <2>2. Len(results') <= Len(calls')
    <3>1. CASE UNCHANGED <<calls, results>>
      BY <3>1
    <3>2. CASE /\ results' = <<>>
               /\ \E response \in Responses : calls' = Received(response).calls
      <4>1. Len(calls') \in Nat
        BY <3>2, ReceivedCalls, SMTT(30)
      <4> QED BY <3>2, <4>1
    <3> QED BY <2>1, <3>1, <3>2
  <2> QED BY <1>1, <1>2, <1>3, <2>1, <2>2
<1>7. CASE RunTool
  <2>1. /\ UNCHANGED <<iteration, calls>> /\ pc = "tools" /\ pc' \in {"tools", "save"}
        /\ \E result : results' = Append(results, result)
    BY <1>7 DEF RunTool
  <2>2. Len(results') <= Len(calls')
    BY <2>1, AppendIsSeq DEF CallsAreRecorded
  <2> QED BY <1>1, <1>2, <1>3, <2>1, <2>2
<1>8. CASE SaveResults
  <2>1. /\ UNCHANGED <<calls, results>> /\ pc = "save"
        /\ \/ pc' = "idle" /\ UNCHANGED iteration
           \/ /\ iteration' = iteration + 1
              /\ pc' = IF iteration + 1 > MaxIterations THEN "idle" ELSE "infer"
    BY <1>8 DEF SaveResults, StoreFails, NextIteration
  <2>2. iteration \in 1..MaxIterations /\ MaxIterations \in Nat
    BY <2>1
  <2>3. /\ pc' \in {"idle", "infer"} /\ iteration' \in 0..MaxIterations + 1
        /\ pc' = "infer" => iteration' \in 1..MaxIterations
    BY <2>1, <2>2, SMTT(30)
  <2> QED BY <1>1, <1>2, <1>3, <2>1, <2>3
<1>9. CASE Fail
  BY <1>1, <1>2, <1>3, <1>9 DEF Fail, loopVars
<1> QED BY <1>2, <1>4, <1>5, <1>6, <1>7, <1>8, <1>9

\* The types before the first step.
LEMMA TypedInit == Init => Typed
<1> SUFFICES ASSUME Init PROVE Typed
  OBVIOUS
<1>1. /\ settings = [f \in Fields |-> settings[f]]
      /\ \A f \in Fields : settings[f] \in Values[f] \union {None}
  BY DEF Init
<1>2. registry \in Seq(Tools) /\ tools = SubSeq(registry, 1, Len(tools))
      /\ Len(tools) \in 0..Len(registry)
  BY SubSeqEmpty DEF Init
<1> QED BY <1>1, <1>2, RequestBounds DEF Init, Typed, TypeOK

\* The types after any step.
LEMMA TypedStep == ASSUME Typed, RunningSum, CallsAreRecorded, [Next]_vars
                   PROVE  Typed'
<1>1. CASE UNCHANGED vars
  BY <1>1 DEF vars, agentVars, loopVars, usageVars, Typed, TypeOK
<1>2. RunningSum'
  BY SumInvariant
<1> QED BY <1>1, <1>2, TypedBuilder, TypedCall DEF Next

\* Every variable has its type: the registry a call works with stays a beginning
\* of the agent's whatever is registered, the rounds stay within the budget, and
\* the usage is that of a u32.
THEOREM TypeCorrect == Spec => []TypeOK
<1> DEFINE Inv == Typed /\ RunningSum /\ CallsAreRecorded
<1>1. Init => Inv
  BY TypedInit, SumInit, RecordedInit
<1>2. Inv /\ [Next]_vars => Inv'
  BY TypedStep, SumInvariant, RecordedStep
<1>3. Inv => TypeOK
  BY DEF Typed
<1> QED BY <1>1, <1>2, <1>3, PTL DEF Spec

-----------------------------------------------------------------------------
(* The messages of a call. *)

\* What is kept of anything at finitely many places is a sequence.
LEMMA KeepIsSeq == ASSUME NEW s, NEW I, IsFiniteSet(I)
                   PROVE  IsSeq(Keep(s, I))
<1>1. Cardinality(I) \in Nat
  BY FS_CardinalityType
<1>2. Keep(s, I) = [k \in 1..Cardinality(I) |-> Keep(s, I)[k]]
  BY DEF Keep
<1> HIDE DEF Keep
<1> QED BY <1>1, <1>2, FunctionIsSeq

\* Some of the places of a sequence are finitely many.
LEMMA PlacesFinite == ASSUME NEW s, IsSeq(s), NEW I, I \subseteq DOMAIN s
                      PROVE  IsFiniteSet(I)
<1>1. Len(s) \in Int /\ 1 \in Int /\ DOMAIN s = 1..Len(s)
  BY SeqIsFunction
<1>2. IsFiniteSet(1..Len(s))
  BY <1>1, FS_Interval
<1> QED BY <1>1, <1>2, FS_Subset

\* The filter makes a sequence of a sequence.
LEMMA FilterIsSeq == ASSUME NEW s, IsSeq(s), NEW cfg, cfg.max \in Nat
                     PROVE  IsSeq(FilterMessages(s, cfg))
<1>1. ASSUME NEW t, IsSeq(t), NEW u, NEW I, I \subseteq DOMAIN t
      PROVE  IsSeq(Keep(u, I))
  BY <1>1, PlacesFinite, KeepIsSeq
<1> DEFINE recent == LastMessages(s, cfg)
           unique == IF cfg.dedup THEN Deduplicated(recent) ELSE recent
           fewer == RetainLast(unique, cfg)
           limited == LimitPerMessage(fewer, cfg)
           led == DropLeadingAssistants(limited)
<1>2. IsSeq(recent)
  <2>1. PICK S : s \in Seq(S)
    BY DEF IsSeq
  <2>2. CASE Len(s) > cfg.max
    <3>1. recent = SubSeq(s, Len(s) - cfg.max + 1, Len(s))
      BY <2>2 DEF LastMessages
    <3>2. recent \in Seq(S)
      BY <2>1, <2>2, <3>1
    <3> QED BY <3>2 DEF IsSeq
  <2>3. CASE ~ (Len(s) > cfg.max)
    BY <2>3 DEF LastMessages
  <2> QED BY <2>2, <2>3
<1> HIDE DEF recent
<1>3. IsSeq(unique)
  <2>1. IsSeq(Deduplicated(recent))
    BY <1>1, <1>2 DEF Deduplicated
  <2> QED BY <1>2, <2>1
<1> HIDE DEF unique
<1>4. IsSeq(fewer)
  <2> DEFINE gone == IF cfg.retain = 0 THEN ToolMessages(unique)
                     ELSE OldPairs(unique, cfg) \union {i - 1 : i \in OldPairs(unique, cfg)}
  <2>1. fewer = Keep(unique, DOMAIN unique \ gone)
    BY DEF RetainLast
  <2> HIDE DEF gone, fewer
  <2> QED BY <1>1, <1>3, <2>1
<1> HIDE DEF fewer
<1>5. IsSeq(limited)
  <2>1. Len(fewer) \in Nat /\ DOMAIN fewer = 1..Len(fewer)
    BY <1>4, SeqIsFunction
  <2>2. limited = fewer \/ limited = [i \in 1..Len(fewer) |-> limited[i]]
    BY <2>1 DEF LimitPerMessage
  <2> HIDE DEF limited
  <2> QED BY <1>4, <2>1, <2>2, FunctionIsSeq
<1> HIDE DEF limited
<1>6. IsSeq(led)
  BY <1>1, <1>5 DEF DropLeadingAssistants, DropLeading
<1> HIDE DEF led
<1>7. IsSeq(RemoveOrphanedResults(led))
  BY <1>1, <1>6 DEF RemoveOrphanedResults, DropLeading
<1> QED BY <1>7 DEF FilterMessages, recent, unique, fewer, limited, led

\* A reply and n results more.
Extends(s, t, n) == IsPrefix(s, t) /\ Len(t) = Len(s) + 1 + n

\* A reply and some results come after what there is.
LEMMA MessagesAdded ==
  ASSUME NEW s, IsSeq(s), NEW m, NEW t, IsSeq(t)
  PROVE  /\ IsSeq(Append(s, m) \o t)
         /\ Extends(s, Append(s, m) \o t, Len(t))
<1> DEFINE a == Append(s, m)
           u == a \o t
<1>1. /\ IsSeq(a) /\ Len(a) = Len(s) + 1 /\ Len(s) \in Nat
      /\ \A i \in 1..Len(s) : a[i] = s[i]
  BY AppendIsSeq
<1> HIDE DEF a
<1>2. IsSeq(u) /\ Len(u) = Len(a) + Len(t) /\ \A i \in 1..Len(a) : u[i] = a[i]
  BY <1>1, ConcatIsSeq
<1>3. Len(t) \in Nat
  BY SeqIsFunction
<1> HIDE DEF u
<1>4. \A i \in 1..Len(s) : u[i] = s[i]
  BY <1>1, <1>2
<1>5. SubSeq(s, 1, Len(s)) = SubSeq(u, 1, Len(s))
  BY <1>1, <1>4
<1> QED BY <1>1, <1>2, <1>3, <1>5 DEF Extends, IsPrefix, u, a

\* The messages of a call are those of its last request and what was added to
\* them since.
Growing ==
  /\ pc \in {"infer", "answer", "tools", "save"} => IsSeq(input)
  /\ pc \in {"building", "load"} => request = None
  /\ pc = "infer" /\ request # None => Extends(request.messages, input, Len(calls))
  /\ pc = "answer" => request.messages = input
  /\ pc \in {"tools", "save"} =>
       IsSeq(request.messages) /\ \E m : input = Append(request.messages, m)
  /\ pc = "save" => Len(results) = Len(calls)

\* The results of the tools, as they are sent.
LEMMA SentResultsAre ==
  ASSUME NEW rs, IsSeq(rs)
  PROVE  IsSeq(SentResults(rs)) /\ Len(SentResults(rs)) = Len(rs)
<1>1. Len(rs) \in Nat /\ DOMAIN rs = 1..Len(rs)
  BY SeqIsFunction
<1>2. SentResults(rs) = [i \in 1..Len(rs) |-> SentResults(rs)[i]]
  BY <1>1 DEF SentResults
<1> HIDE DEF SentResults
<1> QED BY <1>1, <1>2, FunctionIsSeq

\* The history as it is loaded is a sequence.
LEMMA LoadedIsSeq ==
  ASSUME Typed, IsSeq(thread)
  PROVE  IsSeq(ConvertMessagesToInput(FilterContextMessages(thread, FALSE)))
<1> DEFINE ms == FilterContextMessages(thread, FALSE)
<1>1. IsSeq(ms)
  <2>1. CASE settings.context = None
    BY <2>1 DEF FilterContextMessages
  <2>2. CASE settings.context # None
    <3>1. settings.context \in Values.context
      BY <2>2 DEF Typed, TypeOK, Fields
    <3>2. settings.context.max \in Nat
      BY <3>1, RequestBounds
    <3> QED BY <2>2, <3>2, FilterIsSeq DEF FilterContextMessages
  <2> QED BY <2>1, <2>2
<1> HIDE DEF ms
<1>2. Len(ms) \in Nat /\ DOMAIN ms = 1..Len(ms)
  BY <1>1, SeqIsFunction
<1>3. ConvertMessagesToInput(ms) = [i \in 1..Len(ms) |-> ConvertMessagesToInput(ms)[i]]
  BY <1>2 DEF ConvertMessagesToInput
<1> HIDE DEF ConvertMessagesToInput
<1>4. IsSeq(ConvertMessagesToInput(ms))
  BY <1>2, <1>3, FunctionIsSeq
<1> QED BY <1>4 DEF ms

\* Every step of a call adds to its messages or leaves them.
LEMMA GrowingStep ==
  ASSUME Typed, CallsAreRecorded, Growing, [Next]_vars
  PROVE  Growing'
<1>1. CASE Load
  <2>1. input' = ConvertMessagesToInput(FilterContextMessages(thread, FALSE))
        /\ UNCHANGED request /\ pc = "load" /\ pc' \in {"idle", "infer"}
    BY <1>1 DEF Load, NextIteration
  <2>2. IsSeq(input')
    BY <2>1, LoadedIsSeq DEF CallsAreRecorded
  <2> QED BY <2>1, <2>2 DEF Growing
<1>2. CASE SendRequest
  <2>1. pc = "infer" /\ pc' = "answer" /\ UNCHANGED input /\ request'.messages = input
    BY <1>2 DEF SendRequest, loopVars, ChatRequest, StreamRequest
  <2> QED BY <2>1 DEF Growing
<1>3. CASE Answer
  <2>1. /\ pc = "answer" /\ UNCHANGED request
        /\ \/ pc' = "idle"
           \/ pc' = "tools" /\ \E m : input' = Append(input, m)
    BY <1>3 DEF Answer, StoreFails
  <2>2. CASE pc' = "tools"
    <3>1. PICK m : input' = Append(input, m)
      BY <2>1, <2>2
    <3>2. IsSeq(input) /\ request.messages = input
      BY <2>1 DEF Growing
    <3>3. IsSeq(input')
      BY <3>1, <3>2, AppendIsSeq
    <3> QED BY <2>1, <2>2, <3>1, <3>2, <3>3 DEF Growing
  <2> QED BY <2>1, <2>2 DEF Growing
<1>4. CASE RunTool
  <2>1. /\ pc = "tools" /\ UNCHANGED <<input, request, calls>>
        /\ pc' = IF Len(results') = Len(calls) THEN "save" ELSE "tools"
    BY <1>4 DEF RunTool
  <2> QED BY <2>1 DEF Growing
<1>5. CASE SaveResults
  <2>1. /\ pc = "save" /\ UNCHANGED <<request, calls, results>>
        /\ \/ pc' = "idle"
           \/ pc' \in {"idle", "infer"} /\ input' = input \o SentResults(results)
    BY <1>5 DEF SaveResults, StoreFails, NextIteration
  <2>2. CASE input' = input \o SentResults(results)
    <3>1. PICK m : IsSeq(request.messages) /\ input = Append(request.messages, m)
      BY <2>1 DEF Growing
    <3>2. IsSeq(SentResults(results)) /\ Len(SentResults(results)) = Len(calls)
      BY <2>1, SentResultsAre DEF CallsAreRecorded, Growing
    <3>3. IsSeq(input') /\ Extends(request.messages, input', Len(calls))
      BY <2>2, <3>1, <3>2, MessagesAdded
    <3>4. UNCHANGED <<request, calls>>
      BY <2>1
    <3> QED BY <2>1, <3>3, <3>4 DEF Growing
  <2> QED BY <2>1, <2>2 DEF Growing
<1>6. CASE Begin
  <2>1. pc' \in {"idle", "load"} /\ request' = None
    BY <1>6 DEF Begin, StoreFails
  <2> QED BY <2>1 DEF Growing
<1>7. CASE Fail \/ Build
  <2>1. pc' \in {"idle", "rejected"}
    BY <1>7 DEF Fail, Build
  <2> QED BY <2>1 DEF Growing
<1>8. CASE UNCHANGED <<pc, input, request, calls, results>>
  BY <1>8 DEF Growing
<1> QED BY <1>1, <1>2, <1>3, <1>4, <1>5, <1>6, <1>7, <1>8
        DEF Next, vars, Configure, NameTarget, GiveTools, AddTool, loopVars

\* The messages of a call, its types, its tool calls and its usage.
CallInv == Typed /\ RunningSum /\ CallsAreRecorded /\ Growing

\* Every state has them.
LEMMA CallInvariant == Spec => []CallInv
<1>1. Init => CallInv
  <2> SUFFICES ASSUME Init PROVE Growing
    BY TypedInit, SumInit, RecordedInit DEF CallInv
  <2> QED BY DEF Init, Growing
<1>2. CallInv /\ [Next]_vars => CallInv'
  BY TypedStep, SumInvariant, RecordedStep, GrowingStep DEF CallInv
<1> QED BY <1>1, <1>2, PTL DEF Spec

\* Within a call each request repeats the one before, whatever the filter leaves
\* out of the history, and adds to it the reply and one message for each of its
\* tool calls.
THEOREM RequestsRepeat == Spec => RequestsGrow
<1>1. CallInv /\ [Next]_vars =>
        [request # None /\ request' \notin {None, request} =>
           /\ IsPrefix(request.messages, request'.messages)
           /\ Len(request'.messages) = Len(request.messages) + 1 + Len(calls)]_vars
  <2> SUFFICES ASSUME CallInv, [Next]_vars, request # None, request' \notin {None, request}
               PROVE  /\ IsPrefix(request.messages, request'.messages)
                      /\ Len(request'.messages) = Len(request.messages) + 1 + Len(calls)
    OBVIOUS
  <2>1. SendRequest
    BY DEF Next, vars, usageVars, Configure, NameTarget, GiveTools, AddTool, Build, Begin, Load,
           Answer, RunTool, SaveResults, Fail
  <2>2. pc = "infer" /\ request'.messages = input
    BY <2>1 DEF SendRequest, ChatRequest, StreamRequest
  <2>3. Extends(request.messages, input, Len(calls))
    BY <2>2 DEF CallInv, Growing
  <2>4. Len(request'.messages) = Len(request.messages) + 1 + Len(calls)
        /\ IsPrefix(request.messages, request'.messages)
    BY <2>2, <2>3 DEF Extends
  <2> QED BY <2>4
<1> QED BY <1>1, CallInvariant, PTL DEF Spec, RequestsGrow

-----------------------------------------------------------------------------
(* Conversations: what is shown of them, block by block. *)

\* Messages with their blocks in order.
Conversation(ms) == IsSeq(ms) /\ \A i \in DOMAIN ms : IsSeq(ms[i].blocks)

\* The blocks of a message, each with the role it is said in.
Lines(m) == [j \in DOMAIN m.blocks |-> <<m.role, m.blocks[j]>>]
AllLines(ms) == [i \in DOMAIN ms |-> Lines(ms[i])]

\* The blocks of a conversation, message by message.
LEMMA LinesAreSeq ==
  ASSUME NEW ms, Conversation(ms)
  PROVE  /\ Flat(ms) = FlattenSeq(AllLines(ms))
         /\ IsSeq(AllLines(ms)) /\ DOMAIN AllLines(ms) = DOMAIN ms /\ Len(AllLines(ms)) = Len(ms)
         /\ \A i \in DOMAIN ms : IsSeq(AllLines(ms)[i])
<1>1. Len(ms) \in Nat /\ DOMAIN ms = 1..Len(ms)
  BY SeqIsFunction DEF Conversation
<1>2. AllLines(ms) = [i \in 1..Len(ms) |-> AllLines(ms)[i]]
  BY <1>1 DEF AllLines
<1>3. IsSeq(AllLines(ms)) /\ Len(AllLines(ms)) = Len(ms) /\ DOMAIN AllLines(ms) = 1..Len(ms)
  <2> HIDE DEF AllLines
  <2> QED BY <1>1, <1>2, FunctionIsSeq
<1>4. ASSUME NEW i \in DOMAIN ms PROVE IsSeq(AllLines(ms)[i])
  <2>1. Len(ms[i].blocks) \in Nat /\ DOMAIN ms[i].blocks = 1..Len(ms[i].blocks)
    BY SeqIsFunction DEF Conversation
  <2>2. Lines(ms[i]) = [j \in 1..Len(ms[i].blocks) |-> Lines(ms[i])[j]]
    BY <2>1 DEF Lines
  <2>3. AllLines(ms)[i] = Lines(ms[i])
    BY DEF AllLines
  <2> HIDE DEF Lines, AllLines
  <2> QED BY <2>1, <2>2, <2>3, FunctionIsSeq
<1>5. Flat(ms) = FlattenSeq(AllLines(ms))
  BY DEF Flat, AllLines, Lines
<1> QED BY <1>1, <1>3, <1>4, <1>5

\* Two conversations, one after the other.
LEMMA FlatConcat ==
  ASSUME NEW s, NEW t, Conversation(s), Conversation(t)
  PROVE  Conversation(s \o t) /\ Flat(s \o t) = Flat(s) \o Flat(t)
<1>1. /\ IsSeq(s \o t) /\ Len(s \o t) = Len(s) + Len(t)
      /\ \A i \in 1..Len(s) : (s \o t)[i] = s[i]
      /\ \A i \in 1..Len(t) : (s \o t)[Len(s) + i] = t[i]
  BY ConcatIsSeq DEF Conversation
<1>2. /\ Len(s) \in Nat /\ DOMAIN s = 1..Len(s) /\ Len(t) \in Nat /\ DOMAIN t = 1..Len(t)
      /\ DOMAIN (s \o t) = 1..Len(s \o t)
  BY <1>1, SeqIsFunction DEF Conversation
<1> DEFINE u == s \o t
<1>3. \A i \in 1..Len(s) + Len(t) :
        \/ i \in 1..Len(s) /\ u[i] = s[i]
        \/ i - Len(s) \in 1..Len(t) /\ u[i] = t[i - Len(s)] /\ i \notin 1..Len(s)
  <2> SUFFICES ASSUME NEW i \in 1..Len(s) + Len(t), i \notin 1..Len(s)
               PROVE  i - Len(s) \in 1..Len(t) /\ u[i] = t[i - Len(s)]
    BY <1>1
  <2>1. i - Len(s) \in 1..Len(t) /\ Len(s) + (i - Len(s)) = i
    BY <1>2
  <2> QED BY <1>1, <2>1
<1> HIDE DEF u
<1>4. DOMAIN u = 1..Len(s) + Len(t) /\ IsSeq(u) /\ Len(u) = Len(s) + Len(t)
  BY <1>1, <1>2 DEF u
<1>5. Conversation(u)
  <2> SUFFICES ASSUME NEW i \in DOMAIN u PROVE IsSeq(u[i].blocks)
    BY <1>4 DEF Conversation
  <2>1. CASE i \in 1..Len(s) /\ u[i] = s[i]
    BY <1>2, <2>1 DEF Conversation
  <2>2. CASE i - Len(s) \in 1..Len(t) /\ u[i] = t[i - Len(s)]
    BY <1>2, <2>2 DEF Conversation
  <2> QED BY <1>3, <1>4, <2>1, <2>2
<1>6. AllLines(u) = AllLines(s) \o AllLines(t)
  <2> DEFINE a == AllLines(s)
             b == AllLines(t)
             c == AllLines(u)
  <2>1. /\ IsSeq(a) /\ IsSeq(b) /\ IsSeq(c) /\ Len(c) = Len(a) + Len(b)
        /\ Len(a) = Len(s) /\ Len(b) = Len(t)
    BY <1>4, <1>5, LinesAreSeq
  <2>2. /\ \A i \in 1..Len(s) : a[i] = Lines(s[i])
        /\ \A i \in 1..Len(t) : b[i] = Lines(t[i])
        /\ \A i \in 1..Len(s) + Len(t) : c[i] = Lines(u[i])
    BY <1>2, <1>4 DEF AllLines
  <2> HIDE DEF a, b, c, Lines
  <2>3. /\ IsSeq(a \o b) /\ Len(a \o b) = Len(a) + Len(b)
        /\ \A i \in 1..Len(a) : (a \o b)[i] = a[i]
        /\ \A i \in 1..Len(b) : (a \o b)[Len(a) + i] = b[i]
    BY <2>1, ConcatIsSeq
  <2> DEFINE d == a \o b
  <2> HIDE DEF d
  <2>4. ASSUME NEW i \in 1..Len(s) + Len(t) PROVE c[i] = d[i]
    <3>1. CASE i \in 1..Len(s) /\ u[i] = s[i]
      BY <2>1, <2>2, <2>3, <3>1 DEF d
    <3>2. CASE i - Len(s) \in 1..Len(t) /\ u[i] = t[i - Len(s)]
      <4>1. Len(s) + (i - Len(s)) = i
        BY <1>2
      <4>2. d[Len(a) + (i - Len(s))] = b[i - Len(s)]
        BY <2>1, <2>3, <3>2 DEF d
      <4> QED BY <2>1, <2>2, <3>2, <4>1, <4>2
    <3> QED BY <1>3, <3>1, <3>2
  <2>5. c = [i \in 1..Len(c) |-> c[i]] /\ d = [i \in 1..Len(d) |-> d[i]] /\ Len(c) = Len(d)
    BY <2>1, <2>3, SeqIsFunction DEF d
  <2>6. c = d
    BY <2>1, <2>4, <2>5
  <2> QED BY <2>6 DEF a, b, c, d
<1>7. FlattenSeq(AllLines(s) \o AllLines(t))
        = FlattenSeq(AllLines(s)) \o FlattenSeq(AllLines(t))
  <2>1. PICK S : AllLines(s) \in Seq(Seq(S))
    BY LinesAreSeq, SeqOfSeqs
  <2>2. PICK T : AllLines(t) \in Seq(Seq(T))
    BY LinesAreSeq, SeqOfSeqs
  <2> DEFINE U == S \union T
  <2>3. Seq(S) \subseteq Seq(U) /\ Seq(T) \subseteq Seq(U)
    BY SeqMonotonic
  <2> HIDE DEF U
  <2>4. AllLines(s) \in Seq(Seq(U)) /\ AllLines(t) \in Seq(Seq(U))
    BY <2>1, <2>2, <2>3, SeqMonotonic
  <2> QED BY <2>4, FlattenConcat
<1>8. /\ Flat(u) = FlattenSeq(AllLines(u)) /\ Flat(s) = FlattenSeq(AllLines(s))
      /\ Flat(t) = FlattenSeq(AllLines(t))
  BY <1>5, LinesAreSeq
<1> HIDE DEF AllLines, Flat
<1> QED BY <1>5, <1>6, <1>7, <1>8 DEF u

\* A message that is added to a conversation.
LEMMA FlatAppend ==
  ASSUME NEW s, Conversation(s), NEW m, IsSeq(m.blocks)
  PROVE  /\ Conversation(<<m>>) /\ Append(s, m) = s \o <<m>>
         /\ Conversation(Append(s, m)) /\ Flat(Append(s, m)) = Flat(s) \o Lines(m)
<1>1. Conversation(<<m>>)
  <2>1. <<m>> \in Seq({m}) /\ DOMAIN <<m>> = {1} /\ <<m>>[1] = m
    OBVIOUS
  <2>2. IsSeq(<<m>>)
    BY <2>1 DEF IsSeq
  <2> QED BY <2>1, <2>2 DEF Conversation
<1>2. Append(s, m) = s \o <<m>>
  <2>1. PICK S : s \in Seq(S)
    BY DEF Conversation, IsSeq
  <2>2. s \in Seq(S \union {m})
    BY <2>1, SeqMonotonic
  <2> QED BY <2>2, AppendIsConcat
<1>3. Flat(<<m>>) = Lines(m)
  <2>1. AllLines(<<m>>) = <<Lines(m)>>
    BY DEF AllLines
  <2>2. IsSeq(Lines(m))
    BY <1>1, <2>1, LinesAreSeq
  <2>3. PICK S : Lines(m) \in Seq(S)
    BY <2>2 DEF IsSeq
  <2> HIDE DEF Lines
  <2>4. <<>> \in Seq(Seq(S)) /\ Append(<<>>, Lines(m)) = <<Lines(m)>>
    OBVIOUS
  <2>5. FlattenSeq(Append(<<>>, Lines(m))) = FlattenSeq(<<>>) \o Lines(m)
    BY <2>3, <2>4, FlattenAppend
  <2>6. FlattenSeq(<<>>) = <<>>
    BY DEF FlattenSeq
  <2>7. Flat(<<m>>) = <<>> \o Lines(m)
    BY <1>1, <2>1, <2>4, <2>5, <2>6, LinesAreSeq
  <2> QED BY <2>3, <2>7, ConcatEmptySeq
<1> QED BY <1>1, <1>2, <1>3, FlatConcat

-----------------------------------------------------------------------------
(* What conversion shows of each kind of message. *)

\* The history with one message more, converted.
LEMMA ConvertAppend ==
  ASSUME NEW ms, IsSeq(ms), NEW m
  PROVE  ConvertMessagesToInput(Append(ms, m))
           = Append(ConvertMessagesToInput(ms), ConvertMessageToInput(m))
<1> DEFINE a == Append(ms, m)
           s == ConvertMessagesToInput(ms)
           c == ConvertMessageToInput(m)
<1>1. /\ IsSeq(a) /\ Len(a) = Len(ms) + 1 /\ a[Len(ms) + 1] = m
      /\ \A i \in 1..Len(ms) : a[i] = ms[i]
      /\ Len(ms) \in Nat /\ DOMAIN ms = 1..Len(ms)
  BY AppendIsSeq
<1>2. DOMAIN a = 1..Len(ms) + 1
  BY <1>1, SeqIsFunction
<1>3. \A i \in 1..Len(ms) : s[i] = ConvertMessageToInput(ms[i])
  BY <1>1 DEF ConvertMessagesToInput
<1>4. s = [i \in 1..Len(ms) |-> s[i]]
  BY <1>1 DEF ConvertMessagesToInput
<1>5. ConvertMessagesToInput(a) = [i \in 1..Len(ms) + 1 |-> ConvertMessageToInput(a[i])]
  BY <1>2 DEF ConvertMessagesToInput
<1> HIDE DEF a, s, c, ConvertMessagesToInput
<1>6. IsSeq(s) /\ Len(s) = Len(ms)
  BY <1>1, <1>4, FunctionIsSeq
<1>7. /\ IsSeq(Append(s, c)) /\ Len(Append(s, c)) = Len(ms) + 1
      /\ \A i \in 1..Len(ms) : Append(s, c)[i] = s[i]
      /\ Append(s, c)[Len(ms) + 1] = c
  BY <1>6, AppendIsSeq
<1>8. Append(s, c) = [i \in 1..Len(ms) + 1 |-> Append(s, c)[i]]
  BY <1>7, SeqIsFunction
<1> DEFINE b == Append(s, c)
<1> HIDE DEF b
<1>9. \A i \in 1..Len(ms) + 1 : b[i] = ConvertMessageToInput(a[i])
  <2> SUFFICES ASSUME NEW i \in 1..Len(ms) + 1 PROVE b[i] = ConvertMessageToInput(a[i])
    OBVIOUS
  <2>1. CASE i = Len(ms) + 1
    BY <1>1, <1>7, <2>1 DEF b, c
  <2>2. CASE i \in 1..Len(ms)
    BY <1>1, <1>3, <1>7, <2>2 DEF b
  <2> QED BY <1>1, <2>1, <2>2
<1>10. ConvertMessagesToInput(a) = b
  BY <1>5, <1>8, <1>9 DEF b
<1> QED BY <1>10 DEF a, b, s, c

\* A message of texts, uses and results is shown as it is, without the marks.
LEMMA ConvertPlain ==
  ASSUME NEW m, NEW n \in Nat, NEW b, DOMAIN m.blocks = 1..n, b = [i \in 1..n |-> b[i]],
         \A i \in 1..n : LET x == m.blocks[i]
                         IN /\ x.type \notin {"image", "file"}
                            /\ b[i] = Block(x.type, x.id, x.name, x.body)
  PROVE  IsSeq(b) /\ ConvertMessageToInput(m) = [role |-> m.role, blocks |-> b]
<1>1. IsSeq(b) /\ Len(b) = n
  BY FunctionIsSeq
<1>2. \A i \in 1..n : ConvertContentBlock(m.blocks[i]) = <<b[i]>>
  BY DEF ConvertContentBlock
<1>3. [i \in DOMAIN m.blocks |-> ConvertContentBlock(m.blocks[i])] = [i \in 1..Len(b) |-> <<b[i]>>]
  BY <1>1, <1>2
<1>4. PICK S : b \in Seq(S)
  BY <1>1 DEF IsSeq
<1>5. FlattenSeq([i \in 1..Len(b) |-> <<b[i]>>]) = b
  BY <1>4, FlattenSingles
<1> QED BY <1>1, <1>3, <1>5 DEF ConvertMessageToInput

\* The parts of a block.
LEMMA BlockParts ==
  ASSUME NEW t, NEW i, NEW n, NEW b
  PROVE  LET x == Block(t, i, n, b)
         IN /\ x.type = t /\ x.id = i /\ x.name = n /\ x.body = b
            /\ x = Block(x.type, x.id, x.name, x.body)
BY DEF Block

\* The places of two sequences joined.
LEMMA ConcatPlaces ==
  ASSUME NEW s, NEW t, IsSeq(s), IsSeq(t), NEW i \in DOMAIN (s \o t)
  PROVE  \/ i \in DOMAIN s /\ i \in 1..Len(s) /\ (s \o t)[i] = s[i]
         \/ /\ i - Len(s) \in DOMAIN t /\ i - Len(s) \in 1..Len(t)
            /\ (s \o t)[i] = t[i - Len(s)] /\ i \in Nat
<1> DEFINE u == s \o t
<1>1. /\ IsSeq(u) /\ Len(u) = Len(s) + Len(t)
      /\ \A k \in 1..Len(s) : u[k] = s[k]
      /\ \A k \in 1..Len(t) : u[Len(s) + k] = t[k]
  BY ConcatIsSeq
<1>2. /\ Len(s) \in Nat /\ DOMAIN s = 1..Len(s) /\ Len(t) \in Nat /\ DOMAIN t = 1..Len(t)
      /\ DOMAIN u = 1..Len(u) /\ i \in DOMAIN u
  BY <1>1, SeqIsFunction
<1> HIDE DEF u
<1>3. CASE i <= Len(s)
  BY <1>1, <1>2, <1>3 DEF u
<1>4. CASE ~ (i <= Len(s))
  <2>1. i - Len(s) \in 1..Len(t) /\ Len(s) + (i - Len(s)) = i /\ i \in Nat
    BY <1>1, <1>2, <1>4
  <2> QED BY <1>1, <1>2, <2>1 DEF u
<1> QED BY <1>3, <1>4

\* A response is shown as chat_loop sends it on: its texts, and then one use for
\* each of its tool calls.
LEMMA ResponseShown ==
  ASSUME NEW r, NEW n \in Nat, DOMAIN r.calls = 1..n, r.texts \in Seq(STRING)
  PROVE  /\ ConvertMessageToInput(StoredResponse(r)) = SentResponse(r)
         /\ IsSeq(SentResponse(r).blocks)
         /\ \A l \in DOMAIN SentResponse(r).blocks :
              LET b == SentResponse(r).blocks[l]
              IN /\ ~ IsResult(b)
                 /\ IsUse(b) => /\ l - Len(r.texts) \in 1..n
                                /\ b.id = r.calls[l - Len(r.texts)].id
         /\ \A i \in 1..n : \E l \in DOMAIN SentResponse(r).blocks :
              LET b == SentResponse(r).blocks[l]
              IN IsUse(b) /\ b.id = r.calls[i].id /\ b.name = ToolName(r.calls[i])
<1> DEFINE text == [j \in DOMAIN r.texts |-> Text(r.texts[j])]
           use == [j \in DOMAIN r.calls |->
                     Block("use", r.calls[j].id, ToolName(r.calls[j]),
                           ParseArguments(r.calls[j]))]
           all == text \o use
           m == Len(r.texts)
<1>1. StoredResponse(r) = [role |-> "assistant", blocks |-> all]
      /\ SentResponse(r) = [role |-> "assistant", blocks |-> all]
  BY DEF StoredResponse, SentResponse
<1>2. m \in Nat /\ DOMAIN r.texts = 1..m
  OBVIOUS
<1>3. text = [j \in 1..m |-> text[j]] /\ use = [j \in 1..n |-> use[j]]
  BY <1>2
<1>4. /\ \A j \in 1..m : text[j] = Block("text", Blank, Blank, r.texts[j])
      /\ \A j \in 1..n : use[j] = Block("use", r.calls[j].id, ToolName(r.calls[j]),
                                        ParseArguments(r.calls[j]))
  BY <1>2 DEF Text
<1> HIDE DEF text, use, m
<1>5. IsSeq(text) /\ IsSeq(use) /\ Len(text) = m /\ Len(use) = n
      /\ DOMAIN text = 1..m /\ DOMAIN use = 1..n
  BY <1>2, <1>3, FunctionIsSeq
<1>6. /\ IsSeq(all) /\ Len(all) = m + n
      /\ \A i \in 1..n : all[m + i] = use[i]
  BY <1>5, ConcatIsSeq, SMTT(30)
<1>7. DOMAIN all = 1..m + n /\ m + n \in Nat /\ all = [i \in 1..m + n |-> all[i]]
  BY <1>2, <1>6, SeqIsFunction
<1>8. \A l \in DOMAIN all :
        \/ l \in 1..m /\ all[l] = text[l]
        \/ l - m \in 1..n /\ all[l] = use[l - m]
  BY <1>5, ConcatPlaces
<1> HIDE DEF all
<1>9. ASSUME NEW l \in 1..m + n
      PROVE  /\ all[l].type \in {"text", "use"}
             /\ all[l] = Block(all[l].type, all[l].id, all[l].name, all[l].body)
             /\ IsUse(all[l]) => l - m \in 1..n /\ all[l].id = r.calls[l - m].id
  <2>1. CASE l \in 1..m /\ all[l] = text[l]
    <3>1. all[l] = Block("text", Blank, Blank, r.texts[l])
      BY <1>4, <2>1
    <3> QED BY <3>1, BlockParts DEF IsUse
  <2>2. CASE l - m \in 1..n /\ all[l] = use[l - m]
    <3> DEFINE tc == r.calls[l - m]
    <3>1. all[l] = Block("use", tc.id, ToolName(tc), ParseArguments(tc))
      BY <1>4, <2>2
    <3> HIDE DEF tc
    <3>2. all[l].type = "use" /\ all[l].id = tc.id
          /\ all[l] = Block(all[l].type, all[l].id, all[l].name, all[l].body)
      BY <3>1, BlockParts
    <3> QED BY <2>2, <3>2 DEF tc
  <2> QED BY <1>7, <1>8, <2>1, <2>2
<1>10. ConvertMessageToInput(StoredResponse(r)) = [role |-> "assistant", blocks |-> all]
  <2> DEFINE msg == [role |-> "assistant", blocks |-> all]
  <2>1. msg.blocks = all /\ msg.role = "assistant"
    OBVIOUS
  <2> HIDE DEF msg
  <2>2. \A i \in 1..m + n : msg.blocks[i].type \notin {"image", "file"}
    BY <1>9, <2>1
  <2>3. ConvertMessageToInput(msg) = [role |-> msg.role, blocks |-> all]
    BY <1>7, <1>9, <2>1, <2>2, ConvertPlain, SMTT(30)
  <2> QED BY <1>1, <2>1, <2>3 DEF msg
<1>11. \A l \in DOMAIN all :
         /\ ~ IsResult(all[l])
         /\ IsUse(all[l]) => l - m \in 1..n /\ all[l].id = r.calls[l - m].id
  BY <1>7, <1>9 DEF IsResult
<1>12. \A i \in 1..n : m + i \in DOMAIN all /\ IsUse(all[m + i])
         /\ all[m + i].id = r.calls[i].id /\ all[m + i].name = ToolName(r.calls[i])
  <2> SUFFICES ASSUME NEW i \in 1..n
               PROVE  m + i \in DOMAIN all /\ IsUse(all[m + i])
                      /\ all[m + i].id = r.calls[i].id /\ all[m + i].name = ToolName(r.calls[i])
    OBVIOUS
  <2>1. m + i \in DOMAIN all
    BY <1>2, <1>7
  <2>2. all[m + i] = Block("use", r.calls[i].id, ToolName(r.calls[i]), ParseArguments(r.calls[i]))
    BY <1>4, <1>6
  <2> QED BY <2>1, <2>2, BlockParts DEF IsUse
<1> DEFINE sent == SentResponse(r)
<1>13. sent.blocks = all /\ ConvertMessageToInput(StoredResponse(r)) = sent
  BY <1>1, <1>10
<1> HIDE DEF sent
<1>14. \A i \in 1..n : \E l \in DOMAIN all :
         IsUse(all[l]) /\ all[l].id = r.calls[i].id /\ all[l].name = ToolName(r.calls[i])
  BY <1>12
<1> QED BY <1>6, <1>11, <1>13, <1>14 DEF m, sent

\* Results that are stored in one message and sent in one message each are the
\* same blocks in the same order.
LEMMA ResultsShown ==
  ASSUME NEW rs, IsSeq(rs)
  PROVE  LET shown == ConvertMessageToInput(StoredResults(rs))
         IN /\ IsSeq(shown.blocks) /\ DOMAIN shown.blocks = DOMAIN rs
            /\ \A i \in DOMAIN rs : shown.blocks[i] = Block("result", rs[i].id, rs[i].name, rs[i].fn)
            /\ Conversation(SentResults(rs)) /\ DOMAIN SentResults(rs) = DOMAIN rs
            /\ \A i \in DOMAIN rs : SentResults(rs)[i].blocks
                                      = <<Block("result", rs[i].id, rs[i].name, rs[i].fn)>>
            /\ Flat(SentResults(rs)) = Lines(shown)
<1> DEFINE n == Len(rs)
           b == [i \in 1..n |-> Block("result", rs[i].id, rs[i].name, rs[i].fn)]
           sent == SentResults(rs)
           lines == [i \in 1..n |-> <<"user", b[i]>>]
<1>1. n \in Nat /\ DOMAIN rs = 1..n
  BY SeqIsFunction
<1>2. ConvertMessageToInput(StoredResults(rs)) = [role |-> "user", blocks |-> b]
  <2> DEFINE msg == StoredResults(rs)
  <2>1. msg.role = "user" /\ DOMAIN msg.blocks = 1..n
    BY <1>1 DEF StoredResults
  <2>2. \A i \in 1..n : LET x == msg.blocks[i]
                        IN /\ x.type \notin {"image", "file"}
                           /\ b[i] = Block(x.type, x.id, x.name, x.body)
    BY <1>1 DEF StoredResults
  <2>3. b = [i \in 1..n |-> b[i]]
    OBVIOUS
  <2> HIDE DEF msg, b, n
  <2>4. ConvertMessageToInput(msg) = [role |-> msg.role, blocks |-> b]
    BY <1>1, <2>1, <2>2, <2>3, ConvertPlain
  <2> QED BY <2>1, <2>4 DEF msg
<1>3. sent = [i \in 1..n |-> [role |-> "user", blocks |-> <<b[i]>>]]
  BY <1>1 DEF SentResults
<1>4. /\ b = [i \in 1..n |-> b[i]] /\ lines = [i \in 1..n |-> lines[i]]
      /\ \A i \in 1..n : b[i] = Block("result", rs[i].id, rs[i].name, rs[i].fn)
      /\ \A i \in 1..n : lines[i] = <<"user", b[i]>>
  OBVIOUS
<1> HIDE DEF n, b, lines, sent
<1>5. IsSeq(b) /\ IsSeq(lines) /\ Len(lines) = n /\ Len(b) = n /\ DOMAIN b = 1..n
  BY <1>1, <1>4, FunctionIsSeq
<1>6. Conversation(sent) /\ DOMAIN sent = 1..n
  <2>1. sent = [i \in 1..n |-> sent[i]] /\ \A i \in 1..n : sent[i].blocks = <<b[i]>>
    BY <1>3
  <2>2. \A i \in 1..n : <<b[i]>> \in Seq({b[i]})
    OBVIOUS
  <2>3. IsSeq(sent) /\ DOMAIN sent = 1..n
    BY <1>1, <2>1, FunctionIsSeq
  <2>4. \A i \in 1..n : IsSeq(sent[i].blocks)
    BY <2>1, <2>2 DEF IsSeq
  <2> QED BY <2>3, <2>4 DEF Conversation
<1>7. Flat(sent) = lines
  <2>1. \A i \in 1..n : Lines(sent[i]) = <<lines[i]>>
    <3> SUFFICES ASSUME NEW i \in 1..n PROVE Lines(sent[i]) = <<lines[i]>>
      OBVIOUS
    <3>1. sent[i].blocks = <<b[i]>> /\ sent[i].role = "user"
      BY <1>3
    <3>2. Lines(sent[i]) = [j \in {1} |-> <<"user", b[i]>>]
      BY <3>1 DEF Lines
    <3> QED BY <1>4, <3>2
  <2>2. AllLines(sent) = [i \in 1..Len(lines) |-> <<lines[i]>>]
    BY <1>5, <1>6, <2>1 DEF AllLines
  <2>3. PICK S : lines \in Seq(S)
    BY <1>5 DEF IsSeq
  <2>4. FlattenSeq([i \in 1..Len(lines) |-> <<lines[i]>>]) = lines
    BY <2>3, FlattenSingles
  <2> QED BY <1>6, <2>2, <2>4, LinesAreSeq
<1>8. Lines([role |-> "user", blocks |-> b]) = lines
  BY <1>4, <1>5 DEF Lines
<1> QED BY <1>1, <1>2, <1>3, <1>4, <1>5, <1>6, <1>7, <1>8 DEF sent

\* What a person writes is shown without uses and results.
LEMMA UserShown ==
  ASSUME NEW content \in UserContents
  PROVE  LET shown == ConvertMessageToInput([role |-> "user", blocks |-> content]).blocks
         IN /\ IsSeq(shown)
            /\ \A l \in DOMAIN shown : ~ IsUse(shown[l]) /\ ~ IsResult(shown[l])
<1> DEFINE conv == [i \in DOMAIN content |-> ConvertContentBlock(content[i])]
           S == UNION {Range(conv[i]) : i \in DOMAIN content}
           shown == FlattenSeq(conv)
<1>1. ConvertMessageToInput([role |-> "user", blocks |-> content]).blocks = shown
  BY DEF ConvertMessageToInput
<1>2. /\ Len(content) \in Nat /\ DOMAIN content = 1..Len(content)
      /\ \A i \in DOMAIN content : content[i].type \in {"text", "image", "file"}
  BY RequestBounds
<1>3. \A i \in DOMAIN content :
        \/ ConvertContentBlock(content[i]) = <<>>
        \/ \E x : ConvertContentBlock(content[i]) = <<x>> /\ x.type = "text"
  <2> SUFFICES ASSUME NEW i \in DOMAIN content
               PROVE  \/ ConvertContentBlock(content[i]) = <<>>
                      \/ \E x : ConvertContentBlock(content[i]) = <<x>> /\ x.type = "text"
    OBVIOUS
  <2>1. \A y : Text(y).type = "text"
    BY DEF Text, Block
  <2>2. CASE content[i].type = "image"
    BY <2>2 DEF ConvertContentBlock
  <2>3. CASE content[i].type = "file"
    <3>1. ConvertContentBlock(content[i]) = FileMention(content[i].body)
      BY <2>3 DEF ConvertContentBlock
    <3>2. \A parts : FileMention(parts) \in {<<Text("url")>>, <<Text("data")>>, <<Text("id")>>, <<>>}
      BY DEF FileMention
    <3> QED BY <2>1, <3>1, <3>2
  <2>4. CASE content[i].type = "text"
    <3>1. ConvertContentBlock(content[i])
            = <<Block(content[i].type, content[i].id, content[i].name, content[i].body)>>
      BY <2>4 DEF ConvertContentBlock
    <3> QED BY <2>4, <3>1 DEF Block
  <2> QED BY <1>2, <2>2, <2>3, <2>4
<1>4. /\ \A i \in DOMAIN content : \/ conv[i] = <<>>
                                     \/ \E x : conv[i] = <<x>> /\ x.type = "text"
      /\ DOMAIN conv = DOMAIN content /\ conv = [i \in 1..Len(content) |-> conv[i]]
  BY <1>2, <1>3
<1> HIDE DEF conv
<1>5. ASSUME NEW i \in DOMAIN content
      PROVE  conv[i] \in Seq(Range(conv[i])) /\ \A x \in Range(conv[i]) : x.type = "text"
  <2>1. CASE conv[i] = <<>>
    BY <2>1 DEF Range
  <2>2. CASE conv[i] # <<>>
    <3>1. PICK x : conv[i] = <<x>> /\ x.type = "text"
      BY <1>4, <2>2
    <3> QED BY <3>1 DEF Range
  <2> QED BY <2>1, <2>2
<1>6. /\ \A i \in DOMAIN content : conv[i] \in Seq(S)
      /\ \A x \in S : x.type = "text"
  <2>1. \A i \in DOMAIN content : Range(conv[i]) \subseteq S
    OBVIOUS
  <2>2. \A i \in DOMAIN content : conv[i] \in Seq(S)
    BY <1>5, <2>1, SeqMonotonic
  <2>3. \A x \in S : x.type = "text"
    BY <1>5
  <2> QED BY <2>2, <2>3
<1> HIDE DEF S
<1>7. conv \in Seq(Seq(S))
  <2>1. conv \in [1..Len(content) -> Seq(S)]
    BY <1>2, <1>4, <1>6
  <2> QED BY <1>2, <2>1
<1>8. shown \in Seq(S)
  BY <1>7, FlattenElements
<1> HIDE DEF shown
<1>9. \A l \in DOMAIN shown : shown[l].type = "text"
  BY <1>6, <1>8
<1>10. IsSeq(shown) /\ \A l \in DOMAIN shown : ~ IsUse(shown[l]) /\ ~ IsResult(shown[l])
  BY <1>8, <1>9 DEF IsSeq, IsUse, IsResult
<1> QED BY <1>1, <1>10

-----------------------------------------------------------------------------
(* The loop and the history, and the results and their requests. *)

\* A place of a use in a conversation, and one with the id and the name of a call.
UseAt(ms, k, l) == k \in DOMAIN ms /\ l \in DOMAIN ms[k].blocks /\ IsUse(ms[k].blocks[l])
AskedAt(ms, k, l, id, name) ==
  UseAt(ms, k, l) /\ ms[k].blocks[l].id = id /\ ms[k].blocks[l].name = name

\* The tool that gave the result wrote an id of its own, or none.
Excused(fn) == \E t \in Tools : Careless(t) /\ t.fn = fn

\* The ids of the uses are told apart by their place in a history of n messages.
IdsTold(ms, n) ==
  /\ \A k, l : UseAt(ms, k, l) => \E h \in 0..n - 1, i \in Nat : ms[k].blocks[l].id = <<h, i>>
  /\ \A k, l, k2, l2 : UseAt(ms, k, l) /\ UseAt(ms, k2, l2)
                         /\ ms[k].blocks[l].id = ms[k2].blocks[l2].id => k = k2 /\ l = l2

\* Every result comes after its request.
ResultsAsked(ms) ==
  \A i \in DOMAIN ms : \A j \in DOMAIN ms[i].blocks :
    LET b == ms[i].blocks[j]
    IN IsResult(b) => \/ Excused(b.body)
                      \/ \E k \in 1..i - 1 : \E l : AskedAt(ms, k, l, b.id, b.name)

Sound(ms, n) == Conversation(ms) /\ IdsTold(ms, n) /\ ResultsAsked(ms)

\* The history may grow by messages that a conversation does not have.
LEMMA SoundLater == ASSUME NEW n \in Nat, NEW ms, Sound(ms, n)
                    PROVE  Sound(ms, n + 1)
<1>1. 0..n - 1 \subseteq 0..(n + 1) - 1
  OBVIOUS
<1> QED BY <1>1 DEF Sound, IdsTold

\* What may come next in a conversation: results of what was asked before, and
\* uses with ids of the place where they are stored.
Follows(t, ms, n) ==
  /\ Conversation(t)
  /\ \A k, l : UseAt(t, k, l) => \E i \in Nat : t[k].blocks[l].id = <<n, i>>
  /\ \A k, l, k2, l2 : UseAt(t, k, l) /\ UseAt(t, k2, l2)
                         /\ t[k].blocks[l].id = t[k2].blocks[l2].id => k = k2 /\ l = l2
  /\ \A i \in DOMAIN t : \A j \in DOMAIN t[i].blocks :
       LET b == t[i].blocks[j]
       IN IsResult(b) => \/ Excused(b.body)
                         \/ \E k \in DOMAIN ms : \E l : AskedAt(ms, k, l, b.id, b.name)

\* A conversation stays sound when such messages are added.
LEMMA SoundGrows ==
  ASSUME NEW n \in Nat, NEW ms, Sound(ms, n), NEW t, Follows(t, ms, n)
  PROVE  Sound(ms \o t, n + 1)
<1> DEFINE u == ms \o t
           m == Len(ms)
<1>1. Conversation(ms) /\ Conversation(t)
  BY DEF Sound, Follows
<1>2. Conversation(u)
  BY <1>1, FlatConcat
<1>3. IsSeq(ms) /\ IsSeq(t) /\ m \in Nat /\ DOMAIN ms = 1..m /\ DOMAIN t = 1..Len(t)
  BY <1>1, SeqIsFunction DEF Conversation
<1>4. \A k \in DOMAIN u : \/ k \in 1..m /\ u[k] = ms[k]
                          \/ k - m \in 1..Len(t) /\ u[k] = t[k - m] /\ k \in Nat
  BY <1>3, ConcatPlaces
<1>5. /\ \A k \in 1..m : k \in DOMAIN u /\ u[k] = ms[k]
      /\ DOMAIN u = 1..m + Len(t) /\ Len(t) \in Nat
  <2>1. /\ IsSeq(u) /\ Len(u) = m + Len(t) /\ \A k \in 1..m : u[k] = ms[k]
    BY <1>3, ConcatIsSeq
  <2>2. DOMAIN u = 1..m + Len(t) /\ Len(t) \in Nat
    BY <1>3, <2>1, SeqIsFunction
  <2> QED BY <1>3, <2>1, <2>2
<1> HIDE DEF u, m
<1>6. \A k, l : UseAt(u, k, l) => \/ k \in 1..m /\ UseAt(ms, k, l) /\ u[k] = ms[k]
                                  \/ k - m \in 1..Len(t) /\ UseAt(t, k - m, l) /\ u[k] = t[k - m]
                                     /\ k \in Nat
  BY <1>3, <1>4 DEF UseAt
<1>7. IdsTold(u, n + 1)
  <2>1. ASSUME NEW k, NEW l, UseAt(u, k, l)
        PROVE  /\ k \in 1..m => \E h \in 0..n - 1, i \in Nat : u[k].blocks[l].id = <<h, i>>
               /\ k \notin 1..m => \E i \in Nat : u[k].blocks[l].id = <<n, i>>
    <3>1. CASE k \in 1..m
      <4>1. UseAt(ms, k, l) /\ u[k] = ms[k]
        BY <1>3, <1>5, <2>1, <3>1 DEF UseAt
      <4> QED BY <3>1, <4>1 DEF Sound, IdsTold
    <3>2. CASE k \notin 1..m
      <4>1. UseAt(t, k - m, l) /\ u[k] = t[k - m]
        BY <1>6, <2>1, <3>2
      <4> QED BY <3>2, <4>1 DEF Follows
    <3> QED BY <3>1, <3>2
  <2>2. \A k, l : UseAt(u, k, l) =>
                    \E h \in 0..(n + 1) - 1, i \in Nat : u[k].blocks[l].id = <<h, i>>
    <3>1. 0..n - 1 \subseteq 0..(n + 1) - 1 /\ n \in 0..(n + 1) - 1
      OBVIOUS
    <3> QED BY <2>1, <3>1
  <2>3. ASSUME NEW k, NEW l, NEW k2, NEW l2, UseAt(u, k, l), UseAt(u, k2, l2),
               u[k].blocks[l].id = u[k2].blocks[l2].id
        PROVE  k = k2 /\ l = l2
    <3>1. k \in 1..m <=> k2 \in 1..m
      <4>1. \A h \in 0..n - 1 : \A i, j : <<h, i>> # <<n, j>>
        OBVIOUS
      <4> QED BY <2>1, <2>3, <4>1
    <3>2. CASE k \in 1..m /\ k2 \in 1..m
      <4>1. UseAt(ms, k, l) /\ u[k] = ms[k] /\ UseAt(ms, k2, l2) /\ u[k2] = ms[k2]
        BY <1>3, <1>5, <2>3, <3>2 DEF UseAt
      <4> QED BY <2>3, <4>1 DEF Sound, IdsTold
    <3>3. CASE k \notin 1..m /\ k2 \notin 1..m
      <4>1. UseAt(t, k - m, l) /\ u[k] = t[k - m] /\ UseAt(t, k2 - m, l2) /\ u[k2] = t[k2 - m]
            /\ k \in Nat /\ k2 \in Nat
        BY <1>6, <2>3, <3>3
      <4>2. k - m = k2 - m /\ l = l2
        BY <2>3, <4>1 DEF Follows
      <4> QED BY <1>3, <4>1, <4>2
    <3> QED BY <3>1, <3>2, <3>3
  <2> QED BY <2>2, <2>3 DEF IdsTold
<1>8. ResultsAsked(u)
  <2> SUFFICES ASSUME NEW i \in DOMAIN u, NEW j \in DOMAIN u[i].blocks, IsResult(u[i].blocks[j]),
                      ~ Excused(u[i].blocks[j].body)
               PROVE  \E k \in 1..i - 1 : \E l : AskedAt(u, k, l, u[i].blocks[j].id,
                                                         u[i].blocks[j].name)
    BY DEF ResultsAsked
  <2> DEFINE b == u[i].blocks[j]
  <2>1. \E k \in 1..i - 1 : k \in 1..m /\ \E l : AskedAt(ms, k, l, b.id, b.name)
    <3>1. CASE i \in 1..m /\ u[i] = ms[i]
      <4>1. \E k \in 1..i - 1 : \E l : AskedAt(ms, k, l, b.id, b.name)
        BY <1>3, <3>1 DEF Sound, ResultsAsked
      <4>2. 1..i - 1 \subseteq 1..m
        BY <1>3, <3>1
      <4> QED BY <4>1, <4>2
    <3>2. CASE i - m \in 1..Len(t) /\ u[i] = t[i - m] /\ i \in Nat
      <4>1. \E k \in 1..m : \E l : AskedAt(ms, k, l, b.id, b.name)
        BY <1>3, <3>2 DEF Follows
      <4>2. 1..m \subseteq 1..i - 1
        BY <1>3, <3>2
      <4> QED BY <4>1, <4>2
    <3> QED BY <1>4, <3>1, <3>2
  <2>2. \A k \in 1..m : \A l : AskedAt(ms, k, l, b.id, b.name) => AskedAt(u, k, l, b.id, b.name)
    BY <1>5 DEF AskedAt, UseAt
  <2> QED BY <2>1, <2>2
<1> QED BY <1>2, <1>7, <1>8 DEF Sound, u

\* One message may follow.
LEMMA OneFollows ==
  ASSUME NEW n, NEW ms, NEW m, IsSeq(m.blocks),
         \A l \in DOMAIN m.blocks : IsUse(m.blocks[l]) =>
           \E i \in Nat : m.blocks[l].id = <<n, i>>,
         \A l, l2 \in DOMAIN m.blocks :
           IsUse(m.blocks[l]) /\ IsUse(m.blocks[l2]) /\ m.blocks[l].id = m.blocks[l2].id => l = l2,
         \A j \in DOMAIN m.blocks : LET b == m.blocks[j]
           IN IsResult(b) => \/ Excused(b.body)
                             \/ \E k \in DOMAIN ms : \E l : AskedAt(ms, k, l, b.id, b.name)
  PROVE  Follows(<<m>>, ms, n)
<1> DEFINE t == <<m>>
<1>1. DOMAIN t = {1} /\ t[1] = m
  OBVIOUS
<1>2. Conversation(t)
  <2>1. t \in Seq({m})
    OBVIOUS
  <2>2. IsSeq(t)
    BY <2>1 DEF IsSeq
  <2> HIDE DEF t
  <2> QED BY <1>1, <2>2 DEF Conversation
<1> HIDE DEF t
<1>3. \A k, l : UseAt(t, k, l) => k = 1 /\ l \in DOMAIN m.blocks /\ IsUse(m.blocks[l]) /\ t[k] = m
  BY <1>1 DEF UseAt
<1>4. Follows(t, ms, n)
  BY <1>1, <1>2, <1>3 DEF Follows
<1> QED BY <1>4 DEF t

\* What a person writes may follow.
LEMMA UserFollows ==
  ASSUME NEW content \in UserContents, NEW ms, NEW n
  PROVE  Follows(<<ConvertMessageToInput([role |-> "user", blocks |-> content])>>, ms, n)
<1> DEFINE m == ConvertMessageToInput([role |-> "user", blocks |-> content])
<1>1. IsSeq(m.blocks) /\ \A l \in DOMAIN m.blocks : ~ IsUse(m.blocks[l]) /\ ~ IsResult(m.blocks[l])
  BY UserShown
<1> HIDE DEF m
<1>2. Follows(<<m>>, ms, n)
  BY <1>1, OneFollows
<1> QED BY <1>2 DEF m

\* A response received is a response with an id of its place for each tool call.
LEMMA ReceivedIds ==
  ASSUME NEW response \in Responses, mode \in {"chat", "stream"}
  PROVE  \A i \in DOMAIN Received(response).calls :
           i \in Nat /\ Received(response).calls[i].id = <<Len(thread), i>>
<1> DEFINE WithIds(b) == [i \in DOMAIN b |-> [b[i] EXCEPT !.id = <<Len(thread), i>>]]
<1>0. PICK t \in Texts, n \in 0..MaxBatch :
        \E b \in [1..n -> Shapes] : response = [texts |-> t, calls |-> WithIds(b)]
  BY DEF Responses
<1>1. PICK b \in [1..n -> Shapes] : response = [texts |-> t, calls |-> WithIds(b)]
  BY <1>0
<1>2. DOMAIN WithIds(b) = 1..n
      /\ \A i \in 1..n : /\ DOMAIN WithIds(b)[i] = {"id", "name", "raw", "args", "rawArgs"}
                         /\ WithIds(b)[i].id = <<Len(thread), i>>
  BY RequestBounds
<1> HIDE DEF WithIds
<1>3. CASE mode = "chat"
  BY <1>1, <1>2, <1>3 DEF Received
<1>4. CASE mode = "stream"
  <2>1. Received(response).calls = [i \in DOMAIN WithIds(b) |-> Streamed(WithIds(b)[i])]
    BY <1>1, <1>4 DEF Received
  <2>2. \A i \in 1..n : Streamed(WithIds(b)[i]).id = WithIds(b)[i].id
    BY <1>2 DEF Streamed
  <2> QED BY <1>2, <2>1, <2>2
<1> QED BY <1>3, <1>4

\* A response may follow.
LEMMA ResponseFollows ==
  ASSUME NEW r, NEW k \in Nat, DOMAIN r.calls = 1..k, r.texts \in Seq(STRING), NEW n, NEW ms,
         \A i \in 1..k : r.calls[i].id = <<n, i>>
  PROVE  Follows(<<SentResponse(r)>>, ms, n)
<1> DEFINE m == SentResponse(r)
           before == Len(r.texts)
<1>1. /\ IsSeq(m.blocks)
      /\ \A l \in DOMAIN m.blocks :
           /\ ~ IsResult(m.blocks[l])
           /\ IsUse(m.blocks[l]) => l - before \in 1..k
                                    /\ m.blocks[l].id = r.calls[l - before].id
  BY ResponseShown
<1>2. before \in Nat
  OBVIOUS
<1>3. DOMAIN m.blocks = 1..Len(m.blocks) /\ Len(m.blocks) \in Nat
  BY <1>1, SeqIsFunction
<1> HIDE DEF m, before
<1>4. \A l \in DOMAIN m.blocks : IsUse(m.blocks[l]) =>
        l \in Nat /\ l - before \in Nat /\ m.blocks[l].id = <<n, l - before>>
  BY <1>1, <1>2, <1>3, SMTT(30)
<1>5. \A l, l2 \in DOMAIN m.blocks :
        IsUse(m.blocks[l]) /\ IsUse(m.blocks[l2]) /\ m.blocks[l].id = m.blocks[l2].id => l = l2
  BY <1>2, <1>4
<1>6. Follows(<<m>>, ms, n)
  BY <1>1, <1>4, <1>5, OneFollows
<1> QED BY <1>6 DEF m

\* Results of what was asked may follow, stored in one message or sent one by one.
LEMMA ResultsFollow ==
  ASSUME NEW rs, IsSeq(rs), NEW ms, NEW n,
         \A i \in DOMAIN rs : \/ Excused(rs[i].fn)
                              \/ \E k, l : AskedAt(ms, k, l, rs[i].id, rs[i].name)
  PROVE  /\ Follows(<<ConvertMessageToInput(StoredResults(rs))>>, ms, n)
         /\ Follows(SentResults(rs), ms, n)
<1> DEFINE m == ConvertMessageToInput(StoredResults(rs))
           t == SentResults(rs)
           b(i) == Block("result", rs[i].id, rs[i].name, rs[i].fn)
<1>1. /\ IsSeq(m.blocks) /\ DOMAIN m.blocks = DOMAIN rs
      /\ \A i \in DOMAIN rs : m.blocks[i] = b(i)
      /\ Conversation(t) /\ DOMAIN t = DOMAIN rs
      /\ \A i \in DOMAIN rs : t[i].blocks = <<b(i)>>
  BY ResultsShown
<1>2. \A i : b(i).type = "result" /\ b(i).id = rs[i].id /\ b(i).name = rs[i].name
             /\ b(i).body = rs[i].fn
  BY BlockParts
<1> HIDE DEF m, t, b
<1>3. \A i : ~ IsUse(b(i))
  BY <1>2 DEF IsUse
<1>4. \A i \in DOMAIN rs : \/ Excused(b(i).body)
                           \/ \E k \in DOMAIN ms : \E l : AskedAt(ms, k, l, b(i).id, b(i).name)
  BY <1>2 DEF AskedAt, UseAt
<1>5. Follows(<<m>>, ms, n)
  <2>1. \A l \in DOMAIN m.blocks : ~ IsUse(m.blocks[l])
    BY <1>1, <1>3
  <2>2. \A l \in DOMAIN m.blocks :
          \/ Excused(m.blocks[l].body)
          \/ \E k \in DOMAIN ms : \E l2 : AskedAt(ms, k, l2, m.blocks[l].id, m.blocks[l].name)
    BY <1>1, <1>4
  <2> QED BY <1>1, <2>1, <2>2, OneFollows
<1>6. Follows(t, ms, n)
  <2>1. \A i \in DOMAIN t : \A j \in DOMAIN t[i].blocks : i \in DOMAIN rs /\ t[i].blocks[j] = b(i)
    BY <1>1
  <2>2. \A i, j : ~ UseAt(t, i, j)
    BY <1>3, <2>1 DEF UseAt
  <2> QED BY <1>1, <1>4, <2>1, <2>2 DEF Follows
<1> QED BY <1>5, <1>6 DEF m, t

\* The result of a tool carries the id and the name of its call, or the tool
\* wrote others itself.
LEMMA ResultNamed ==
  ASSUME NEW ts \in Seq(Tools), NEW id, NEW name
  PROVE  LET result == RunByName(ts, id, name)
         IN Excused(result.fn) \/ (result.id = id /\ result.name = name)
<1> DEFINE place == Get(ts, name)
<1>1. DOMAIN ts = 1..Len(ts) /\ Len(ts) \in Nat
  OBVIOUS
<1>2. place = 0 \/ place \in 1..Len(ts)
  <2>1. CASE Same(ts, name) # {}
    <3>1. Same(ts, name) \subseteq Nat /\ Same(ts, name) \subseteq 1..Len(ts)
      BY <1>1 DEF Same
    <3>2. FirstOf(Same(ts, name)) \in 1..Len(ts)
      BY <2>1, <3>1, FirstIsIn
    <3> QED BY <1>1, <2>1, <3>2, GetFirst
  <2> QED BY <1>1, <2>1, GetFirst
<1> HIDE DEF place
<1>3. CASE place = 0
  <2>1. RunByName(ts, id, name) = NotFound(id, name)
    BY <1>3 DEF RunByName, place
  <2> QED BY <2>1 DEF NotFound
<1>4. CASE place # 0
  <2> DEFINE tool == ts[place]
             called == Called(tool, id, name)
  <2>1. tool \in Tools /\ tool.says \in {"nothing", "context", "other"}
    BY <1>2, <1>4, RequestBounds
  <2>2. RunByName(ts, id, name) = Execute(tool, id, name)
    BY <1>4 DEF RunByName, place
  <2> HIDE DEF tool
  <2>3. CASE Careless(tool)
    BY <2>1, <2>2, <2>3, ExecuteKeepsFn DEF Excused
  <2>4. CASE ~ Careless(tool) /\ tool.says = "context"
    <3>1. called.id = id /\ called.name = name
      BY <2>4 DEF Called
    <3>2. Filled(called, id, name).id = id /\ Filled(called, id, name).name = name
      BY <3>1 DEF Filled, Called
    <3> QED BY <2>2, <3>1, <3>2 DEF Execute
  <2>5. CASE ~ Careless(tool) /\ tool.says = "nothing"
    <3>1. tool.simple /\ called.id = Blank /\ called.name = Blank
      BY <2>5 DEF Called, Careless
    <3>2. Filled(called, id, name).id = id /\ Filled(called, id, name).name = name
      BY <3>1 DEF Filled, Called
    <3> QED BY <2>2, <3>1, <3>2 DEF Execute
  <2> QED BY <2>1, <2>3, <2>4, <2>5 DEF Careless
<1> QED BY <1>3, <1>4

\* The history as it would be sent, and the call that has loaded all of it.
Shown == ConvertMessagesToInput(thread)
Running == {"infer", "answer", "tools", "save"}
Requested(ms, tc) == \E k, l : AskedAt(ms, k, l, tc.id, ToolName(tc))

\* Both the history and the messages of a call without a filter are sound, and
\* say the same; the calls in hand are asked in both; the results answer them.
Agreeing ==
  /\ Sound(Shown, Len(thread))
  /\ pc \in Running /\ settings.context = None =>
       Sound(input, Len(thread)) /\ Flat(Shown) = Flat(input)
  /\ pc \in {"tools", "save"} => \A i \in DOMAIN calls :
       /\ Requested(Shown, calls[i])
       /\ settings.context = None => Requested(input, calls[i])
  /\ pc \in {"tools", "save"} => \A i \in DOMAIN results :
       \/ Excused(results[i].fn)
       \/ results[i].id = calls[i].id /\ results[i].name = ToolName(calls[i])
  /\ settings.context = None => ResultsAnswerCalls

\* ResultsAnswerCalls, of some messages.
AnswersIn(ms) ==
  \A i \in DOMAIN ms : \A j \in DOMAIN ms[i].blocks :
    LET result == ms[i].blocks[j]
        Asked == UNION {{<<k, l>> : l \in {m \in DOMAIN ms[k].blocks :
                           LET b == ms[k].blocks[m]
                           IN IsUse(b) /\ b.id = result.id /\ b.name = result.name}} :
                        k \in 1..i - 1}
    IN IsResult(result) => Cardinality(Asked) = 1 \/ Excused(result.body)

\* In a sound conversation every result answers one call.
LEMMA SoundAnswers == ASSUME NEW n, NEW ms, Sound(ms, n)
                      PROVE  AnswersIn(ms)
<1> DEFINE AskedIn(i, b) ==
             UNION {{<<k, l>> : l \in {m \in DOMAIN ms[k].blocks :
                                         LET x == ms[k].blocks[m]
                                         IN IsUse(x) /\ x.id = b.id /\ x.name = b.name}} :
                    k \in 1..i - 1}
<1>1. ASSUME NEW i \in DOMAIN ms, NEW j \in DOMAIN ms[i].blocks, IsResult(ms[i].blocks[j])
      PROVE  Excused(ms[i].blocks[j].body) \/ Cardinality(AskedIn(i, ms[i].blocks[j])) = 1
  <2> DEFINE b == ms[i].blocks[j]
  <2>1. SUFFICES ASSUME ~ Excused(b.body) PROVE Cardinality(AskedIn(i, b)) = 1
    OBVIOUS
  <2>2. PICK k \in 1..i - 1 : \E l : AskedAt(ms, k, l, b.id, b.name)
    BY <1>1, <2>1 DEF Sound, ResultsAsked
  <2>3. PICK l : AskedAt(ms, k, l, b.id, b.name)
    BY <2>2
  <2> HIDE DEF b
  <2>4. <<k, l>> \in AskedIn(i, b)
    BY <2>3 DEF AskedAt, UseAt
  <2>5. DOMAIN ms = 1..Len(ms) /\ Len(ms) \in Nat
    BY SeqIsFunction DEF Sound, Conversation
  <2>6. ASSUME NEW x \in AskedIn(i, b) PROVE x = <<k, l>>
    <3>1. PICK k2 \in 1..i - 1 : \E m \in DOMAIN ms[k2].blocks :
            /\ x = <<k2, m>> /\ IsUse(ms[k2].blocks[m]) /\ ms[k2].blocks[m].id = b.id
      BY <2>6
    <3>2. PICK m \in DOMAIN ms[k2].blocks :
            /\ x = <<k2, m>> /\ IsUse(ms[k2].blocks[m]) /\ ms[k2].blocks[m].id = b.id
      BY <3>1
    <3>3. UseAt(ms, k2, m) /\ UseAt(ms, k, l) /\ ms[k].blocks[l].id = ms[k2].blocks[m].id
      <4>1. k2 \in DOMAIN ms
        BY <2>5
      <4> QED BY <2>3, <3>2, <4>1 DEF AskedAt, UseAt
    <3> QED BY <3>2, <3>3 DEF Sound, IdsTold
  <2> HIDE DEF AskedIn
  <2>7. AskedIn(i, b) = {<<k, l>>}
    BY <2>4, <2>6
  <2> QED BY <2>7, FS_Singleton
<1> QED BY <1>1 DEF AnswersIn

\* A message is stored.
LEMMA ShownGrows ==
  ASSUME CallsAreRecorded, Sound(Shown, Len(thread)), NEW m,
         Follows(<<ConvertMessageToInput(m)>>, Shown, Len(thread)),
         thread' \in {thread, Append(thread, m)}
  PROVE  /\ Sound(Shown', Len(thread'))
         /\ thread' = Append(thread, m) =>
              /\ Shown' = Append(Shown, ConvertMessageToInput(m))
              /\ Shown' = Shown \o <<ConvertMessageToInput(m)>>
              /\ Len(thread') = Len(thread) + 1
<1>1. CASE thread' = thread
  <2>1. Append(thread, m) # thread
    BY AppendIsSeq DEF CallsAreRecorded
  <2>2. Shown' = Shown
    BY <1>1 DEF Shown
  <2> QED BY <1>1, <2>1, <2>2
<1>2. CASE thread' = Append(thread, m)
  <2> DEFINE c == ConvertMessageToInput(m)
  <2>1. IsSeq(thread) /\ Len(thread') = Len(thread) + 1 /\ Len(thread) \in Nat
    BY <1>2, AppendIsSeq DEF CallsAreRecorded
  <2>2. Shown' = Append(Shown, c)
    BY <1>2, <2>1, ConvertAppend DEF Shown
  <2>3. IsSeq(c.blocks)
    <3>1. Conversation(<<c>>)
      BY DEF Follows
    <3> QED BY <3>1 DEF Conversation
  <2>4. Append(Shown, c) = Shown \o <<c>>
    BY <2>3, FlatAppend DEF Sound
  <2>5. Sound(Shown \o <<c>>, Len(thread) + 1)
    BY <2>1, SoundGrows
  <2> QED BY <1>2, <2>1, <2>2, <2>4, <2>5
<1> QED BY <1>1, <1>2

\* What is asked stays asked when messages are added.
LEMMA StaysAsked ==
  ASSUME NEW ms, NEW t, Conversation(ms), Conversation(t), NEW id, NEW name, NEW k, NEW l,
         AskedAt(ms, k, l, id, name)
  PROVE  AskedAt(ms \o t, k, l, id, name)
<1> DEFINE u == ms \o t
<1>1. IsSeq(u) /\ Len(u) = Len(ms) + Len(t) /\ \A i \in 1..Len(ms) : u[i] = ms[i]
  BY ConcatIsSeq DEF Conversation
<1>2. /\ DOMAIN u = 1..Len(u) /\ DOMAIN ms = 1..Len(ms) /\ Len(ms) \in Nat /\ Len(t) \in Nat
  BY <1>1, SeqIsFunction DEF Conversation
<1> HIDE DEF u
<1>3. k \in DOMAIN u /\ u[k] = ms[k]
  BY <1>1, <1>2 DEF AskedAt, UseAt
<1> QED BY <1>3 DEF AskedAt, UseAt, u

\* The tool calls of a response are asked where it has been added.
LEMMA ResponseAsks ==
  ASSUME NEW ms, Conversation(ms), NEW r, NEW n \in Nat, DOMAIN r.calls = 1..n,
         r.texts \in Seq(STRING), NEW i \in 1..n
  PROVE  Requested(ms \o <<SentResponse(r)>>, r.calls[i])
<1> DEFINE m == SentResponse(r)
           u == ms \o <<m>>
<1>1. PICK l \in DOMAIN m.blocks : /\ IsUse(m.blocks[l]) /\ m.blocks[l].id = r.calls[i].id
                                   /\ m.blocks[l].name = ToolName(r.calls[i])
  BY ResponseShown
<1>2. IsSeq(m.blocks)
  BY ResponseShown
<1> HIDE DEF m
<1>3. u = Append(ms, m)
  BY <1>2, FlatAppend
<1> HIDE DEF u
<1>4. Len(u) = Len(ms) + 1 /\ u[Len(ms) + 1] = m /\ Len(ms) \in Nat /\ IsSeq(u)
  <2>1. IsSeq(ms)
    BY DEF Conversation
  <2> QED BY <1>3, <2>1, AppendIsSeq
<1>5. Len(ms) + 1 \in DOMAIN u
  BY <1>4, SeqIsFunction
<1>6. AskedAt(u, Len(ms) + 1, l, r.calls[i].id, ToolName(r.calls[i]))
  BY <1>1, <1>4, <1>5 DEF AskedAt, UseAt
<1> QED BY <1>6 DEF Requested, u, m

\* The person's message is stored, and nothing has been asked yet.
LEMMA AgreeingBegin == ASSUME CallInv, Agreeing, Begin
                       PROVE  Agreeing'
<1>1. /\ pc' \in {"idle", "load"} /\ request' = None /\ UNCHANGED settings
      /\ \E content \in UserContents :
           thread' \in {thread, Append(thread, [role |-> "user", blocks |-> content])}
  BY DEF Begin, Stores, StoreFails, agentVars
<1>2. PICK content \in UserContents :
        thread' \in {thread, Append(thread, [role |-> "user", blocks |-> content])}
  BY <1>1
<1>3. Follows(<<ConvertMessageToInput([role |-> "user", blocks |-> content])>>, Shown, Len(thread))
  BY UserFollows
<1>4. Sound(Shown', Len(thread'))
  BY <1>2, <1>3, ShownGrows DEF CallInv, Agreeing
<1>5. ResultsAnswerCalls'
  BY <1>1 DEF ResultsAnswerCalls
<1> QED BY <1>1, <1>4, <1>5 DEF Agreeing, Running

\* The history is loaded as it is.
LEMMA AgreeingLoad == ASSUME CallInv, Agreeing, Load
                      PROVE  Agreeing'
<1>1. /\ UNCHANGED <<thread, settings, request>> /\ pc' \in {"idle", "infer"}
      /\ input' = ConvertMessagesToInput(FilterContextMessages(thread, FALSE))
  BY DEF Load, NextIteration, agentVars
<1>2. Shown' = Shown
  BY <1>1 DEF Shown
<1>3. settings.context = None => input' = Shown
  BY <1>1 DEF FilterContextMessages, Shown
<1>4. ResultsAnswerCalls <=> ResultsAnswerCalls'
  BY <1>1 DEF ResultsAnswerCalls
<1> QED BY <1>1, <1>2, <1>3, <1>4 DEF Agreeing

\* What is sent is sound.
LEMMA AgreeingSend == ASSUME CallInv, Agreeing, SendRequest
                      PROVE  Agreeing'
<1>1. /\ UNCHANGED <<thread, settings, input>> /\ pc = "infer" /\ pc' = "answer"
      /\ request'.messages = input
  BY DEF SendRequest, loopVars, agentVars, ChatRequest, StreamRequest
<1>2. Shown' = Shown
  BY <1>1 DEF Shown
<1>3. settings.context = None => Sound(request'.messages, Len(thread'))
  BY <1>1 DEF Agreeing, Running
<1>4. settings.context = None => AnswersIn(request'.messages)
  BY <1>3, SoundAnswers
<1>5. AnswersIn(request'.messages) => ResultsAnswerCalls'
  BY DEF AnswersIn, Excused, ResultsAnswerCalls
<1> QED BY <1>1, <1>2, <1>4, <1>5 DEF Agreeing, Running

\* The response is stored and sent on: the same blocks on both sides.
LEMMA AgreeingAnswer == ASSUME CallInv, Agreeing, Answer
                        PROVE  Agreeing'
<1>1. PICK response \in Responses :
        LET r == Received(response)
        IN \/ pc' = "idle" /\ thread' \in {thread, Append(thread, StoredResponse(r))}
           \/ /\ pc' = "tools" /\ thread' = Append(thread, StoredResponse(r))
              /\ input' = Append(input, SentResponse(r))
              /\ calls' = r.calls /\ results' = <<>>
  BY DEF Answer, StoreFails, Stores
<1>2. pc = "answer" /\ UNCHANGED <<mode, settings, request>>
  BY DEF Answer, agentVars
<1> DEFINE r == Received(response)
           shown == ConvertMessageToInput(StoredResponse(r))
           n == Len(thread)
<1>3. mode \in {"chat", "stream"} /\ IsSeq(thread) /\ n \in Nat
  BY SeqIsFunction DEF CallInv, CallsAreRecorded
<1>4. PICK k \in Nat : DOMAIN r.calls = 1..k /\ r.texts \in Seq(STRING)
  BY <1>3, ReceivedCalls
<1>5. \A i \in 1..k : r.calls[i].id = <<n, i>>
  BY <1>3, <1>4, ReceivedIds
<1> HIDE DEF r, n
<1>6. shown = SentResponse(r) /\ IsSeq(SentResponse(r).blocks)
  BY <1>4, ResponseShown
<1>7. \A ms : Follows(<<SentResponse(r)>>, ms, n)
  BY <1>4, <1>5, ResponseFollows
<1>8. /\ Sound(Shown', Len(thread'))
      /\ thread' = Append(thread, StoredResponse(r)) =>
           /\ Shown' = Append(Shown, SentResponse(r))
           /\ Shown' = Shown \o <<SentResponse(r)>>
           /\ Len(thread') = n + 1
  <2>1. thread' \in {thread, Append(thread, StoredResponse(r))}
    BY <1>1 DEF r
  <2>2. Follows(<<shown>>, Shown, n)
    BY <1>6, <1>7
  <2> QED BY <1>6, <2>1, <2>2, ShownGrows DEF CallInv, Agreeing, n
<1>9. ResultsAnswerCalls <=> ResultsAnswerCalls'
  BY <1>2 DEF ResultsAnswerCalls
<1>10. CASE pc' = "idle"
  BY <1>2, <1>8, <1>9, <1>10 DEF Agreeing, Running
<1>11. CASE /\ pc' = "tools" /\ thread' = Append(thread, StoredResponse(r))
            /\ input' = Append(input, SentResponse(r))
            /\ calls' = r.calls /\ results' = <<>>
  <2> DEFINE c == SentResponse(r)
  <2>1. Conversation(<<c>>)
    BY <1>7 DEF Follows
  <2>2. /\ Sound(Shown, n) /\ Flat(Append(Shown, c)) = Flat(Shown) \o Lines(c)
    BY <1>6, FlatAppend DEF Agreeing, Sound, n
  <2>3. ASSUME settings.context = None
        PROVE  /\ Sound(input', Len(thread')) /\ Flat(Shown') = Flat(input')
               /\ input' = input \o <<c>> /\ Conversation(input)
    <3>1. Sound(input, n) /\ Flat(Shown) = Flat(input)
      BY <1>2, <2>3 DEF Agreeing, Running, n
    <3>2. Conversation(input)
      BY <3>1 DEF Sound
    <3>3. Append(input, c) = input \o <<c>> /\ Flat(Append(input, c)) = Flat(input) \o Lines(c)
      BY <1>6, <3>2, FlatAppend
    <3>4. Sound(input \o <<c>>, n + 1)
      BY <1>3, <1>7, <3>1, SoundGrows
    <3>5. Flat(input') = Flat(Append(input, c))
      BY <1>11
    <3>6. Flat(Shown') = Flat(Append(Shown, c))
      BY <1>8, <1>11
    <3> QED BY <1>8, <1>11, <2>2, <3>1, <3>2, <3>3, <3>4, <3>5, <3>6
  <2>4. ASSUME NEW i \in DOMAIN calls'
        PROVE  /\ Requested(Shown', calls'[i])
               /\ settings.context = None => Requested(input', calls'[i])
    <3>1. i \in 1..k /\ calls'[i] = r.calls[i]
      BY <1>4, <1>11
    <3>2. Conversation(Shown)
      BY <2>2 DEF Sound
    <3>3. Requested(Shown \o <<c>>, r.calls[i])
      BY <1>4, <3>1, <3>2, ResponseAsks
    <3>4. settings.context = None => Requested(input \o <<c>>, r.calls[i])
      BY <1>4, <2>3, <3>1, ResponseAsks
    <3> QED BY <1>8, <1>11, <2>3, <3>1, <3>3, <3>4
  <2> HIDE DEF c
  <2> QED BY <1>2, <1>8, <1>9, <1>11, <2>3, <2>4 DEF Agreeing, Running
<1> QED BY <1>1, <1>10, <1>11 DEF r

\* A tool runs, and its result answers its call.
LEMMA AgreeingTool == ASSUME CallInv, Agreeing, RunTool
                      PROVE  Agreeing'
<1> DEFINE tc == calls[Len(results) + 1]
           result == RunByName(tools, tc.id, ToolName(tc))
<1>1. /\ pc = "tools" /\ pc' \in {"tools", "save"}
      /\ UNCHANGED <<thread, settings, input, calls, request>>
      /\ \E e : /\ results' = Append(results, e)
                /\ e.id = result.id /\ e.name = result.name /\ e.fn = result.fn
  BY DEF RunTool, ToolsInForce, agentVars
<1>2. Excused(result.fn) \/ (result.id = tc.id /\ result.name = ToolName(tc))
  <2>1. tools \in Seq(Tools)
    <3>1. registry \in Seq(Tools) /\ tools = SubSeq(registry, 1, Len(tools))
          /\ Len(tools) \in 0..Len(registry)
      BY DEF CallInv, Typed, TypeOK
    <3> QED BY <3>1
  <2> QED BY <2>1, ResultNamed
<1> HIDE DEF tc, result
<1>3. PICK e : /\ results' = Append(results, e)
               /\ e.id = result.id /\ e.name = result.name /\ e.fn = result.fn
  BY <1>1
<1>4. /\ Len(results) \in Nat /\ DOMAIN results = 1..Len(results)
      /\ IsSeq(results') /\ Len(results') = Len(results) + 1
      /\ \A i \in 1..Len(results) : results'[i] = results[i]
      /\ results'[Len(results) + 1] = e
  BY <1>3, AppendIsSeq DEF CallInv, CallsAreRecorded
<1>5. DOMAIN results' = 1..Len(results) + 1
  BY <1>4, SeqIsFunction
<1>6. ASSUME NEW i \in DOMAIN results'
      PROVE  \/ Excused(results'[i].fn)
             \/ results'[i].id = calls[i].id /\ results'[i].name = ToolName(calls[i])
  <2>1. CASE i = Len(results) + 1
    BY <1>2, <1>3, <1>4, <2>1 DEF tc
  <2>2. CASE i \in 1..Len(results)
    BY <1>1, <1>4, <2>2 DEF Agreeing
  <2> QED BY <1>4, <1>5, <2>1, <2>2
<1>7. Shown' = Shown /\ (ResultsAnswerCalls <=> ResultsAnswerCalls')
  BY <1>1 DEF Shown, ResultsAnswerCalls
<1> QED BY <1>1, <1>6, <1>7 DEF Agreeing, Running

\* The results are stored in one message and sent on in one each.
LEMMA AgreeingSave == ASSUME CallInv, Agreeing, SaveResults
                      PROVE  Agreeing'
<1> DEFINE stored == StoredResults(results)
           c == ConvertMessageToInput(stored)
           sent == SentResults(results)
           n == Len(thread)
<1>1. /\ pc = "save" /\ UNCHANGED <<settings, calls, results, request>>
      /\ \/ pc' = "idle" /\ thread' \in {thread, Append(thread, stored)}
         \/ /\ pc' \in {"idle", "infer"} /\ thread' = Append(thread, stored)
            /\ input' = input \o sent
  BY DEF SaveResults, StoreFails, Stores, NextIteration, agentVars
<1>2. IsSeq(results) /\ DOMAIN results \subseteq DOMAIN calls
  <2>1. PICK m \in Nat : DOMAIN calls = 1..m /\ Len(results) <= m
    BY <1>1 DEF CallInv, CallsAreRecorded
  <2>2. IsSeq(results)
    BY DEF CallInv, CallsAreRecorded
  <2>3. DOMAIN results = 1..Len(results) /\ Len(results) \in Nat
    BY <2>2, SeqIsFunction
  <2> QED BY <2>1, <2>2, <2>3
<1>3. n \in Nat
  BY SeqIsFunction DEF CallInv, CallsAreRecorded
<1>4. ASSUME NEW ms, \A i \in DOMAIN calls : Requested(ms, calls[i])
      PROVE  Follows(<<c>>, ms, n) /\ Follows(sent, ms, n)
  <2>1. \A i \in DOMAIN results : \/ Excused(results[i].fn)
                                  \/ \E k, l : AskedAt(ms, k, l, results[i].id, results[i].name)
    <3> SUFFICES ASSUME NEW i \in DOMAIN results, ~ Excused(results[i].fn)
                 PROVE  \E k, l : AskedAt(ms, k, l, results[i].id, results[i].name)
      OBVIOUS
    <3>1. results[i].id = calls[i].id /\ results[i].name = ToolName(calls[i])
      BY <1>1 DEF Agreeing
    <3>2. Requested(ms, calls[i])
      BY <1>2, <1>4
    <3> QED BY <3>1, <3>2 DEF Requested
  <2> QED BY <1>2, <2>1, ResultsFollow
<1>5. Follows(<<c>>, Shown, n)
  BY <1>1, <1>4 DEF Agreeing
<1> HIDE DEF n, stored
<1>6. /\ Sound(Shown', Len(thread'))
      /\ thread' = Append(thread, stored) => Shown' = Append(Shown, c) /\ Len(thread') = n + 1
  BY <1>1, <1>5, ShownGrows DEF CallInv, Agreeing, n
<1>7. ResultsAnswerCalls <=> ResultsAnswerCalls'
  BY <1>1 DEF ResultsAnswerCalls
<1>8. CASE pc' = "idle"
  BY <1>1, <1>6, <1>7, <1>8 DEF Agreeing, Running
<1>9. CASE pc' = "infer" /\ thread' = Append(thread, stored) /\ input' = input \o sent
  <2>1. ASSUME settings.context = None
        PROVE  Sound(input', Len(thread')) /\ Flat(Shown') = Flat(input')
    <3>1. Sound(input, n) /\ Flat(Shown) = Flat(input) /\ Sound(Shown, n)
          /\ \A i \in DOMAIN calls : Requested(input, calls[i])
      BY <1>1, <2>1 DEF Agreeing, Running, n
    <3>2. Sound(input \o sent, n + 1)
      BY <1>3, <1>4, <3>1, SoundGrows
    <3>3. IsSeq(c.blocks) /\ Conversation(sent) /\ Flat(sent) = Lines(c)
      BY <1>2, ResultsShown DEF stored
    <3>4. Conversation(input) /\ Conversation(Shown)
      BY <3>1 DEF Sound
    <3> HIDE DEF c, sent
    <3>5. Flat(input \o sent) = Flat(input) \o Lines(c)
      BY <3>3, <3>4, FlatConcat
    <3>6. Flat(Append(Shown, c)) = Flat(Shown) \o Lines(c)
      BY <3>3, <3>4, FlatAppend
    <3>7. Flat(input') = Flat(input \o sent) /\ Flat(Shown') = Flat(Append(Shown, c))
      BY <1>6, <1>9
    <3> QED BY <1>6, <1>9, <3>1, <3>2, <3>5, <3>6, <3>7
  <2> QED BY <1>1, <1>6, <1>7, <1>9, <2>1 DEF Agreeing, Running
<1> QED BY <1>1, <1>8, <1>9

\* The other steps leave the thread and the request alone.
LEMMA AgreeingRest ==
  ASSUME CallInv, Agreeing, UNCHANGED <<thread, request>>,
         \/ pc' \notin Running /\ UNCHANGED settings
         \/ pc' = "building" /\ pc = "building"
         \/ UNCHANGED <<settings, pc, input, calls, results>>
  PROVE  Agreeing'
<1>1. Shown' = Shown /\ (ResultsAnswerCalls <=> ResultsAnswerCalls')
  BY DEF Shown, ResultsAnswerCalls
<1>2. CASE pc' \notin Running /\ UNCHANGED settings
  BY <1>1, <1>2 DEF Agreeing, Running
<1>3. CASE pc' = "building" /\ pc = "building"
  <2>1. request = None
    BY <1>3 DEF CallInv, Growing
  <2>2. ResultsAnswerCalls'
    BY <2>1 DEF ResultsAnswerCalls
  <2> QED BY <1>1, <1>3, <2>2 DEF Agreeing, Running
<1>4. CASE UNCHANGED <<settings, pc, input, calls, results>>
  BY <1>1, <1>4 DEF Agreeing
<1> QED BY <1>2, <1>3, <1>4

\* Every state has a sound history and agreeing messages.
LEMMA AgreeInvariant == Spec => [](CallInv /\ Agreeing)
<1>1. Init => Agreeing
  <2> SUFFICES ASSUME Init PROVE Agreeing
    OBVIOUS
  <2>1. thread = <<>> /\ pc = "building" /\ request = None
    BY DEF Init
  <2>2. Shown = <<>> /\ Len(thread) = 0
    BY <2>1 DEF Shown, ConvertMessagesToInput
  <2>3. IsSeq(<<>>)
    BY DEF IsSeq
  <2>4. Sound(Shown, Len(thread))
    BY <2>2, <2>3 DEF Sound, Conversation, IdsTold, UseAt, ResultsAsked
  <2> QED BY <2>1, <2>4 DEF Agreeing, Running, ResultsAnswerCalls
<1>2. CallInv /\ Agreeing /\ [Next]_vars => Agreeing'
  <2> SUFFICES ASSUME CallInv, Agreeing, [Next]_vars PROVE Agreeing'
    OBVIOUS
  <2>1. CASE Begin \/ Load \/ SendRequest \/ Answer \/ RunTool \/ SaveResults
    BY <2>1, AgreeingBegin, AgreeingLoad, AgreeingSend, AgreeingAnswer, AgreeingTool,
       AgreeingSave
  <2>2. CASE Configure \/ NameTarget \/ GiveTools
    <3>1. UNCHANGED <<thread, request, pc>> /\ pc = "building"
      BY <2>2 DEF Configure, NameTarget, GiveTools, usageVars
    <3> QED BY <3>1, AgreeingRest
  <2>3. CASE Build \/ Fail
    <3>1. UNCHANGED <<thread, request, settings>> /\ pc' \in {"idle", "rejected"}
      BY <2>3 DEF Build, Fail, agentVars
    <3> QED BY <3>1, AgreeingRest DEF Running
  <2>4. CASE AddTool \/ UNCHANGED vars
    <3>1. UNCHANGED <<thread, request, settings, pc, input, calls, results>>
      BY <2>4 DEF AddTool, vars, loopVars, agentVars
    <3> QED BY <3>1, AgreeingRest
  <2> QED BY <2>1, <2>2, <2>3, <2>4 DEF Next
<1> QED BY <1>1, <1>2, CallInvariant, PTL DEF Spec

\* What a call without a filter sends and will send is what the next call reads
\* back and converts, block by block.
THEOREM LoopAgrees == Spec => []LoopAgreesWithHistory
<1>1. Agreeing => LoopAgreesWithHistory
  BY DEF Agreeing, LoopAgreesWithHistory, Running, Shown
<1> QED BY <1>1, AgreeInvariant, PTL

\* As long as no filter is configured, a result that is sent answers exactly one
\* call sent before it, unless its tool wrote otherwise; with a filter this does
\* not hold of every configuration, for deduplication drops requests.
THEOREM ResultsAnswer == Spec => [](settings.context = None => ResultsAnswerCalls)
<1>1. Agreeing => (settings.context = None => ResultsAnswerCalls)
  BY DEF Agreeing
<1> QED BY <1>1, AgreeInvariant, PTL
=============================================================================
