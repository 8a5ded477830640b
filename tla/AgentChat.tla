------------------------------ MODULE AgentChat ------------------------------
(***************************************************************************)
(* Agent::chat (crates/adk/src/agent/core.rs): concurrent chat calls on    *)
(* shared threads, each a chain of awaits on the database, the gateway and *)
(* the tools, with no transaction and no lock around any two of them.      *)
(*                                                                         *)
(* pc[c] names the await at which call c is suspended; an action is the    *)
(* completion of that await and the code up to the next one.  The same     *)
(* chain is what StreamExecutor::execute follows for chat_stream.          *)
(*                                                                         *)
(* The application's own edits (delete_message, delete_messages_after,     *)
(* delete_thread) run between any two of these steps.                      *)
(***************************************************************************)
EXTENDS ConversationStore, Sequences

CONSTANTS Calls,          \* the chat calls
          MaxIterations,  \* Agent.max_iterations
          MaxBatch,       \* bound: tool calls in one gateway response
          ClockSteps,     \* how far the clock moves between two stamps
          MaxEdits        \* bound: edits by the application

ASSUME BudgetAssumption == MaxIterations \in Nat
ASSUME BatchAssumption == MaxBatch \in Nat
ASSUME ClockAssumption == ClockSteps \subseteq Nat
ASSUME EditsAssumption == MaxEdits \in Nat

VARIABLES
  clock,      \* the wall clock, Utc::now()
  pc,         \* the await each call is suspended at
  on,         \* the thread the call was given
  iteration,  \* the local `iteration` of chat_loop
  batch,      \* the number of tool calls in the response in hand
  results,    \* the number of tool results collected for that response
  stamp,      \* created_at of the message the call has built last
  context,    \* the messages loaded as history for the call
  outcome,    \* how the call ended
  wrote,      \* history: kinds of the messages the call has stored
  ran,        \* history: <<round, i>> for each tool run, in order
  before,     \* history: the calls that had ended when this one began
  edits       \* the number of edits so far

callVars == <<pc, on, iteration, batch, results, stamp, context, outcome,
              wrote, ran, before>>
vars == <<storeVars, clock, callVars, edits>>

Inserting == {"insertUser", "insertToolUse", "insertResults", "insertReply"}
Running == Inserting \union {"load", "infer", "tools"}
Outcomes == {"none", "ok", "thread_not_found", "storage_error", "gateway_error",
             "max_iterations", "abandoned"}

\* The next tool to run: tool calls are taken in the order of the response.
\* Slip: last call first.
NextToolLastFirst(c) == <<iteration[c], batch[c] - results[c]>>
NextTool(c) == <<iteration[c], results[c] + 1>>

\* The message a call is about to store: its id and created_at are fixed when
\* it is built, before the INSERT is awaited.
KindAt == [insertUser |-> "user", insertToolUse |-> "toolUse",
           insertResults |-> "toolResult", insertReply |-> "reply"]
Draft(c) == [call |-> c, pos |-> Len(wrote[c]) + 1, kind |-> KindAt[pc[c]],
             thread |-> on[c], at |-> stamp[c],
             n |-> IF pc[c] = "insertResults" THEN results[c] ELSE batch[c]]

Init == /\ threads = Threads
        /\ messages = {}
        /\ clock = 0
        /\ pc = [c \in Calls |-> "idle"]
        /\ on \in [Calls -> Threads]
        /\ iteration = [c \in Calls |-> 0]
        /\ batch = [c \in Calls |-> 0]
        /\ results = [c \in Calls |-> 0]
        /\ stamp = [c \in Calls |-> 0]
        /\ context = [c \in Calls |-> {}]
        /\ outcome = [c \in Calls |-> "none"]
        /\ wrote = [c \in Calls |-> <<>>]
        /\ ran = [c \in Calls |-> <<>>]
        /\ before = [c \in Calls |-> {}]
        /\ edits = 0

Goto(c, l) == pc' = [pc EXCEPT ![c] = l] /\ UNCHANGED outcome
End(c, o) == /\ pc' = [pc EXCEPT ![c] = "ended"]
             /\ outcome' = [outcome EXCEPT ![c] = o]

\* Slip: the message keeps the previous time.
BuildMessageUnstamped(c) == \E d \in ClockSteps :
                               clock' = clock + d /\ UNCHANGED stamp

\* Message::new: created_at is the time of construction.
BuildMessage(c) == \E d \in ClockSteps :
                      /\ clock' = clock + d
                      /\ stamp' = [stamp EXCEPT ![c] = clock + d]

-----------------------------------------------------------------------------
(* The steps of a call. *)

\* chat is called; get_thread is answered.
Begin(c) ==
  /\ pc[c] = "idle"
  /\ before' = [before EXCEPT ![c] = {d \in Calls : pc[d] = "ended"}]
  /\ \/ /\ GetThread(on[c])
        /\ BuildMessage(c)
        /\ Goto(c, "insertUser")
     \/ /\ ~ GetThread(on[c])
        /\ End(c, "thread_not_found")
        /\ UNCHANGED <<clock, stamp>>
  /\ UNCHANGED <<storeVars, on, iteration, batch, results, context, wrote, ran, edits>>

\* create_message has stored the call's draft.
Store(c) == /\ CreateMessage(Draft(c))
            /\ wrote' = [wrote EXCEPT ![c] = Append(@, KindAt[pc[c]])]

InsertUser(c) ==
  /\ pc[c] = "insertUser"
  /\ Store(c)
  /\ Goto(c, "load")
  /\ UNCHANGED <<clock, on, iteration, batch, results, stamp, context, ran,
                 before, edits>>

\* Slip: >= for >.
StartIterationEarly(c) ==
  /\ iteration' = [iteration EXCEPT ![c] = @ + 1]
  /\ IF iteration[c] + 1 >= MaxIterations THEN End(c, "max_iterations")
                                          ELSE Goto(c, "infer")
\* Slip: the counter is compared before it is advanced.
StartIterationLate(c) ==
  /\ iteration' = [iteration EXCEPT ![c] = @ + 1]
  /\ IF iteration[c] > MaxIterations THEN End(c, "max_iterations")
                                     ELSE Goto(c, "infer")

\* The head of chat_loop: the next inference, or the end of the budget.
StartIteration(c) ==
  /\ iteration' = [iteration EXCEPT ![c] = @ + 1]
  /\ IF iteration[c] + 1 > MaxIterations THEN End(c, "max_iterations")
                                         ELSE Goto(c, "infer")

\* Slip: rows with role user but no text are skipped.
LoadHistoryNoResults(c) ==
  /\ pc[c] = "load"
  /\ context' = [context EXCEPT ![c] =
                   {m \in GetThreadMessages(on[c]) : m.kind # "toolResult"}]
  /\ StartIteration(c)
  /\ UNCHANGED <<storeVars, clock, on, batch, results, stamp, wrote, ran,
                 before, edits>>
\* get_thread_messages is answered: the history the whole call works with.
LoadHistory(c) ==
  /\ pc[c] = "load"
  /\ context' = [context EXCEPT ![c] = GetThreadMessages(on[c])]
  /\ StartIteration(c)
  /\ UNCHANGED <<storeVars, clock, on, batch, results, stamp, wrote, ran,
                 before, edits>>

\* Slip: the request for tools is not stored.
InferUnlogged(c) ==
  /\ pc[c] = "infer"
  /\ \E n \in 0..MaxBatch :
       /\ batch' = [batch EXCEPT ![c] = n]
       /\ Goto(c, IF n = 0 THEN "insertReply" ELSE "tools")
  /\ BuildMessage(c)
  /\ UNCHANGED <<storeVars, on, iteration, results, context, wrote, ran, before, edits>>

\* The gateway answers: a final text, or n tool calls.
Infer(c) ==
  /\ pc[c] = "infer"
  /\ \E n \in 0..MaxBatch :
       /\ batch' = [batch EXCEPT ![c] = n]
       /\ Goto(c, IF n = 0 THEN "insertReply" ELSE "insertToolUse")
  /\ BuildMessage(c)
  /\ UNCHANGED <<storeVars, on, iteration, results, context, wrote, ran, before, edits>>

InsertReply(c) ==
  /\ pc[c] = "insertReply"
  /\ Store(c)
  /\ End(c, "ok")
  /\ UNCHANGED <<clock, on, iteration, batch, results, stamp, context, ran,
                 before, edits>>

InsertToolUse(c) ==
  /\ pc[c] = "insertToolUse"
  /\ Store(c)
  /\ Goto(c, "tools")
  /\ results' = [results EXCEPT ![c] = 0]
  /\ UNCHANGED <<clock, on, iteration, batch, stamp, context, ran, before, edits>>

\* Slip: only the first call of a response is run.
RunToolFirstOnly(c) ==
  /\ pc[c] = "tools"
  /\ ran' = [ran EXCEPT ![c] = Append(@, NextTool(c))]
  /\ results' = [results EXCEPT ![c] = @ + 1]
  /\ BuildMessage(c) /\ Goto(c, "insertResults")
  /\ UNCHANGED <<storeVars, on, iteration, batch, context, wrote, before, edits>>

\* One tool returns (an unknown tool, or an error, is a result like another);
\* after the last one the result message is built.
RunTool(c) ==
  /\ pc[c] = "tools"
  /\ ran' = [ran EXCEPT ![c] = Append(@, NextTool(c))]
  /\ results' = [results EXCEPT ![c] = @ + 1]
  /\ IF results[c] + 1 = batch[c]
       THEN BuildMessage(c) /\ Goto(c, "insertResults")
       ELSE UNCHANGED <<clock, stamp, pc, outcome>>
  /\ UNCHANGED <<storeVars, on, iteration, batch, context, wrote, before, edits>>

\* Slip: the error of create_message is ignored.
InsertResultsUnchecked(c) ==
  /\ pc[c] = "insertResults"
  /\ Store(c) \/ UNCHANGED <<storeVars, wrote>>
  /\ StartIteration(c)
  /\ UNCHANGED <<clock, on, batch, results, stamp, context, ran,
                 before, edits>>

InsertResults(c) ==
  /\ pc[c] = "insertResults"
  /\ Store(c)
  /\ StartIteration(c)
  /\ UNCHANGED <<clock, on, batch, results, stamp, context, ran,
                 before, edits>>

Step(c) == \/ Begin(c) \/ InsertUser(c) \/ LoadHistory(c) \/ Infer(c)
           \/ InsertReply(c) \/ InsertToolUse(c) \/ RunTool(c) \/ InsertResults(c)

-----------------------------------------------------------------------------
(* What may go wrong at an await. *)

\* The statement may have been executed although its answer never came.
StoreOrNot(c) ==
  \/ UNCHANGED <<storeVars, wrote>>
  \/ pc[c] \in Inserting /\ Store(c)

\* Slip: a failed statement is tried for ever.
StorageFaultRetried(c) ==
  /\ pc[c] \in Inserting \union {"idle", "load"}
  /\ UNCHANGED vars

\* A storage error (of get_thread too), or the foreign key's refusal of a row
\* for a deleted thread: `?` returns it at once.
StorageFault(c) ==
  /\ pc[c] \in Inserting \union {"idle", "load"}
  /\ StoreOrNot(c)
  /\ End(c, "storage_error")
  /\ UNCHANGED <<clock, on, iteration, batch, results, stamp, context, ran,
                 before, edits>>

\* Slip: the error is not returned.
GatewayFaultSwallowed(c) ==
  /\ pc[c] = "infer"
  /\ Goto(c, "ended")
  /\ UNCHANGED <<storeVars, clock, on, iteration, batch, results, stamp, context,
                 wrote, ran, before, edits>>

\* build_inference_request or inference fails.
GatewayFault(c) ==
  /\ pc[c] = "infer"
  /\ End(c, "gateway_error")
  /\ UNCHANGED <<storeVars, clock, on, iteration, batch, results, stamp, context, wrote,
                 ran, before, edits>>

\* The caller drops the future, or the process dies (every running call then
\* takes this step): a tool under way may have had its effect.
Abandon(c) ==
  /\ pc[c] \in Running
  /\ StoreOrNot(c)
  /\ \/ UNCHANGED ran
     \/ pc[c] = "tools" /\ ran' = [ran EXCEPT ![c] = Append(@, NextTool(c))]
  /\ End(c, "abandoned")
  /\ UNCHANGED <<clock, on, iteration, batch, results, stamp, context, before, edits>>

Fault(c) == StorageFault(c) \/ GatewayFault(c) \/ Abandon(c)

-----------------------------------------------------------------------------
(* The application edits a thread. *)

Edit == \/ \E t \in Threads : DeleteThread(t)
        \/ \E m \in messages : DeleteMessage(Id(m))
        \/ \E m \in messages, t \in Threads : DeleteMessagesAfter(t, Id(m))

EditThread == /\ edits < MaxEdits
              /\ edits' = edits + 1
              /\ Edit
              /\ UNCHANGED <<clock, callVars>>

Next == \/ \E c \in Calls : Step(c) \/ Fault(c)
        \/ EditThread

Spec == Init /\ [][Next]_vars

\* The runtime polls every call, the database and the gateway answer or fail,
\* and tools return: a call's own step is eventually taken.
FairSpec == Spec /\ \A c \in Calls : WF_vars(Step(c) \/ StorageFault(c))

-----------------------------------------------------------------------------
(* Properties. *)

Message == [call : Calls, pos : Nat, kind : Kinds, thread : Threads, at : Nat,
            n : Nat]

\* The types, and that a call has ended exactly when it has an outcome.
TypeOK ==
  /\ threads \subseteq Threads
  /\ messages \subseteq Message
  /\ clock \in Nat
  /\ pc \in [Calls -> Running \union {"idle", "ended"}]
  /\ on \in [Calls -> Threads]
  /\ iteration \in [Calls -> Nat]
  /\ batch \in [Calls -> Nat]
  /\ results \in [Calls -> Nat]
  /\ stamp \in [Calls -> Nat]
  /\ context \in [Calls -> SUBSET Message]
  /\ outcome \in [Calls -> Outcomes]
  /\ \A c \in Calls : pc[c] = "ended" <=> outcome[c] # "none"
  /\ wrote \in [Calls -> Seq(Kinds)]
  /\ ran \in [Calls -> Seq(Nat \X Nat)]
  /\ before \in [Calls -> SUBSET Calls]
  /\ edits \in Nat

Stored(id) == \E m \in messages : Id(m) = id

\* No tool has an effect unless the request for it was stored first: a crash
\* never leaves an effect that the thread does not account for.
RequestBeforeTools ==
  \A c \in Calls : \A i \in 1..Len(ran[c]) :
    LET pos == 2 * ran[c][i][1]
    IN pos <= Len(wrote[c]) /\ wrote[c][pos] = "toolUse"

\* Each tool call of a response runs at most once, in the order asked.
Before(a, b) == \/ a[1] < b[1]
                \/ a[1] = b[1] /\ a[2] < b[2]
ToolsRunOnceInOrder ==
  \A c \in Calls : \A i, j \in 1..Len(ran[c]) :
    i < j => Before(ran[c][i], ran[c][j])

\* A stored result message answers every call of the request before it, and
\* exactly those tools have run.
ResultsAnswerRequests ==
  \A r, u \in messages :
    r.kind = "toolResult" /\ Id(u) = <<r.call, r.pos - 1>> =>
      /\ r.n = u.n
      /\ \A k \in 1..MaxBatch :
           k <= u.n <=> \E i \in 1..Len(ran[r.call]) :
                          ran[r.call][i] = <<r.pos \div 2, k>>

\* The last message a call has stored is a request for tools only while the
\* call is at work on it, or if a storage fault or a crash cut it there: a
\* reply, a spent budget and a gateway error never leave an unanswered request.
UnansweredIsExplained ==
  \A c \in Calls :
    wrote[c] # <<>> /\ wrote[c][Len(wrote[c])] = "toolUse" =>
      \/ pc[c] \in {"tools", "insertResults"}
      \/ outcome[c] \in {"storage_error", "abandoned"}

\* A call that gives up for its budget has used all of it, has run and stored
\* every round, and has stored no reply.
BudgetIsSpent ==
  \A c \in Calls :
    outcome[c] = "max_iterations" =>
      /\ Len(wrote[c]) = 2 * MaxIterations + 1
      /\ "reply" \notin {wrote[c][i] : i \in 1..Len(wrote[c])}

\* Conversation memory: a call sees the message it was called with, and the
\* whole of every turn on its thread that had succeeded before it began, unless
\* the application has deleted part of it.
WholeTurnsInHistory ==
  \A c \in Calls : iteration[c] > 0 =>
    /\ Stored(<<c, 1>>) => \E m \in context[c] : Id(m) = <<c, 1>>
    /\ \A d \in before[c] :
         LET turn == {<<d, i>> : i \in 1..Len(wrote[d])}
         IN outcome[d] = "ok" /\ on[d] = on[c] /\ (\A id \in turn : Stored(id)) =>
              turn = {Id(m) : m \in {x \in context[c] : x.call = d}}

\* ORDER BY created_at agrees with what happened: the messages of a call in
\* the order it stored them, and turns that did not overlap in their order; two
\* rows tie only if the clock did not move between their two stamps.
StoredOrder ==
  \A m, n \in messages :
    \/ m.call = n.call /\ m.pos < n.pos
    \/ m.call \in before[n.call]
    => m.at < n.at \/ (0 \in ClockSteps /\ m.at = n.at)

Started(c) == pc[c] # "idle"
Quiet(t) == \A c \in Calls : on[c] = t => pc[c] \in {"idle", "ended"}
OneAtATime(t) == \A c, d \in Calls :
  on[c] = t /\ on[d] = t /\ Started(c) /\ Started(d) /\ c # d =>
    c \in before[d] \/ d \in before[c]
Paired(t) == \A m \in GetThreadMessages(t) :
  /\ m.kind = "toolUse" => Stored(<<m.call, m.pos + 1>>)
  /\ m.kind = "toolResult" => Stored(<<m.call, m.pos - 1>>)

\* Edit and resubmit: going back to a message, other than a request for tools,
\* of a thread whose calls have followed one another and are over leaves no
\* request without its results and no results without their request, as long as
\* no two rows of the thread have one created_at (rows that tie with the message
\* stay, whatever belongs to them).
NoTies(t) == \A m, n \in GetThreadMessages(t) : m.at = n.at => m = n
RewindKeepsPairs ==
  [][\A m \in messages :
       /\ DeleteMessagesAfter(m.thread, Id(m))
       /\ m.kind # "toolUse"
       /\ Quiet(m.thread) /\ OneAtATime(m.thread)
       /\ NoTies(m.thread) /\ Paired(m.thread)
       => Paired(m.thread)']_vars

\* Every call is answered, under FairSpec.
EveryCallEnds == \A c \in Calls : <>(pc[c] = "ended")

\* Each call, seen alone, is a Turn: \A c \in Calls : T(c)!Spec, in the form
\* TLC accepts.
T(c) == INSTANCE Turn WITH
  log <- wrote[c],
  acted <- IF ran[c] = <<>> THEN 0 ELSE ran[c][Len(ran[c])][1],
  status <- IF outcome[c] = "none" THEN "open"
            ELSE IF outcome[c] = "ok" THEN "ok" ELSE "failed"
CallsAreTurns == /\ \A c \in Calls : T(c)!Init
                 /\ [][\A c \in Calls : [T(c)!Next]_(T(c)!vars)]_vars
=============================================================================
