---------------------------- MODULE StreamExecutor ----------------------------
(***************************************************************************)
(* Agent::chat_stream (crates/adk/src/agent/core.rs) and the StreamExecutor*)
(* it spawns (crates/adk/src/stream/executor.rs): the task that runs one   *)
(* chat, the bounded channel of SseEvents, the reader at its other end and *)
(* the gateway's stream of content blocks.                                 *)
(*                                                                         *)
(* Every send is an await: `outbox` holds the events the code sends, one   *)
(* after the other, before it does anything else, and the task goes on     *)
(* only when it is empty.  The result of a send is ignored, so a dropped   *)
(* reader stops nothing and a full channel stops everything.               *)
(***************************************************************************)
EXTENDS Naturals, Sequences, SequencesExt

CONSTANTS MaxIterations,   \* Agent.max_iterations
          Capacity,        \* StreamConfig.buffer_size
          MaxBlocks,       \* bound: content blocks in one response
          MaxItems         \* bound: items in one response stream

ASSUME StreamBounds == /\ MaxIterations \in Nat /\ Capacity \in Nat \ {0}
                       /\ MaxBlocks \in Nat /\ MaxItems \in Nat

VARIABLES
  pc,         \* the await the task is suspended at
  outcome,    \* how the task ended
  iteration,  \* the local `iteration` of execute_loop
  blocks,     \* content_blocks of stream_response: one builder per index
  items,      \* the number of items the response stream has yielded
  lossy,      \* history: an item of this response was lost, or its end was
  content,    \* the response, as the order of its block indices
  todo,       \* the tool calls of the response that have not run yet
  outbox,     \* events about to be sent
  channel,    \* the mpsc channel
  reader,     \* "open", or "dropped": the receiver is gone
  wrote,      \* history: kinds of the messages stored by this chat
  stored,     \* history: the text of the last assistant message stored
  ran,        \* history: <<round, block>> for each tool run
  emitted     \* history: the events accepted by the channel

callVars == <<pc, outcome, iteration>>
responseVars == <<blocks, items, lossy, content, todo>>
streamVars == <<outbox, channel, reader, emitted>>
effectVars == <<wrote, stored, ran>>
vars == <<callVars, responseVars, streamVars, effectVars>>

Event(t, b) == [type |-> t, n |-> iteration, b |-> b, text |-> <<>>]
Inserting == {"insertUser", "insertToolUse", "insertResults", "insertReply"}

Init == /\ pc = "idle" /\ outcome = "none" /\ iteration = 0
        /\ blocks = <<>> /\ items = 0 /\ lossy = FALSE /\ content = <<>> /\ todo = <<>>
        /\ outbox = <<>> /\ channel = <<>> /\ reader = "open" /\ emitted = <<>>
        /\ wrote = <<>> /\ stored = <<>> /\ ran = <<>>

\* The task runs only when all it had to send has been sent.
At(l) == pc = l /\ outbox = <<>>

\* The task's future returns: an Err is sent on by the spawned closure.
Return(o, last) == /\ pc' = "closing"
                   /\ outcome' = o
                   /\ outbox' = last

\* Slip: the spawned closure drops the Err.
FailSilently(o) == Return(o, <<>>)

\* The spawned closure of chat_stream: one more Error for an Err.
Fail(o) == Return(o, <<Event("Error", 0)>>)

-----------------------------------------------------------------------------
(* The channel and its reader. *)

\* Slip: waits for room although nobody reads any more.
SendWaiting == /\ outbox # <<>>
               /\ Len(channel) < Capacity
               /\ channel' = Append(channel, Head(outbox))
               /\ emitted' = IF reader = "open" THEN Append(emitted, Head(outbox))
                                               ELSE emitted
               /\ outbox' = Tail(outbox)
               /\ UNCHANGED <<callVars, responseVars, reader, effectVars>>

\* sender.send(event).await: waits for room, or fails if the reader is gone.
Send == /\ outbox # <<>>
        /\ IF reader = "dropped"
             THEN UNCHANGED <<channel, emitted>>
             ELSE /\ Len(channel) < Capacity
                  /\ channel' = Append(channel, Head(outbox))
                  /\ emitted' = Append(emitted, Head(outbox))
        /\ outbox' = Tail(outbox)
        /\ UNCHANGED <<callVars, responseVars, reader, effectVars>>

Receive == /\ reader = "open" /\ channel # <<>>
           /\ channel' = Tail(channel)
           /\ UNCHANGED <<callVars, responseVars, outbox, reader, emitted, effectVars>>

DropReader == /\ reader = "open"
              /\ reader' = "dropped"
              /\ channel' = <<>>
              /\ UNCHANGED <<callVars, responseVars, outbox, emitted, effectVars>>

-----------------------------------------------------------------------------
(* The executor, up to the response. *)

\* chat_stream: get_thread, then the task is spawned; without a thread the
\* caller gets an error and no stream.
ChatStream == /\ pc = "idle"
              /\ \/ pc' = "insertUser" /\ UNCHANGED outcome
                 \/ pc' = "ended" /\ outcome' = "not_started"
              /\ UNCHANGED <<iteration, responseVars, streamVars, effectVars>>

Kind == [insertUser |-> "user", insertToolUse |-> "toolUse",
         insertResults |-> "toolResult", insertReply |-> "reply"]
TextOf(order) == FlattenSeq([i \in DOMAIN order |-> blocks[order[i]].text])
ToolsOf(order) ==
  FlattenSeq([i \in DOMAIN order |->
                IF blocks[order[i]].kind = "tool" THEN <<order[i]>> ELSE <<>>])

\* create_message.
Store == /\ wrote' = Append(wrote, Kind[pc])
         /\ stored' = IF pc \in {"insertToolUse", "insertReply"}
                        THEN TextOf(content) ELSE stored
         /\ UNCHANGED ran

InsertUser == /\ At("insertUser")
              /\ Store
              /\ pc' = "load"
              /\ UNCHANGED <<outcome, iteration, responseVars, streamVars>>

\* Slip: the counter is compared before it is advanced.
StartIterationLate ==
  /\ iteration' = iteration + 1
  /\ IF iteration > MaxIterations
       THEN Fail("max_iterations")
       ELSE /\ pc' = "request"
            /\ outbox' = <<[Event("IterationStart", 0) EXCEPT !.n = iteration + 1]>>
            /\ UNCHANGED outcome

\* The head of execute_loop.  A spent budget sends an Error itself and returns
\* Err, for which the spawned closure sends another.
StartIteration ==
  /\ iteration' = iteration + 1
  /\ LET error == [Event("Error", 0) EXCEPT !.n = iteration + 1]
         start == [Event("IterationStart", 0) EXCEPT !.n = iteration + 1]
     IN IF iteration + 1 > MaxIterations
          THEN Return("max_iterations", <<error, error>>)
          ELSE /\ pc' = "request" /\ outbox' = <<start>>
               /\ UNCHANGED outcome

LoadHistory == /\ At("load")
               /\ StartIteration
               /\ UNCHANGED <<responseVars, channel, reader, emitted, effectVars>>

\* inference_stream is answered: the response stream is open.
Request == /\ At("request")
           /\ pc' = "stream"
           /\ blocks' = <<>> /\ items' = 0 /\ lossy' = FALSE
           /\ UNCHANGED <<outcome, iteration, content, todo, streamVars, effectVars>>

-----------------------------------------------------------------------------
(* stream_response: the items of one response stream. *)

\* The next item; each text fragment is named by its place in the stream.
NextItem == /\ At("stream") /\ items < MaxItems
            /\ items' = items + 1
            /\ UNCHANGED <<callVars, content, todo, channel, reader, emitted, effectVars>>
Fragment == <<items + 1>>
TextDelta(b) == [Event("TextDelta", b) EXCEPT !.text = Fragment]

\* Slip: a new block is not announced.
BlockStartUnannounced ==
  /\ NextItem /\ Len(blocks) < MaxBlocks
  /\ \E k \in {"text", "tool"} :
       blocks' = Append(blocks, [kind |-> k, text |-> <<>>, complete |-> FALSE])
  /\ UNCHANGED <<lossy, outbox>>

\* handle_content_block_start: a new block; a text block may start empty.
BlockStart ==
  /\ NextItem /\ Len(blocks) < MaxBlocks
  /\ LET b == Len(blocks) + 1
         Start(k, text, out) ==
           /\ blocks' = Append(blocks, [kind |-> k, text |-> text, complete |-> FALSE])
           /\ outbox' = out
     IN \/ Start("text", <<>>, <<>>)
        \/ Start("text", Fragment, <<TextDelta(b)>>)
        \/ Start("tool", <<>>, <<Event("ToolUseStart", b)>>)
  /\ UNCHANGED lossy

\* handle_content_block_delta: a fragment of text, or of tool arguments.
BlockDelta ==
  /\ NextItem
  /\ \E b \in DOMAIN blocks :
       IF blocks[b].kind = "text"
         THEN /\ blocks' = [blocks EXCEPT ![b].text = @ \o Fragment]
              /\ outbox' = <<TextDelta(b)>>
         ELSE /\ outbox' = <<Event("ToolUseDelta", b)>>
              /\ UNCHANGED blocks
  /\ UNCHANGED lossy

\* ContentBlockStop: only a tool call is announced as complete.
BlockStop ==
  /\ NextItem
  /\ \E b \in DOMAIN blocks :
       /\ blocks' = [blocks EXCEPT ![b].complete = TRUE]
       /\ outbox' = IF blocks[b].kind = "tool" THEN <<Event("ToolUseComplete", b)>>
                                               ELSE <<>>
  /\ UNCHANGED lossy

\* An event that cannot be read is skipped, by the client or with a warning.
ItemLost == /\ NextItem
            /\ lossy' = TRUE
            /\ UNCHANGED <<blocks, outbox>>

\* The gateway's Done, or the end of the connection: both end the response.
\* The blocks are taken out of a HashMap, in any order.
EndOfResponse ==
  /\ At("stream")
  /\ \E cut \in BOOLEAN : lossy' = (lossy \/ cut)
  /\ content' \in SetToSeqs(DOMAIN blocks)
  /\ todo' = ToolsOf(content')
  /\ outbox' = <<Event("IterationComplete", 0)>>
  /\ pc' = IF todo' = <<>> THEN "insertReply" ELSE "insertToolUse"
  /\ UNCHANGED <<outcome, iteration, blocks, items, channel, reader, emitted, effectVars>>

-----------------------------------------------------------------------------
(* The executor, after the response. *)

Done == [Event("Done", 0) EXCEPT !.text = TextOf(content)]

\* Slip: Done is sent whether or not the reply was stored.
InsertReplyUnchecked ==
  /\ At("insertReply")
  /\ Store \/ UNCHANGED effectVars
  /\ Return("ok", <<Done>>)
  /\ UNCHANGED <<iteration, responseVars, channel, reader, emitted>>

\* No tool calls: the reply is stored, then Done is sent, and Ok returned.
InsertReply ==
  /\ At("insertReply")
  /\ Store
  /\ Return("ok", <<Done>>)
  /\ UNCHANGED <<iteration, responseVars, channel, reader, emitted>>

\* Slip: all tools are announced at once.
InsertToolUseAllStarted ==
  /\ At("insertToolUse")
  /\ Store
  /\ pc' = "tools"
  /\ outbox' = [i \in DOMAIN todo |-> Event("ToolExecutionStart", todo[i])]
  /\ UNCHANGED <<outcome, iteration, responseVars, channel, reader, emitted>>

\* The assistant message is stored, and the first tool is announced.
InsertToolUse ==
  /\ At("insertToolUse")
  /\ Store
  /\ pc' = "tools"
  /\ outbox' = <<Event("ToolExecutionStart", Head(todo))>>
  /\ UNCHANGED <<outcome, iteration, responseVars, channel, reader, emitted>>

\* One tool returns; its completion is sent, and the start of the next one.
RunTool ==
  /\ At("tools")
  /\ LET rest == Tail(todo)
         complete == Event("ToolExecutionComplete", Head(todo))
     IN /\ todo' = rest
        /\ IF rest = <<>>
             THEN pc' = "insertResults" /\ outbox' = <<complete>>
             ELSE /\ outbox' = <<complete, Event("ToolExecutionStart", Head(rest))>>
                  /\ UNCHANGED pc
  /\ ran' = Append(ran, <<iteration, Head(todo)>>)
  /\ UNCHANGED <<outcome, iteration, blocks, items, lossy, content, channel, reader,
                 emitted, wrote, stored>>

InsertResults == /\ At("insertResults")
                 /\ Store
                 /\ StartIteration
                 /\ UNCHANGED <<responseVars, channel, reader, emitted>>

\* The task is over: both senders are dropped.
Close == /\ At("closing")
         /\ pc' = "ended"
         /\ UNCHANGED <<outcome, iteration, responseVars, streamVars, effectVars>>

-----------------------------------------------------------------------------
(* What may go wrong. *)

\* A failed statement may have been executed all the same.
StorageFault == /\ \E l \in Inserting \union {"load"} : At(l)
                /\ \/ UNCHANGED effectVars
                   \/ pc \in Inserting /\ Store
                /\ Fail("storage_error")
                /\ UNCHANGED <<iteration, responseVars, channel, reader, emitted>>

\* build or inference_stream fails.  (Once open, a stream cannot fail.)
GatewayFault == /\ At("request")
                /\ Fail("gateway_error")
                /\ UNCHANGED <<iteration, responseVars, channel, reader, emitted,
                               effectVars>>

\* A tool panics, or the process dies: the task vanishes with what it was
\* about to send.
Die == /\ pc \notin {"idle", "ended", "dead"}
       /\ pc' = "dead" /\ outbox' = <<>>
       /\ outcome' = IF outcome = "none" THEN "died" ELSE outcome
       /\ \/ UNCHANGED effectVars
          \/ At(pc) /\ pc \in Inserting /\ Store
          \/ At("tools") /\ ran' = Append(ran, <<iteration, Head(todo)>>)
             /\ UNCHANGED <<wrote, stored>>
       /\ UNCHANGED <<iteration, responseVars, channel, reader, emitted>>

-----------------------------------------------------------------------------
Item == BlockStart \/ BlockDelta \/ BlockStop \/ ItemLost
Task == \/ ChatStream \/ InsertUser \/ LoadHistory \/ Request \/ Item \/ EndOfResponse
        \/ InsertReply \/ InsertToolUse \/ RunTool \/ InsertResults \/ Send \/ Close
Reader == Receive \/ DropReader
Fault == StorageFault \/ GatewayFault \/ Die

\* Once the task has ended only the reader acts, until it has read everything.
Next == Task \/ Reader \/ Fault

Spec == Init /\ [][Next]_vars

\* The runtime runs the task, and the database, the gateway and the tools
\* answer it.  TaskSpec assumes nothing of the reader; FairSpec, that it goes
\* on reading or goes away.
TaskSpec == Spec /\ WF_vars(Task)
FairSpec == TaskSpec /\ WF_vars(Reader)

-----------------------------------------------------------------------------
(* Properties. *)

Emitted(t) == {i \in DOMAIN emitted : emitted[i].type = t}
Terminal(e) == e.type \in {"Done", "Error"}   \* SseEvent::is_terminal
Fragments(e) == {e.text[i] : i \in DOMAIN e.text}

\* The types, and the channel within its capacity.
TypeOK ==
  /\ pc \in Inserting \union {"idle", "load", "request", "stream", "tools", "closing",
                              "ended", "dead"}
  /\ outcome \in {"none", "ok", "not_started", "storage_error", "gateway_error",
                  "max_iterations", "died"}
  /\ iteration \in 0..MaxIterations + 1
  /\ blocks \in Seq([kind : {"text", "tool"}, text : Seq(Nat), complete : BOOLEAN])
  /\ Len(channel) <= Capacity
  /\ IsSuffix(channel, emitted) /\ reader \in {"open", "dropped"}

\* The reader is told Done only when the reply is stored, with the stored text;
\* and that is what the reader was shown in that iteration: no fragment more,
\* none less (their order is the order of the blocks).
DoneMeansStored ==
  \A i \in Emitted("Done") :
    /\ wrote[Len(wrote)] = "reply"
    /\ emitted[i].text = stored
    /\ Fragments(emitted[i]) =
         UNION {Fragments(emitted[j]) :
                  j \in {x \in Emitted("TextDelta") : emitted[x].n = emitted[i].n}}

\* A reader that stays to the end is told how it ended, unless the task died.
EndIsTold ==
  pc = "ended" /\ outcome # "not_started" /\ reader = "open"
  => emitted # <<>> /\ Terminal(emitted[Len(emitted)])

\* Before a tool is run, the reader has been told that the response uses it.
ToolsAreAnnounced ==
  \A i \in Emitted("ToolExecutionStart") : \E j \in Emitted("ToolUseStart") :
    j < i /\ emitted[j].n = emitted[i].n /\ emitted[j].b = emitted[i].b

\* What is put on the stream follows the protocol, and what is done to the
\* thread is a turn.
P == INSTANCE SseProtocol WITH events <- emitted
FollowsProtocol == P!Spec
T == INSTANCE Turn WITH
  log <- wrote,
  acted <- IF ran = <<>> THEN 0 ELSE ran[Len(ran)][1],
  status <- IF outcome = "none" THEN "open"
            ELSE IF outcome = "ok" THEN "ok" ELSE "failed"
IsTurn == T!Spec

\* The task ends, if the reader reads on or goes away.
TaskEnds == <>(pc \in {"ended", "dead"})

-----------------------------------------------------------------------------
(* What the comments say of the stream, and the code does not do. *)

\* events.rs:90: Done says that the stream finished successfully: the response
\* came to its end with nothing lost.
DoneMeansWhole == Emitted("Done") # {} => ~ lossy

\* stream/config.rs:10 gives each event a timeout, so that a reader that stops
\* reading does not keep the task for ever.
StalledTaskEnds == <>(pc \in {"ended", "dead"})
=============================================================================
