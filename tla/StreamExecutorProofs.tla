------------------------- MODULE StreamExecutorProofs -------------------------
(* Theorems about StreamExecutor, for every value of its constants. *)
EXTENDS StreamExecutor, SequenceFacts, SequenceTheorems, FiniteSetTheorems, TLAPS

USE StreamBounds

(***************************************************************************)
(* What TypeOK needs to be inductive: the types of all variables, and what *)
(* the stage of the task says of the messages stored, of the round it is   *)
(* in, and of the response.                                                *)
(***************************************************************************)
ContentEvents == {"TextDelta", "ToolUseStart", "ToolUseDelta", "ToolUseComplete"}
EventTypes == ContentEvents \union {"IterationStart", "IterationComplete", "ToolExecutionStart",
                                    "ToolExecutionComplete", "Done", "Error"}
Events == [type : EventTypes, n : Nat, b : Nat, text : Seq(Nat)]
Blocks == [kind : {"text", "tool"}, text : Seq(Nat), complete : BOOLEAN]
Kinds == {"user", "toolUse", "toolResult", "reply"}
Stages == Inserting \union {"idle", "load", "request", "stream", "tools", "closing", "ended", "dead"}
Outcomes == {"none", "ok", "not_started", "storage_error", "gateway_error", "max_iterations", "died"}

Types ==
  /\ pc \in Stages /\ outcome \in Outcomes /\ iteration \in 0..(MaxIterations + 1)
  /\ blocks \in Seq(Blocks) /\ items \in Nat
  /\ content \in Seq(Nat) /\ todo \in Seq(Nat)
  /\ outbox \in Seq(Events) /\ channel \in Seq(Events) /\ emitted \in Seq(Events)
  /\ reader \in {"open", "dropped"}
  /\ wrote \in Seq(Kinds) /\ stored \in Seq(Nat) /\ ran \in Seq(Nat \X Nat)

LastOf(s) == s[Len(s)]
Over == {"closing", "ended", "dead"}

\* The messages stored and the tools that ran, by the stage the task is at.
Progress ==
  /\ outcome = "none" <=> pc \notin Over
  /\ pc = "closing" => outcome # "not_started"
  /\ pc \in {"idle", "insertUser"} => iteration = 0 /\ wrote = <<>>
  /\ pc = "load" => iteration = 0 /\ wrote = <<"user">>
  /\ pc \in {"request", "stream", "insertReply", "insertToolUse"} =>
       /\ iteration \in 1..MaxIterations
       /\ Len(wrote) = 2 * iteration - 1 /\ LastOf(wrote) \in {"user", "toolResult"}
  /\ pc \in {"tools", "insertResults"} =>
       /\ iteration \in 1..MaxIterations
       /\ Len(wrote) = 2 * iteration /\ LastOf(wrote) = "toolUse"
  /\ pc = "insertResults" => ran # <<>> /\ LastOf(ran)[1] = iteration

\* The response that is about to be stored has each block once, and the tools to
\* run are among them.
Settled ==
  /\ pc \in {"insertReply", "insertToolUse"} =>
       content \in Seq(DOMAIN blocks) /\ Range(content) = DOMAIN blocks
  /\ pc \in {"insertToolUse", "tools"} =>
       /\ todo # <<>>
       /\ \A k \in DOMAIN todo : todo[k] \in DOMAIN blocks /\ blocks[todo[k]].kind = "tool"

\* Before the first round nothing has been said, and a task that is over has
\* nothing more to say.
Silent ==
  /\ pc \in {"idle", "insertUser", "load"} => outbox = <<>> /\ emitted = <<>>
  /\ pc \in {"ended", "dead"} => outbox = <<>>

BaseInv == Types /\ Progress /\ Settled /\ Silent

(***************************************************************************)
(* The channel holds the last events the reader has not taken.             *)
(***************************************************************************)
Buffer ==
  /\ Len(channel) =< Capacity /\ Len(channel) =< Len(emitted)
  /\ \A i \in 1..Len(channel) : channel[i] = emitted[Len(emitted) - Len(channel) + i]

(***************************************************************************)
(* The story told to a reader who has not gone away: the events emitted,   *)
(* and after them those about to be sent, follow one another, and the last *)
(* of them fits the stage the task is at.                                  *)
(***************************************************************************)
Said == outbox # <<>> \/ emitted # <<>>
LastSaid == IF outbox # <<>> THEN LastOf(outbox) ELSE LastOf(emitted)

Told(types) == Said /\ LastSaid.type \in types /\ LastSaid.n = iteration

Links(o, s) ==
  /\ \A i \in 1..(Len(o) - 1) : P!Follows(o[i], o[i + 1])
  /\ o # <<>> /\ s = <<>> => P!First(o[1])
  /\ o # <<>> /\ s # <<>> => P!Follows(LastOf(s), o[1])

Story ==
  /\ Links(outbox, emitted)
  /\ pc = "request" => Told({"IterationStart"})
  /\ pc = "stream" => Told(ContentEvents \union {"IterationStart"})
  /\ pc \in {"insertReply", "insertToolUse"} => Told({"IterationComplete"})
  /\ pc = "tools" => Told({"ToolExecutionStart"}) /\ LastSaid.b = Head(todo)
  /\ pc = "insertResults" => Told({"ToolExecutionComplete"})
  /\ pc = "closing" \/ (pc = "ended" /\ outcome # "not_started") => Said /\ Terminal(LastSaid)

StoryInv == reader = "open" => Story

(***************************************************************************)
(* ToolsAreAnnounced: each tool block of the response has been announced   *)
(* when its execution is.                                                  *)
(***************************************************************************)
Announced(s, n, b) ==
  \E j \in DOMAIN s : s[j].type = "ToolUseStart" /\ s[j].n = n /\ s[j].b = b

Announcing ==
  /\ pc = "stream" => \A b \in DOMAIN blocks : blocks[b].kind = "tool" =>
       Announced(emitted, iteration, b) \/ Announced(outbox, iteration, b)
  /\ pc \in {"insertToolUse", "tools"} => \A k \in DOMAIN todo :
       Announced(emitted, iteration, todo[k]) \/ Announced(outbox, iteration, todo[k])
  /\ \A i \in DOMAIN outbox : outbox[i].type = "ToolExecutionStart" =>
       Announced(emitted, outbox[i].n, outbox[i].b)

AnnounceInv == ToolsAreAnnounced /\ (reader = "open" => Announcing)

(***************************************************************************)
(* DoneMeansStored: the blocks of the response hold what the reader was    *)
(* shown in this round, and Done is the last thing said.                   *)
(***************************************************************************)
Shown(e, n) == IF e.type = "TextDelta" /\ e.n = n THEN Fragments(e) ELSE {}
ShownIn(s, n) == UNION {Shown(s[j], n) : j \in DOMAIN s}
HeldIn(bs) == UNION {Range(bs[b].text) : b \in DOMAIN bs}

Showing ==
  /\ \A i \in DOMAIN emitted : emitted[i].n =< iteration
  /\ \A i \in DOMAIN outbox : outbox[i].n =< iteration
  /\ pc = "request" => ShownIn(emitted, iteration) \union ShownIn(outbox, iteration) = {}
  /\ pc \in {"stream", "insertReply"} =>
       HeldIn(blocks) = ShownIn(emitted, iteration) \union ShownIn(outbox, iteration)
  /\ \A i \in DOMAIN outbox : outbox[i].type = "Done" =>
       Fragments(outbox[i]) = ShownIn(emitted, outbox[i].n)

Finishing ==
  /\ \A i \in DOMAIN outbox : outbox[i].type = "Done" =>
       pc = "closing" /\ Len(outbox) = 1 /\ LastOf(wrote) = "reply" /\ outbox[i].text = stored
  /\ Emitted("Done") # {} => pc \in Over /\ outbox = <<>>

ShowInv == reader = "open" => Showing


-----------------------------------------------------------------------------
(* The response. *)

\* An order of the blocks has them all.
LEMMA OrderOfBlocks ==
  ASSUME blocks \in Seq(Blocks), NEW c \in SetToSeqs(DOMAIN blocks)
  PROVE  c \in Seq(DOMAIN blocks) /\ Range(c) = DOMAIN blocks
<1> DEFINE D == DOMAIN blocks
           n == Cardinality(D)
<1>1. IsFiniteSet(D)
  <2>1. Len(blocks) \in Int /\ 1 \in Int /\ D = 1..Len(blocks)
    OBVIOUS
  <2> HIDE DEF D
  <2> QED BY <2>1, FS_Interval
<1>2. n \in Nat
  BY <1>1, FS_CardinalityType
<1>3. c \in [1..n -> D] /\ \A i, j \in 1..n : i # j => c[i] # c[j]
  BY DEF SetToSeqs
<1> HIDE DEF n, D
<1>4. Range(c) \subseteq D /\ c \in [1..n -> Range(c)]
  BY <1>3 DEF Range
<1>5. IsFiniteSet(Range(c)) /\ Cardinality(Range(c)) =< n /\ (n = Cardinality(Range(c)) => D = Range(c))
  BY <1>1, <1>4, FS_Subset DEF n
<1>6. IsFiniteSet(1..n) /\ Cardinality(1..n) = n
  <2>1. n \in Int /\ 1 \in Int /\ (1 > n => n = 0) /\ n - 1 + 1 = n
    BY <1>2
  <2> QED BY <2>1, FS_Interval
<1>7. Cardinality(Range(c)) \in Nat
  BY <1>5, FS_CardinalityType
<1>8. ~ (Cardinality(Range(c)) < Cardinality(1..n))
  <2> DEFINE S == 1..n
             R == Range(c)
  <2>1. IsFiniteSet(S) /\ IsFiniteSet(R) /\ c \in [S -> R] /\ \A i, j \in S : i # j => c[i] # c[j]
    BY <1>3, <1>4, <1>5, <1>6
  <2> HIDE DEF S, R
  <2>2. ~ (Cardinality(R) < Cardinality(S))
    BY <2>1, FS_PigeonHole
  <2> QED BY <2>2 DEF S, R
<1>9. Range(c) = D
  BY <1>2, <1>5, <1>6, <1>7, <1>8
<1>10. c \in Seq(D)
  BY <1>2, <1>3
<1> QED BY <1>9, <1>10 DEF D

\* The fields of a block.
LEMMA BlockFields ==
  ASSUME blocks \in Seq(Blocks), NEW b \in DOMAIN blocks
  PROVE  blocks[b].kind \in {"text", "tool"} /\ blocks[b].text \in Seq(Nat)
<1>1. blocks[b] \in Blocks
  OBVIOUS
<1> QED BY <1>1 DEF Blocks

\* The text of the response is that of its blocks.
LEMMA TextType ==
  ASSUME blocks \in Seq(Blocks), NEW order \in Seq(DOMAIN blocks)
  PROVE  /\ TextOf(order) \in Seq(Nat)
         /\ Range(TextOf(order)) = UNION {Range(blocks[order[i]].text) : i \in DOMAIN order}
<1> DEFINE parts == [i \in DOMAIN order |-> blocks[order[i]].text]
<1>1. \A b \in DOMAIN blocks : blocks[b].text \in Seq(Nat)
  BY BlockFields
<1>2. DOMAIN order = 1..Len(order) /\ Len(order) \in Nat
      /\ \A i \in DOMAIN order : order[i] \in DOMAIN blocks
  OBVIOUS
<1>3. parts \in Seq(Seq(Nat)) /\ DOMAIN parts = DOMAIN order
  BY <1>1, <1>2
<1>4. \A i \in DOMAIN order : parts[i] = blocks[order[i]].text
  OBVIOUS
<1> HIDE DEF parts
<1>5. /\ FlattenSeq(parts) \in Seq(Nat)
      /\ Range(FlattenSeq(parts)) = UNION {Range(parts[i]) : i \in DOMAIN order}
  BY <1>3, FlattenElements
<1> QED BY <1>4, <1>5 DEF TextOf, parts

\* The tools to run are tool blocks of the response.
LEMMA ToolsType ==
  ASSUME blocks \in Seq(Blocks), NEW order \in Seq(DOMAIN blocks)
  PROVE  /\ ToolsOf(order) \in Seq(DOMAIN blocks)
         /\ \A k \in DOMAIN ToolsOf(order) : blocks[ToolsOf(order)[k]].kind = "tool"
<1> DEFINE B == {b \in DOMAIN blocks : blocks[b].kind = "tool"}
           parts == [i \in DOMAIN order |->
                       IF blocks[order[i]].kind = "tool" THEN <<order[i]>> ELSE <<>>]
<1>1. DOMAIN order = 1..Len(order) /\ Len(order) \in Nat
      /\ \A i \in DOMAIN order : order[i] \in DOMAIN blocks
  OBVIOUS
<1>2. ASSUME NEW i \in DOMAIN order PROVE parts[i] \in Seq(B)
  <2>1. CASE blocks[order[i]].kind = "tool"
    <3>1. order[i] \in B
      BY <1>1, <2>1
    <3> HIDE DEF B
    <3>2. <<order[i]>> \in Seq(B)
      BY <3>1
    <3> QED BY <2>1, <3>2
  <2>2. CASE blocks[order[i]].kind # "tool"
    BY <2>2
  <2> QED BY <2>1, <2>2
<1>3. parts \in Seq(Seq(B))
  BY <1>1, <1>2
<1>4. ToolsOf(order) = FlattenSeq(parts)
  BY DEF ToolsOf
<1> HIDE DEF parts
<1>5. ToolsOf(order) \in Seq(B)
  BY <1>3, <1>4, FlattenElements
<1> QED BY <1>5

-----------------------------------------------------------------------------
(* What each step does. *)

Ev(t, n, b) == [type |-> t, n |-> n, b |-> b, text |-> <<>>]
TextEv(t, n, b, x) == [type |-> t, n |-> n, b |-> b, text |-> x]

\* What is stored: one message, and of an answer its text.
LEMMA StoreStep ==
  ASSUME Types, Settled, pc \in Inserting, Store
  PROVE  /\ wrote' \in Seq(Kinds) /\ Len(wrote') = Len(wrote) + 1 /\ LastOf(wrote') = Kind[pc]
         /\ wrote' = Append(wrote, Kind[pc]) /\ UNCHANGED ran /\ stored' \in Seq(Nat)
         /\ pc = "insertUser" => Kind[pc] = "user"
         /\ pc = "insertToolUse" => Kind[pc] = "toolUse"
         /\ pc = "insertResults" => Kind[pc] = "toolResult"
         /\ pc = "insertReply" => Kind[pc] = "reply" /\ stored' = TextOf(content)
<1>1. /\ pc = "insertUser" => Kind[pc] = "user"
      /\ pc = "insertToolUse" => Kind[pc] = "toolUse"
      /\ pc = "insertResults" => Kind[pc] = "toolResult"
      /\ pc = "insertReply" => Kind[pc] = "reply"
  BY DEF Kind
<1>2. Kind[pc] \in Kinds
  BY <1>1 DEF Inserting, Kinds
<1>3. wrote' = Append(wrote, Kind[pc]) /\ UNCHANGED ran
  BY DEF Store
<1>4. wrote' \in Seq(Kinds) /\ Len(wrote') = Len(wrote) + 1 /\ wrote'[Len(wrote) + 1] = Kind[pc]
  <2>1. wrote \in Seq(Kinds)
    BY DEF Types
  <2> HIDE DEF Kinds
  <2> QED BY <1>2, <1>3, <2>1
<1>5. stored' \in Seq(Nat)
  BY TextType DEF Store, Types, Settled
<1> QED BY <1>1, <1>3, <1>4, <1>5 DEF Store, LastOf

\* The head of a round: it starts, or the budget is spent.
LEMMA RoundStep ==
  ASSUME StartIteration
  PROVE  /\ iteration' = iteration + 1
         /\ \/ /\ iteration + 1 > MaxIterations /\ pc' = "closing" /\ outcome' = "max_iterations"
               /\ outbox' = <<Ev("Error", iteration + 1, 0), Ev("Error", iteration + 1, 0)>>
            \/ /\ ~ (iteration + 1 > MaxIterations) /\ pc' = "request" /\ UNCHANGED outcome
               /\ outbox' = <<Ev("IterationStart", iteration + 1, 0)>>
<1>1. /\ [Event("Error", 0) EXCEPT !.n = iteration + 1] = Ev("Error", iteration + 1, 0)
      /\ [Event("IterationStart", 0) EXCEPT !.n = iteration + 1]
           = Ev("IterationStart", iteration + 1, 0)
  BY DEF Event, Ev
<1> QED BY <1>1 DEF StartIteration, Return

\* A new block is begun.
LEMMA BlockStartStep ==
  ASSUME Types, BlockStart
  PROVE  /\ pc = "stream" /\ outbox = <<>> /\ items' = items + 1
         /\ \/ /\ blocks' = Append(blocks, [kind |-> "text", text |-> <<>>, complete |-> FALSE])
               /\ outbox' = <<>>
            \/ /\ blocks' = Append(blocks, [kind |-> "text", text |-> Fragment, complete |-> FALSE])
               /\ outbox' = <<TextEv("TextDelta", iteration, Len(blocks) + 1, Fragment)>>
            \/ /\ blocks' = Append(blocks, [kind |-> "tool", text |-> <<>>, complete |-> FALSE])
               /\ outbox' = <<Ev("ToolUseStart", iteration, Len(blocks) + 1)>>
         /\ UNCHANGED <<callVars, lossy, content, todo, channel, reader, emitted, effectVars>>
<1>1. /\ TextDelta(Len(blocks) + 1) = TextEv("TextDelta", iteration, Len(blocks) + 1, Fragment)
      /\ Event("ToolUseStart", Len(blocks) + 1) = Ev("ToolUseStart", iteration, Len(blocks) + 1)
  BY DEF Event, Ev, TextDelta, TextEv
<1> QED BY <1>1 DEF BlockStart, NextItem, At

\* A block grows, is complete, or an item is lost.
LEMMA BlockMoreStep ==
  ASSUME Types, BlockDelta \/ BlockStop \/ ItemLost
  PROVE  /\ pc = "stream" /\ outbox = <<>> /\ items' = items + 1
         /\ \/ UNCHANGED <<blocks, outbox>>
            \/ \E b \in DOMAIN blocks :
                 \/ /\ blocks[b].kind = "text"
                    /\ blocks' = [blocks EXCEPT ![b].text = @ \o Fragment]
                    /\ outbox' = <<TextEv("TextDelta", iteration, b, Fragment)>>
                 \/ /\ blocks[b].kind = "tool" /\ UNCHANGED blocks
                    /\ outbox' = <<Ev("ToolUseDelta", iteration, b)>>
                 \/ /\ blocks' = [blocks EXCEPT ![b].complete = TRUE]
                    /\ outbox' = <<>> \/ outbox' = <<Ev("ToolUseComplete", iteration, b)>>
         /\ UNCHANGED <<callVars, content, todo, channel, reader, emitted, effectVars>>
<1>1. \A b : /\ TextDelta(b) = TextEv("TextDelta", iteration, b, Fragment)
             /\ Event("ToolUseDelta", b) = Ev("ToolUseDelta", iteration, b)
             /\ Event("ToolUseComplete", b) = Ev("ToolUseComplete", iteration, b)
  BY DEF Event, Ev, TextDelta, TextEv
<1>2. \A b \in DOMAIN blocks : blocks[b].kind \in {"text", "tool"}
  BY BlockFields DEF Types
<1>3. CASE BlockDelta
  BY <1>1, <1>2, <1>3 DEF BlockDelta, NextItem, At, Types
<1>4. CASE BlockStop
  BY <1>1, <1>4 DEF BlockStop, NextItem, At, Types
<1>5. CASE ItemLost
  BY <1>5 DEF ItemLost, NextItem, At
<1> QED BY <1>3, <1>4, <1>5

\* The response is over: its blocks are put in an order.
LEMMA EndStep ==
  ASSUME Types, EndOfResponse
  PROVE  /\ pc = "stream" /\ outbox = <<>>
         /\ content' \in Seq(DOMAIN blocks) /\ Range(content') = DOMAIN blocks
         /\ todo' \in Seq(DOMAIN blocks)
         /\ \A k \in DOMAIN todo' : blocks[todo'[k]].kind = "tool"
         /\ outbox' = <<Ev("IterationComplete", iteration, 0)>>
         /\ \/ pc' = "insertReply"
            \/ pc' = "insertToolUse" /\ todo' # <<>>
         /\ UNCHANGED <<outcome, iteration, blocks, items, channel, reader, emitted, effectVars>>
<1>1. /\ content' \in SetToSeqs(DOMAIN blocks) /\ todo' = ToolsOf(content')
      /\ outbox' = <<Event("IterationComplete", 0)>>
      /\ pc' = IF todo' = <<>> THEN "insertReply" ELSE "insertToolUse"
      /\ UNCHANGED <<outcome, iteration, blocks, items, channel, reader, emitted, effectVars>>
      /\ pc = "stream" /\ outbox = <<>>
  BY DEF EndOfResponse, At
<1>2. content' \in Seq(DOMAIN blocks) /\ Range(content') = DOMAIN blocks
  BY <1>1, OrderOfBlocks DEF Types
<1>3. /\ ToolsOf(content') \in Seq(DOMAIN blocks)
      /\ \A k \in DOMAIN ToolsOf(content') : blocks[ToolsOf(content')[k]].kind = "tool"
  BY <1>2, ToolsType DEF Types
<1>4. Event("IterationComplete", 0) = Ev("IterationComplete", iteration, 0)
  BY DEF Event, Ev
<1> QED BY <1>1, <1>2, <1>3, <1>4

\* The rest of the task, but for its ends.
LEMMA RestStep ==
  /\ ChatStream => /\ pc = "idle"
                   /\ \/ pc' = "insertUser" /\ UNCHANGED outcome
                      \/ pc' = "ended" /\ outcome' = "not_started"
                   /\ UNCHANGED <<iteration, responseVars, streamVars, effectVars>>
  /\ InsertUser => /\ pc = "insertUser" /\ outbox = <<>> /\ pc' = "load" /\ Store
                   /\ UNCHANGED <<outcome, iteration, responseVars, streamVars>>
  /\ LoadHistory => /\ pc = "load" /\ outbox = <<>> /\ StartIteration
                    /\ UNCHANGED <<responseVars, channel, reader, emitted, effectVars>>
  /\ Request => /\ pc = "request" /\ outbox = <<>> /\ pc' = "stream"
                /\ blocks' = <<>> /\ items' = 0 /\ lossy' = FALSE
                /\ UNCHANGED <<outcome, iteration, content, todo, streamVars, effectVars>>
  /\ InsertResults => /\ pc = "insertResults" /\ outbox = <<>> /\ Store /\ StartIteration
                      /\ UNCHANGED <<responseVars, channel, reader, emitted>>
  /\ Close => /\ pc = "closing" /\ outbox = <<>> /\ pc' = "ended"
              /\ UNCHANGED <<outcome, iteration, responseVars, streamVars, effectVars>>
BY DEF ChatStream, InsertUser, LoadHistory, Request, InsertResults, Close, At

\* The answer with tool calls is stored, and the first tool announced.
LEMMA ToolUseStep ==
  ASSUME InsertToolUse
  PROVE  /\ pc = "insertToolUse" /\ outbox = <<>> /\ pc' = "tools" /\ Store
         /\ outbox' = <<Ev("ToolExecutionStart", iteration, Head(todo))>>
         /\ UNCHANGED <<outcome, iteration, responseVars, channel, reader, emitted>>
BY DEF InsertToolUse, At, Event, Ev

\* A tool returns.
LEMMA ToolStep ==
  ASSUME Types, todo # <<>>, RunTool
  PROVE  /\ pc = "tools" /\ outbox = <<>> /\ todo' = Tail(todo)
         /\ \/ /\ pc' = "insertResults"
               /\ outbox' = <<Ev("ToolExecutionComplete", iteration, Head(todo))>>
            \/ /\ pc' = "tools" /\ todo' # <<>>
               /\ outbox' = <<Ev("ToolExecutionComplete", iteration, Head(todo)),
                              Ev("ToolExecutionStart", iteration, Head(todo'))>>
         /\ ran' \in Seq(Nat \X Nat) /\ ran' # <<>> /\ LastOf(ran')[1] = iteration
         /\ UNCHANGED <<outcome, iteration, blocks, items, lossy, content, channel, reader,
                        emitted, wrote, stored>>
<1>1. \A b : /\ Event("ToolExecutionComplete", b) = Ev("ToolExecutionComplete", iteration, b)
             /\ Event("ToolExecutionStart", b) = Ev("ToolExecutionStart", iteration, b)
  BY DEF Event, Ev
<1>2. ran' = Append(ran, <<iteration, Head(todo)>>)
  BY DEF RunTool
<1>3. <<iteration, Head(todo)>> \in Nat \X Nat
  <2>1. iteration \in Nat /\ todo \in Seq(Nat)
    BY DEF Types
  <2>2. Head(todo) \in Nat
    BY <2>1
  <2> QED BY <2>1, <2>2
<1>4. ran' \in Seq(Nat \X Nat) /\ ran' # <<>> /\ LastOf(ran') = <<iteration, Head(todo)>>
  <2>1. ran \in Seq(Nat \X Nat)
    BY DEF Types
  <2> QED BY <1>2, <1>3, <2>1, AppendProperties DEF LastOf
<1>5. /\ pc = "tools" /\ outbox = <<>> /\ todo' = Tail(todo)
      /\ \/ /\ pc' = "insertResults"
            /\ outbox' = <<Event("ToolExecutionComplete", Head(todo))>>
         \/ /\ pc' = pc /\ todo' # <<>>
            /\ outbox' = <<Event("ToolExecutionComplete", Head(todo)),
                           Event("ToolExecutionStart", Head(Tail(todo)))>>
      /\ UNCHANGED <<outcome, iteration, blocks, items, lossy, content, channel, reader,
                     emitted, wrote, stored>>
  BY DEF RunTool, At
<1>6. LastOf(ran')[1] = iteration
  BY <1>4
<1> QED BY <1>1, <1>4, <1>5, <1>6

\* The reply is stored, and Done is said of it.
LEMMA ReplyStep ==
  ASSUME InsertReply
  PROVE  /\ pc = "insertReply" /\ outbox = <<>> /\ pc' = "closing" /\ outcome' = "ok" /\ Store
         /\ outbox' = <<TextEv("Done", iteration, 0, TextOf(content))>>
         /\ UNCHANGED <<iteration, responseVars, channel, reader, emitted>>
BY DEF InsertReply, Return, Done, At, Event, TextEv

\* A fault of the database or the gateway ends the task with an Error.
LEMMA FaultStep ==
  ASSUME StorageFault \/ GatewayFault
  PROVE  /\ pc \in Inserting \union {"load", "request"} /\ outbox = <<>>
         /\ pc' = "closing" /\ outcome' \in {"storage_error", "gateway_error"}
         /\ outbox' = <<Ev("Error", iteration, 0)>>
         /\ UNCHANGED effectVars \/ (pc \in Inserting /\ Store)
         /\ UNCHANGED <<iteration, responseVars, channel, reader, emitted>>
BY DEF StorageFault, GatewayFault, Fail, Return, At, Event, Ev

\* The task vanishes.
LEMMA DieStep ==
  ASSUME Die
  PROVE  /\ pc \notin {"idle", "ended", "dead"} /\ pc' = "dead" /\ outbox' = <<>>
         /\ outcome' = IF outcome = "none" THEN "died" ELSE outcome
         /\ \/ UNCHANGED effectVars
            \/ pc \in Inserting /\ Store
            \/ /\ pc = "tools" /\ ran' = Append(ran, <<iteration, Head(todo)>>)
               /\ UNCHANGED <<wrote, stored>>
         /\ UNCHANGED <<iteration, responseVars, channel, reader, emitted>>
BY DEF Die, At

\* An event is sent, or lost on a reader who is gone; the reader takes one, or
\* goes away.
LEMMA StreamStep ==
  /\ Send => /\ outbox # <<>> /\ outbox' = Tail(outbox)
             /\ \/ reader = "dropped" /\ UNCHANGED <<channel, emitted>>
                \/ /\ reader # "dropped" /\ Len(channel) < Capacity
                   /\ channel' = Append(channel, Head(outbox))
                   /\ emitted' = Append(emitted, Head(outbox))
             /\ UNCHANGED <<callVars, responseVars, reader, effectVars>>
  /\ Reader => /\ reader = "open"
               /\ \/ channel # <<>> /\ channel' = Tail(channel) /\ UNCHANGED reader
                  \/ reader' = "dropped" /\ channel' = <<>>
               /\ UNCHANGED <<callVars, responseVars, outbox, emitted, effectVars>>
BY DEF Send, Reader, Receive, DropReader

-----------------------------------------------------------------------------
(* Types and progress. *)

\* The few events of one step are a sequence of events.
LEMMA EvType ==
  ASSUME NEW t \in EventTypes, NEW n \in Nat, NEW b \in Nat
  PROVE  Ev(t, n, b) \in Events
<1>1. <<>> \in Seq(Nat)
  OBVIOUS
<1> QED BY <1>1 DEF Events, Ev

\* And so is one with a text.
LEMMA TextEvType ==
  ASSUME NEW t \in EventTypes, NEW n \in Nat, NEW b \in Nat, NEW x \in Seq(Nat)
  PROVE  TextEv(t, n, b, x) \in Events
BY DEF Events, TextEv

\* One event, and two.
LEMMA OneOrTwo ==
  /\ <<>> \in Seq(Events)
  /\ \A e \in Events : <<e>> \in Seq(Events)
  /\ \A e, f \in Events : <<e, f>> \in Seq(Events)
OBVIOUS

\* A round begins, at the start or after the results of tools.
LEMMA RoundType ==
  ASSUME BaseInv, StartIteration, outbox = <<>>, iteration \in 0..MaxIterations,
         Len(wrote') = 2 * iteration + 1, LastOf(wrote') \in {"user", "toolResult"},
         wrote' \in Seq(Kinds), stored' \in Seq(Nat),
         pc \in {"load", "insertResults"},
         UNCHANGED <<responseVars, channel, reader, emitted, ran>>
  PROVE  BaseInv'
<1>1. /\ iteration' = iteration + 1
      /\ \/ /\ iteration + 1 > MaxIterations /\ pc' = "closing" /\ outcome' = "max_iterations"
            /\ outbox' = <<Ev("Error", iteration + 1, 0), Ev("Error", iteration + 1, 0)>>
         \/ /\ ~ (iteration + 1 > MaxIterations) /\ pc' = "request" /\ UNCHANGED outcome
            /\ outbox' = <<Ev("IterationStart", iteration + 1, 0)>>
  BY RoundStep
<1>2. outbox' \in Seq(Events)
  <2>1. Ev("Error", iteration + 1, 0) \in Events /\ Ev("IterationStart", iteration + 1, 0) \in Events
    <3>1. iteration + 1 \in Nat
      OBVIOUS
    <3> QED BY <3>1, EvType DEF EventTypes
  <2> QED BY <1>1, <2>1, OneOrTwo
<1>3. iteration' \in 0..(MaxIterations + 1)
  BY <1>1
<1>4. outcome = "none"
  BY DEF BaseInv, Progress, Over
<1>5. Types'
  BY <1>1, <1>2, <1>3, <1>4 DEF BaseInv, Types, responseVars, Stages, Outcomes
<1>6. Progress'
  <2>1. ~ (iteration + 1 > MaxIterations) => iteration' \in 1..MaxIterations
    BY <1>1
  <2>2. Len(wrote') = 2 * iteration' - 1
    BY <1>1
  <2> QED BY <1>1, <1>4, <2>1, <2>2 DEF Progress, LastOf, Over
<1>7. Settled' /\ Silent'
  BY <1>1 DEF Settled, Silent
<1> QED BY <1>5, <1>6, <1>7 DEF BaseInv

\* Every value the code can reach is of its type, and the messages stored, the
\* tools that ran and the blocks of the response are those of the stage the task
\* is at.
THEOREM BaseInvariant == Spec => []BaseInv
<1>1. Init => BaseInv
  <2> SUFFICES ASSUME Init PROVE BaseInv
    OBVIOUS
  <2>1. Types
    BY DEF Init, Types, Stages, Outcomes
  <2> QED BY <2>1 DEF Init, BaseInv, Over, Progress, Settled, Silent
<1>2. BaseInv /\ [Next]_vars => BaseInv'
  <2> SUFFICES ASSUME BaseInv, [Next]_vars PROVE BaseInv'
    OBVIOUS
  <2> USE DEF BaseInv
  <2>0. iteration \in Nat /\ Kinds = Kinds'
    BY DEF Types
  <2>1. CASE ChatStream
    BY <2>1, RestStep DEF Types, Progress, Settled, Silent, Stages, Inserting, Outcomes, Over,
       responseVars, streamVars, effectVars, LastOf
  <2>2. CASE InsertUser
    <3>1. /\ pc = "insertUser" /\ outbox = <<>> /\ pc' = "load" /\ Store /\ pc \in Inserting
          /\ UNCHANGED <<outcome, iteration, responseVars, streamVars>>
      BY <2>2, RestStep DEF Inserting
    <3>2. /\ wrote' \in Seq(Kinds) /\ wrote' = Append(wrote, "user") /\ UNCHANGED ran
          /\ stored' \in Seq(Nat)
      BY <3>1, StoreStep
    <3>3. wrote' = <<"user">>
      BY <3>1, <3>2 DEF Progress
    <3> QED BY <3>1, <3>2, <3>3 DEF Types, Progress, Settled, Silent, Stages, Over, responseVars,
               streamVars
  <2>3. CASE LoadHistory
    <3>1. /\ pc = "load" /\ outbox = <<>> /\ StartIteration
          /\ UNCHANGED <<responseVars, channel, reader, emitted, effectVars>>
      BY <2>3, RestStep
    <3>2. /\ iteration = 0 /\ Len(wrote') = 2 * iteration + 1 /\ LastOf(wrote') = "user"
          /\ iteration \in 0..MaxIterations
      <4>1. iteration = 0 /\ wrote' = <<"user">>
        BY <3>1 DEF Progress, effectVars
      <4>2. Len(<<"user">>) = 1 /\ <<"user">>[1] = "user"
        OBVIOUS
      <4> QED BY <4>1, <4>2 DEF LastOf
    <3> QED BY <3>1, <3>2, RoundType DEF Types, effectVars
  <2>4. CASE Request
    <3>1. /\ pc = "request" /\ outbox = <<>> /\ pc' = "stream"
          /\ blocks' = <<>> /\ items' = 0 /\ lossy' = FALSE
          /\ UNCHANGED <<outcome, iteration, content, todo, streamVars, effectVars>>
      BY <2>4, RestStep
    <3>2. Types'
      BY <3>1 DEF Types, Stages, streamVars, effectVars
    <3> QED BY <3>1, <3>2 DEF Progress, Settled, Silent, Over, streamVars, effectVars, LastOf
  <2>5. CASE BlockStart
    <3>1. Len(blocks) + 1 \in Nat /\ Fragment \in Seq(Nat) /\ items + 1 \in Nat
      BY DEF Types, Fragment
    <3>2. outbox' \in Seq(Events)
      <4>1. /\ TextEv("TextDelta", iteration, Len(blocks) + 1, Fragment) \in Events
            /\ Ev("ToolUseStart", iteration, Len(blocks) + 1) \in Events
        BY <2>0, <3>1, EvType, TextEvType DEF EventTypes, ContentEvents
      <4> QED BY <2>5, <4>1, BlockStartStep, OneOrTwo
    <3>3. blocks' \in Seq(Blocks)
      <4>1. \A k \in {"text", "tool"} : \A x \in Seq(Nat) :
              [kind |-> k, text |-> x, complete |-> FALSE] \in Blocks
        BY DEF Blocks
      <4>2. <<>> \in Seq(Nat) /\ blocks \in Seq(Blocks)
        BY DEF Types
      <4>3. \E e \in Blocks : blocks' = Append(blocks, e)
        BY <2>5, <3>1, <4>1, <4>2, BlockStartStep
      <4> HIDE DEF Blocks
      <4> QED BY <4>2, <4>3, AppendProperties
    <3> QED BY <2>5, <3>1, <3>2, <3>3, BlockStartStep DEF Types, Progress, Settled, Silent, callVars,
               effectVars, Over, LastOf
  <2>6. CASE BlockDelta \/ BlockStop \/ ItemLost
    <3>1. DOMAIN blocks \subseteq Nat /\ Fragment \in Seq(Nat) /\ items + 1 \in Nat
      BY DEF Types, Fragment
    <3>2. outbox' \in Seq(Events)
      <4>1. ASSUME NEW b \in DOMAIN blocks
            PROVE  /\ TextEv("TextDelta", iteration, b, Fragment) \in Events
                   /\ Ev("ToolUseDelta", iteration, b) \in Events
                   /\ Ev("ToolUseComplete", iteration, b) \in Events
        BY <2>0, <3>1, EvType, TextEvType DEF EventTypes, ContentEvents
      <4>2. UNCHANGED outbox => outbox' \in Seq(Events)
        BY DEF Types
      <4> QED BY <2>6, <4>1, <4>2, BlockMoreStep, OneOrTwo
    <3>3. blocks' \in Seq(Blocks)
      <4>1. ASSUME NEW b \in DOMAIN blocks, blocks' = [blocks EXCEPT ![b].text = @ \o Fragment]
            PROVE  blocks' \in Seq(Blocks)
        <5>1. blocks[b] \in Blocks /\ blocks[b].text \o Fragment \in Seq(Nat)
          BY <3>1, BlockFields DEF Types
        <5> DEFINE r == [blocks[b] EXCEPT !.text = blocks[b].text \o Fragment]
        <5>2. r \in Blocks
          BY <5>1 DEF Blocks
        <5>3. blocks' = [blocks EXCEPT ![b] = r]
          BY <4>1
        <5>4. blocks \in Seq(Blocks) /\ b \in 1..Len(blocks)
          BY DEF Types
        <5> HIDE DEF Blocks, r
        <5> QED BY <5>2, <5>3, <5>4, ExceptSeq
      <4>2. ASSUME NEW b \in DOMAIN blocks, blocks' = [blocks EXCEPT ![b].complete = TRUE]
            PROVE  blocks' \in Seq(Blocks)
        <5>1. blocks[b] \in Blocks
          BY DEF Types
        <5> DEFINE r == [blocks[b] EXCEPT !.complete = TRUE]
        <5>2. r \in Blocks
          BY <5>1 DEF Blocks
        <5>3. blocks' = [blocks EXCEPT ![b] = r]
          BY <4>2
        <5>4. blocks \in Seq(Blocks) /\ b \in 1..Len(blocks)
          BY DEF Types
        <5> HIDE DEF Blocks, r
        <5> QED BY <5>2, <5>3, <5>4, ExceptSeq
      <4> QED BY <2>6, <4>1, <4>2, BlockMoreStep DEF Types
    <3> QED BY <2>6, <3>1, <3>2, <3>3, BlockMoreStep DEF Types, Progress, Settled, Silent, callVars,
               effectVars, Over, LastOf
  <2>7. CASE EndOfResponse
    <3>1. DOMAIN blocks \subseteq Nat
      BY DEF Types
    <3>2. content' \in Seq(Nat) /\ todo' \in Seq(Nat)
      BY <2>7, <3>1, EndStep, SeqMonotonic
    <3>3. outbox' \in Seq(Events)
      <4>1. Ev("IterationComplete", iteration, 0) \in Events
        BY <2>0, EvType DEF EventTypes
      <4> QED BY <2>7, <4>1, EndStep, OneOrTwo
    <3>4. /\ pc = "stream" /\ pc' \in {"insertReply", "insertToolUse"}
          /\ UNCHANGED <<outcome, iteration, blocks, items, channel, reader, emitted, effectVars>>
      BY <2>7, EndStep DEF Types
    <3>5. Types'
      BY <3>2, <3>3, <3>4 DEF Types, Stages, Inserting, effectVars
    <3>6. Progress' /\ Silent'
      BY <3>4 DEF Progress, Silent, Over, LastOf, effectVars
    <3>7. Settled'
      BY <2>7, <3>4, EndStep DEF Settled, Types
    <3> QED BY <3>5, <3>6, <3>7
  <2>8. CASE InsertReply
    <3>1. /\ pc = "insertReply" /\ outbox = <<>> /\ pc' = "closing" /\ outcome' = "ok" /\ Store
          /\ outbox' = <<TextEv("Done", iteration, 0, TextOf(content))>> /\ pc \in Inserting
          /\ UNCHANGED <<iteration, responseVars, channel, reader, emitted>>
      BY <2>8, ReplyStep DEF Inserting
    <3>2. wrote' \in Seq(Kinds) /\ UNCHANGED ran /\ stored' \in Seq(Nat)
      BY <3>1, StoreStep
    <3>3. TextOf(content) \in Seq(Nat)
      BY <3>1, TextType DEF Types, Settled
    <3>4. outbox' \in Seq(Events)
      <4>1. TextEv("Done", iteration, 0, TextOf(content)) \in Events
        BY <2>0, <3>3, TextEvType DEF EventTypes
      <4> QED BY <3>1, <4>1, OneOrTwo
    <3> QED BY <3>1, <3>2, <3>4 DEF Types, Progress, Settled, Silent, Stages, Outcomes, Over, responseVars
  <2>9. CASE InsertToolUse
    <3>1. /\ pc = "insertToolUse" /\ outbox = <<>> /\ pc' = "tools" /\ Store /\ pc \in Inserting
          /\ outbox' = <<Ev("ToolExecutionStart", iteration, Head(todo))>>
          /\ UNCHANGED <<outcome, iteration, responseVars, channel, reader, emitted>>
      BY <2>9, ToolUseStep DEF Inserting
    <3>2. /\ wrote' \in Seq(Kinds) /\ UNCHANGED ran /\ stored' \in Seq(Nat)
          /\ Len(wrote') = Len(wrote) + 1 /\ LastOf(wrote') = "toolUse"
      BY <3>1, StoreStep
    <3>3. Head(todo) \in Nat
      BY <3>1 DEF Types, Settled
    <3>4. outbox' \in Seq(Events)
      <4>1. Ev("ToolExecutionStart", iteration, Head(todo)) \in Events
        BY <2>0, <3>3, EvType DEF EventTypes
      <4> QED BY <3>1, <4>1, OneOrTwo
    <3>5. Len(wrote') = 2 * iteration /\ iteration \in 1..MaxIterations
      <4>1. Len(wrote) = 2 * iteration - 1 /\ iteration \in 1..MaxIterations
        BY <3>1 DEF Progress
      <4> QED BY <2>0, <3>1, <3>2, <4>1
    <3> QED BY <3>1, <3>2, <3>4, <3>5 DEF Types, Progress, Settled, Silent, Stages, Over, responseVars
  <2>10. CASE RunTool
    <3>1. pc = "tools"
      BY <2>10 DEF RunTool, At
    <3>2. todo # <<>> /\ Head(todo) \in Nat /\ Tail(todo) \in Seq(Nat)
      BY <3>1 DEF Types, Settled
    <3>3. \A k \in DOMAIN Tail(todo) : \E l \in DOMAIN todo : Tail(todo)[k] = todo[l]
      <4>1. \A k \in DOMAIN Tail(todo) : k + 1 \in DOMAIN todo /\ Tail(todo)[k] = todo[k + 1]
        BY <3>2 DEF Types
      <4> QED BY <4>1
    <3>4. todo' = Tail(todo) /\ (todo' # <<>> => Head(todo') \in Nat)
      <4>1. todo' = Tail(todo)
        BY <2>10, <3>2, ToolStep
      <4> QED BY <3>2, <4>1
    <3>5. outbox' \in Seq(Events)
      <4>1. \A b \in Nat : /\ Ev("ToolExecutionComplete", iteration, b) \in Events
                           /\ Ev("ToolExecutionStart", iteration, b) \in Events
        BY <2>0, EvType DEF EventTypes
      <4> QED BY <2>10, <3>2, <3>4, <4>1, ToolStep, OneOrTwo
    <3>6. Types'
      BY <2>10, <3>2, <3>5, ToolStep DEF Types, Stages, Inserting
    <3>7. Progress' /\ Silent'
      BY <2>10, <3>2, ToolStep DEF Progress, Silent, Over, LastOf
    <3>8. Settled'
      <4>1. /\ UNCHANGED <<blocks, content>> /\ pc = "tools" /\ pc' \in {"tools", "insertResults"}
            /\ pc' = "tools" => todo' # <<>>
        BY <2>10, <3>2, ToolStep
      <4>2. \A k \in DOMAIN todo : todo[k] \in DOMAIN blocks /\ blocks[todo[k]].kind = "tool"
        BY <4>1 DEF Settled
      <4>3. \A k \in DOMAIN todo' : todo'[k] \in DOMAIN blocks /\ blocks[todo'[k]].kind = "tool"
        BY <3>3, <3>4, <4>2
      <4> QED BY <4>1, <4>3 DEF Settled
    <3> QED BY <3>6, <3>7, <3>8
  <2>11. CASE InsertResults
    <3>1. /\ pc = "insertResults" /\ outbox = <<>> /\ Store /\ StartIteration /\ pc \in Inserting
          /\ UNCHANGED <<responseVars, channel, reader, emitted>>
      BY <2>11, RestStep DEF Inserting
    <3>2. /\ wrote' \in Seq(Kinds) /\ UNCHANGED ran /\ stored' \in Seq(Nat)
          /\ Len(wrote') = Len(wrote) + 1 /\ LastOf(wrote') = "toolResult"
      BY <3>1, StoreStep
    <3>3. Len(wrote') = 2 * iteration + 1 /\ iteration \in 0..MaxIterations
      BY <3>1, <3>2 DEF Progress
    <3> QED BY <3>1, <3>2, <3>3, RoundType
  <2>12. CASE Send
    <3>1. outbox # <<>> => Head(outbox) \in Events /\ Tail(outbox) \in Seq(Events)
      BY DEF Types
    <3>2. /\ outbox' \in Seq(Events) /\ channel' \in Seq(Events) /\ emitted' \in Seq(Events)
      <4>1. channel \in Seq(Events) /\ emitted \in Seq(Events)
        BY DEF Types
      <4> HIDE DEF Events
      <4>2. \A e \in Events : Append(channel, e) \in Seq(Events) /\ Append(emitted, e) \in Seq(Events)
        BY <4>1
      <4> QED BY <2>12, <3>1, <4>1, <4>2, StreamStep
    <3> QED BY <2>12, <3>2, StreamStep DEF Types, Progress, Settled, Silent, callVars, responseVars,
               effectVars, LastOf
  <2>13. CASE Reader
    <3>1. <<>> \in Seq(Events) /\ (channel # <<>> => Tail(channel) \in Seq(Events))
      BY DEF Types
    <3>2. channel' \in Seq(Events) /\ reader' \in {"open", "dropped"}
      BY <2>13, <3>1, StreamStep DEF Types
    <3> QED BY <2>13, <3>2, StreamStep DEF Types, Progress, Settled, Silent, callVars, responseVars,
               effectVars, LastOf
  <2>14. CASE Close
    BY <2>14, RestStep DEF Types, Progress, Settled, Silent, Stages, Over, responseVars, streamVars,
       effectVars, LastOf
  <2>15. CASE StorageFault \/ GatewayFault
    <3>1. wrote' \in Seq(Kinds) /\ UNCHANGED ran /\ stored' \in Seq(Nat)
      BY <2>15, FaultStep, StoreStep DEF Types, effectVars
    <3>2. outbox' \in Seq(Events)
      <4>1. Ev("Error", iteration, 0) \in Events
        BY <2>0, EvType DEF EventTypes
      <4> QED BY <2>15, <4>1, FaultStep, OneOrTwo
    <3> QED BY <2>15, <3>1, <3>2, FaultStep DEF Types, Progress, Settled, Silent, Stages, Outcomes, Over,
               responseVars
  <2>16. CASE Die
    <3>1. pc = "tools" => Append(ran, <<iteration, Head(todo)>>) \in Seq(Nat \X Nat)
      <4>1. ASSUME pc = "tools" PROVE <<iteration, Head(todo)>> \in Nat \X Nat
        <5>1. Head(todo) \in Nat
          BY <4>1 DEF Types, Settled
        <5> QED BY <2>0, <5>1
      <4> QED BY <4>1, AppendProperties DEF Types
    <3>2. wrote' \in Seq(Kinds) /\ ran' \in Seq(Nat \X Nat) /\ stored' \in Seq(Nat)
      BY <2>16, <3>1, DieStep, StoreStep DEF Types, effectVars
    <3>3. <<>> \in Seq(Events)
      OBVIOUS
    <3> QED BY <2>16, <3>2, <3>3, DieStep DEF Types, Progress, Settled, Silent, Stages, Outcomes, Over,
               responseVars
  <2>17. CASE UNCHANGED vars
    BY <2>17 DEF Types, Progress, Settled, Silent, vars, callVars, responseVars, streamVars, effectVars,
       LastOf
  <2> QED BY <2>1, <2>2, <2>3, <2>4, <2>5, <2>6, <2>7, <2>8, <2>9, <2>10, <2>11, <2>12, <2>13, <2>14,
             <2>15, <2>16, <2>17 DEF Next, Task, Item, Fault
<1> QED BY <1>1, <1>2, PTL DEF Spec

-----------------------------------------------------------------------------
(* The channel. *)

\* A sequence is a suffix of another if it is its end, place by place.
LEMMA SuffixIs ==
  ASSUME NEW S, NEW s \in Seq(S), NEW t \in Seq(S), Len(s) =< Len(t),
         \A i \in 1..Len(s) : s[i] = t[Len(t) - Len(s) + i]
  PROVE  IsSuffix(s, t)
<1> DEFINE a == Reverse(s)
           b == Reverse(t)
<1>1. /\ a \in Seq(S) /\ Len(a) = Len(s) /\ \A i \in 1..Len(s) : a[i] = s[Len(s) - i + 1]
      /\ b \in Seq(S) /\ Len(b) = Len(t) /\ \A i \in 1..Len(t) : b[i] = t[Len(t) - i + 1]
  BY DEF Reverse
<1> HIDE DEF a, b
<1>2. ASSUME NEW i \in 1..Len(s) PROVE a[i] = b[i]
  <2>1. Len(s) - i + 1 \in 1..Len(s) /\ i \in 1..Len(t)
    OBVIOUS
  <2>2. a[i] = t[Len(t) - Len(s) + (Len(s) - i + 1)]
    BY <1>1, <2>1
  <2>3. Len(t) - Len(s) + (Len(s) - i + 1) = Len(t) - i + 1
    OBVIOUS
  <2> QED BY <1>1, <2>1, <2>2, <2>3
<1>3. SubSeq(a, 1, Len(a)) = SubSeq(b, 1, Len(a))
  BY <1>1, <1>2
<1> QED BY <1>1, <1>3 DEF IsSuffix, IsPrefix, a, b

\* The channel is within its capacity, and holds the end of what was emitted.
THEOREM BufferInvariant == Spec => []Buffer
<1>1. Init => Buffer
  BY DEF Init, Buffer
<1>2. BaseInv /\ Buffer /\ [Next]_vars => Buffer'
  <2> SUFFICES ASSUME BaseInv, Buffer, [Next]_vars PROVE Buffer'
    OBVIOUS
  <2>0. channel \in Seq(Events) /\ emitted \in Seq(Events) /\ outbox \in Seq(Events)
    BY DEF BaseInv, Types
  <2>1. CASE UNCHANGED <<channel, emitted>>
    BY <2>1 DEF Buffer
  <2>2. CASE Send
    <3> DEFINE e == Head(outbox)
    <3>1. CASE channel' = Append(channel, e) /\ emitted' = Append(emitted, e) /\ Len(channel) < Capacity
      <4>1. e \in Events
        BY <2>0, <2>2, StreamStep
      <4> HIDE DEF e, Events
      <4>2. /\ Len(channel') = Len(channel) + 1 /\ Len(emitted') = Len(emitted) + 1
            /\ \A i \in 1..Len(channel) : channel'[i] = channel[i]
            /\ \A i \in 1..Len(emitted) : emitted'[i] = emitted[i]
            /\ channel'[Len(channel) + 1] = e /\ emitted'[Len(emitted) + 1] = e
        BY <2>0, <3>1, <4>1, AppendProperties
      <4>3. Len(channel) \in Nat /\ Len(emitted) \in Nat
        BY <2>0
      <4>4. ASSUME NEW i \in 1..Len(channel')
            PROVE  channel'[i] = emitted'[Len(emitted') - Len(channel') + i]
        <5>1. Len(emitted') - Len(channel') + i = Len(emitted) - Len(channel) + i
          BY <4>2, <4>3
        <5>2. CASE i \in 1..Len(channel)
          <6>1. /\ Len(emitted) - Len(channel) + i \in 1..Len(emitted)
                /\ channel[i] = emitted[Len(emitted) - Len(channel) + i]
            BY <4>3, <5>2 DEF Buffer
          <6> QED BY <4>2, <5>1, <5>2, <6>1
        <5>3. CASE i = Len(channel) + 1
          <6>1. Len(emitted) - Len(channel) + i = Len(emitted) + 1
            BY <4>3, <5>3
          <6> QED BY <4>2, <5>1, <5>3, <6>1
        <5>4. i \in 1..Len(channel) \/ i = Len(channel) + 1
          <6>1. i \in 1..(Len(channel) + 1)
            BY <4>2
          <6> QED BY <4>3, <6>1
        <5> QED BY Zenon, <5>2, <5>3, <5>4
      <4>5. Len(channel') =< Capacity /\ Len(channel') =< Len(emitted')
        <5>1. Len(channel) =< Len(emitted)
          BY DEF Buffer
        <5> QED BY <3>1, <4>2, <4>3, <5>1
      <4> QED BY Zenon, <4>4, <4>5 DEF Buffer
    <3> QED BY <2>1, <2>2, <3>1, StreamStep
  <2>3. CASE Reader
    <3>1. CASE channel # <<>> /\ channel' = Tail(channel) /\ UNCHANGED emitted
      <4>1. /\ Len(channel') = Len(channel) - 1 /\ Len(channel) \in Nat /\ Len(emitted) \in Nat
            /\ \A i \in 1..Len(channel') : channel'[i] = channel[i + 1] /\ i + 1 \in 1..Len(channel)
        BY <2>0, <3>1
      <4>2. ASSUME NEW i \in 1..Len(channel')
            PROVE  channel'[i] = emitted'[Len(emitted') - Len(channel') + i]
        <5>1. Len(emitted) - Len(channel') + i = Len(emitted) - Len(channel) + (i + 1)
          BY <4>1
        <5> QED BY <3>1, <4>1, <5>1 DEF Buffer
      <4> QED BY <3>1, <4>1, <4>2 DEF Buffer
    <3>2. CASE channel' = <<>> /\ UNCHANGED emitted
      BY <2>0, <3>2 DEF Buffer
    <3> QED BY <2>3, <3>1, <3>2, StreamStep
  <2>4. CASE BlockStart \/ BlockDelta \/ BlockStop \/ ItemLost \/ EndOfResponse
    BY <2>1, <2>4 DEF BlockStart, BlockDelta, BlockStop, ItemLost, NextItem, EndOfResponse
  <2>5. CASE ChatStream \/ InsertUser \/ LoadHistory \/ Request \/ InsertResults \/ Close
    BY <2>1, <2>5, RestStep DEF streamVars
  <2>6. CASE InsertReply \/ InsertToolUse \/ RunTool \/ Fault
    BY <2>1, <2>6 DEF InsertReply, InsertToolUse, RunTool, Fault, StorageFault, GatewayFault, Die
  <2>7. CASE UNCHANGED vars
    BY <2>1, <2>7 DEF vars, streamVars
  <2> QED BY <2>2, <2>3, <2>4, <2>5, <2>6, <2>7 DEF Next, Task, Item
<1> QED BY <1>1, <1>2, BaseInvariant, PTL DEF Spec

\* Every variable has its type, the channel never holds more than buffer_size, and
\* what it holds is what the reader has still to take.
THEOREM TypeCorrect == Spec => []TypeOK
<1>1. BaseInv /\ Buffer => TypeOK
  <2> SUFFICES ASSUME BaseInv, Buffer PROVE TypeOK
    OBVIOUS
  <2>1. IsSuffix(channel, emitted)
    BY SuffixIs DEF BaseInv, Types, Buffer
  <2> QED BY <2>1 DEF TypeOK, BaseInv, Types, Buffer, Stages, Outcomes, Blocks
<1> QED BY <1>1, BaseInvariant, BufferInvariant, PTL
-----------------------------------------------------------------------------
(* The story told to the reader. *)

\* When all that was to be said has been sent, nothing more may be said.
LEMMA SayNothing ==
  ASSUME outbox = <<>>, outbox' = <<>>, UNCHANGED emitted
  PROVE  Links(outbox', emitted') /\ Said' = Said /\ LastSaid' = LastSaid
BY DEF Links, Said, LastSaid, LastOf

\* Or one event, that fits the last one.
LEMMA SayOne ==
  ASSUME outbox = <<>>, NEW e, outbox' = <<e>>, UNCHANGED emitted,
         IF emitted = <<>> THEN P!First(e) ELSE P!Follows(LastOf(emitted), e)
  PROVE  Links(outbox', emitted') /\ Said' /\ LastSaid' = e
<1>1. Len(<<e>>) = 1 /\ <<e>>[1] = e /\ <<e>> # <<>>
  OBVIOUS
<1> QED BY <1>1 DEF Links, Said, LastSaid, LastOf

\* Or two.
LEMMA SayTwo ==
  ASSUME outbox = <<>>, NEW e, NEW f, outbox' = <<e, f>>, UNCHANGED emitted,
         IF emitted = <<>> THEN P!First(e) ELSE P!Follows(LastOf(emitted), e),
         P!Follows(e, f)
  PROVE  Links(outbox', emitted') /\ Said' /\ LastSaid' = f
<1>1. Len(<<e, f>>) = 2 /\ <<e, f>>[1] = e /\ <<e, f>>[2] = f /\ <<e, f>> # <<>>
  OBVIOUS
<1>2. \A i \in 1..(2 - 1) : i = 1
  OBVIOUS
<1> QED BY <1>1, <1>2 DEF Links, Said, LastSaid, LastOf

\* Sending changes nothing in the story.
LEMMA SendStory ==
  ASSUME Types, outbox # <<>>, Links(outbox, emitted), outbox' = Tail(outbox),
         emitted' = Append(emitted, Head(outbox))
  PROVE  Links(outbox', emitted') /\ Said' /\ LastSaid' = LastSaid
<1>1. /\ outbox \in Seq(Events) /\ emitted \in Seq(Events) /\ Len(outbox) \in Nat /\ Len(emitted) \in Nat
      /\ outbox # <<>> <=> Len(outbox) # 0
  BY DEF Types
<1> HIDE DEF Events
<1>2. /\ Len(emitted') = Len(emitted) + 1 /\ emitted' # <<>> /\ LastOf(emitted') = outbox[1]
  BY <1>1, AppendProperties DEF LastOf
<1>3. /\ Len(outbox') = Len(outbox) - 1 /\ outbox' \in Seq(Events)
      /\ \A i \in 1..Len(outbox') : outbox'[i] = outbox[i + 1]
      /\ outbox' = <<>> <=> Len(outbox) = 1
  <2>1. /\ Len(outbox') = Len(outbox) - 1 /\ outbox' \in Seq(Events)
        /\ \A i \in 1..Len(outbox') : outbox'[i] = outbox[i + 1]
    BY <1>1
  <2>2. outbox' = <<>> <=> Len(outbox') = 0
    BY <2>1
  <2> QED BY <1>1, <2>1, <2>2
<1>4. CASE Len(outbox) = 1
  <2>1. outbox' = <<>> /\ LastOf(outbox) = outbox[1]
    BY <1>3, <1>4 DEF LastOf
  <2> QED BY <1>2, <2>1 DEF Links, Said, LastSaid
<1>5. CASE Len(outbox) > 1
  <2>1. outbox'[1] = outbox[2] /\ outbox' # <<>> /\ LastOf(outbox') = LastOf(outbox)
    BY <1>1, <1>3, <1>5 DEF LastOf
  <2>2. P!Follows(outbox[1], outbox[2])
    BY <1>1, <1>5 DEF Links
  <2>3. ASSUME NEW i \in 1..(Len(outbox') - 1) PROVE P!Follows(outbox'[i], outbox'[i + 1])
    <3>1. /\ i + 1 \in 1..(Len(outbox) - 1)
          /\ outbox'[i] = outbox[i + 1] /\ outbox'[i + 1] = outbox[i + 1 + 1]
      BY <1>1, <1>3
    <3> QED BY <3>1 DEF Links
  <2> QED BY <1>2, <2>1, <2>2, <2>3 DEF Links, Said, LastSaid
<1>6. Len(outbox) = 1 \/ Len(outbox) > 1
  <2>1. Len(outbox) \in Nat /\ Len(outbox) # 0
    BY Zenon, <1>1
  <2>2. \A k \in Nat : k # 0 => k = 1 \/ k > 1
    OBVIOUS
  <2> QED BY Zenon, <2>1, <2>2
<1> QED BY Zenon, <1>4, <1>5, <1>6
\* A round begins, or the spent budget is reported twice.
LEMMA RoundStory ==
  ASSUME BaseInv, StartIteration, outbox = <<>>, UNCHANGED emitted,
         pc \in {"load", "insertResults"}, Story
  PROVE  Story'
<1>1. /\ iteration' = iteration + 1 /\ iteration \in Nat
      /\ \/ /\ iteration + 1 > MaxIterations /\ pc' = "closing" /\ outcome' = "max_iterations"
            /\ outbox' = <<Ev("Error", iteration + 1, 0), Ev("Error", iteration + 1, 0)>>
         \/ /\ ~ (iteration + 1 > MaxIterations) /\ pc' = "request" /\ UNCHANGED outcome
            /\ outbox' = <<Ev("IterationStart", iteration + 1, 0)>>
  BY RoundStep DEF BaseInv, Types
<1>2. /\ iteration =< MaxIterations
      /\ pc = "load" => emitted = <<>> /\ iteration = 0
      /\ pc = "insertResults" => /\ emitted # <<>> /\ LastOf(emitted).type = "ToolExecutionComplete"
                                 /\ LastOf(emitted).n = iteration
  BY DEF BaseInv, Progress, Silent, Story, Told, Said, LastSaid
<1> DEFINE x == Ev("Error", iteration + 1, 0)
           y == Ev("IterationStart", iteration + 1, 0)
<1>3. x.type = "Error" /\ y.type = "IterationStart" /\ x.n = iteration + 1 /\ y.n = iteration + 1
  BY DEF Ev
<1>4. CASE iteration + 1 > MaxIterations
  <2>1. iteration = MaxIterations
    BY <1>1, <1>2, <1>4
  <2>2. IF emitted = <<>> THEN P!First(x) ELSE P!Follows(LastOf(emitted), x)
    BY <1>2, <1>3, <2>1 DEF P!First, P!Follows
  <2>3. P!Follows(x, x)
    BY <1>3, <2>1 DEF P!Follows
  <2>4. Links(outbox', emitted') /\ Said' /\ LastSaid' = x
    BY <1>1, <1>4, <2>2, <2>3, SayTwo
  <2> QED BY <1>1, <1>3, <1>4, <2>4 DEF Story, Terminal
<1>5. CASE ~ (iteration + 1 > MaxIterations)
  <2>1. iteration + 1 <= MaxIterations
    BY <1>1, <1>5
  <2>2. IF emitted = <<>> THEN P!First(y) ELSE P!Follows(LastOf(emitted), y)
    BY <1>1, <1>2, <1>3, <2>1 DEF P!First, P!Follows
  <2>3. Links(outbox', emitted') /\ Said' /\ LastSaid' = y
    BY <1>1, <1>5, <2>2, SayOne
  <2> QED BY <1>1, <1>3, <1>5, <2>3 DEF Story, Told
<1> QED BY <1>4, <1>5

\* Every event the code is about to send follows the one sent before it, as long as
\* somebody reads, and the stage of the task is that of the last of them.
THEOREM StoryInvariant == Spec => []StoryInv
<1>1. Init => StoryInv
  BY DEF Init, StoryInv, Story, Links
<1>2. BaseInv /\ StoryInv /\ [Next]_vars => StoryInv'
  <2> SUFFICES ASSUME BaseInv, StoryInv, [Next]_vars, reader' = "open" PROVE Story'
    BY DEF StoryInv
  <2>0. reader = "open" /\ Story /\ Types /\ iteration \in Nat
    <3>1. reader = "open"
      <4>1. ~ Reader => UNCHANGED reader
        BY FaultStep, DieStep DEF Next, Task, Item, Fault, ChatStream, InsertUser, LoadHistory, Request,
           BlockStart, BlockDelta, BlockStop, ItemLost, NextItem, EndOfResponse, InsertReply,
           InsertToolUse, RunTool, InsertResults, Send, Close, streamVars, vars
      <4> QED BY <4>1, StreamStep
    <3> QED BY <3>1 DEF StoryInv, BaseInv, Types
  <2>1. CASE ChatStream
    <3>1. pc = "idle" /\ UNCHANGED <<outbox, emitted>> /\ outbox = <<>>
          /\ (pc' = "insertUser" \/ (pc' = "ended" /\ outcome' = "not_started"))
      BY <2>1, RestStep DEF streamVars, BaseInv, Silent
    <3> QED BY <3>1, SayNothing DEF Story
  <2>2. CASE InsertUser
    <3>1. pc' = "load" /\ outbox = <<>> /\ UNCHANGED <<outbox, emitted>>
      BY <2>2, RestStep DEF streamVars
    <3> QED BY <3>1, SayNothing DEF Story
  <2>3. CASE LoadHistory \/ InsertResults
    BY <2>0, <2>3, RestStep, RoundStory
  <2>4. CASE Request
    <3>1. pc = "request" /\ pc' = "stream" /\ outbox = <<>> /\ UNCHANGED <<outbox, emitted, iteration>>
      BY <2>4, RestStep DEF streamVars
    <3>2. Told({"IterationStart"})
      BY <2>0, <3>1 DEF Story
    <3> QED BY <3>1, <3>2, SayNothing DEF Story, Told
  <2>5. CASE BlockStart \/ BlockDelta \/ BlockStop \/ ItemLost
    <3>1. pc = "stream" /\ outbox = <<>> /\ UNCHANGED <<pc, outcome, iteration, emitted>>
      BY <2>0, <2>5, BlockStartStep, BlockMoreStep DEF callVars
    <3>2. \/ outbox' = <<>>
          \/ \E e : outbox' = <<e>> /\ e.type \in ContentEvents /\ e.n = iteration
      <4>1. \A n, b, x : /\ TextEv("TextDelta", n, b, x).type = "TextDelta" /\ TextEv("TextDelta", n, b, x).n = n
                         /\ Ev("ToolUseStart", n, b).type = "ToolUseStart" /\ Ev("ToolUseStart", n, b).n = n
                         /\ Ev("ToolUseDelta", n, b).type = "ToolUseDelta" /\ Ev("ToolUseDelta", n, b).n = n
                         /\ Ev("ToolUseComplete", n, b).type = "ToolUseComplete" /\ Ev("ToolUseComplete", n, b).n = n
        BY DEF Ev, TextEv
      <4>2. CASE BlockStart
        BY <2>0, <3>1, <4>1, <4>2, BlockStartStep DEF ContentEvents
      <4>3. CASE BlockDelta \/ BlockStop \/ ItemLost
        BY <2>0, <3>1, <4>1, <4>3, BlockMoreStep DEF ContentEvents
      <4> QED BY <2>5, <4>2, <4>3
    <3>3. Told(ContentEvents \union {"IterationStart"}) /\ emitted # <<>> /\ LastSaid = LastOf(emitted)
      BY <2>0, <3>1 DEF Story, Told, Said, LastSaid
    <3>4. CASE outbox' = <<>>
      BY <3>1, <3>3, <3>4, SayNothing DEF Story, Told
    <3>5. ASSUME NEW e, outbox' = <<e>>, e.type \in ContentEvents, e.n = iteration PROVE Story'
      <4>1. P!Follows(LastOf(emitted), e)
        BY <3>3, <3>5 DEF Told, P!Follows, P!ContentTypes, ContentEvents
      <4>2. Links(outbox', emitted') /\ Said' /\ LastSaid' = e
        BY <3>1, <3>3, <3>5, <4>1, SayOne
      <4> QED BY <3>1, <3>5, <4>2 DEF Story, Told
    <3> QED BY <3>2, <3>4, <3>5
  <2>6. CASE EndOfResponse
    <3>1. /\ pc = "stream" /\ outbox = <<>> /\ pc' \in {"insertReply", "insertToolUse"}
          /\ outbox' = <<Ev("IterationComplete", iteration, 0)>> /\ UNCHANGED <<iteration, emitted>>
      BY <2>0, <2>6, EndStep
    <3>2. Told(ContentEvents \union {"IterationStart"}) /\ emitted # <<>> /\ LastSaid = LastOf(emitted)
      BY <2>0, <3>1 DEF Story, Told, Said, LastSaid
    <3> DEFINE e == Ev("IterationComplete", iteration, 0)
    <3>3. e.type = "IterationComplete" /\ e.n = iteration
      BY DEF Ev
    <3>4. P!Follows(LastOf(emitted), e)
      BY <3>2, <3>3 DEF Told, P!Follows, P!ContentTypes, ContentEvents
    <3>5. Links(outbox', emitted') /\ Said' /\ LastSaid' = e
      BY <3>1, <3>2, <3>4, SayOne
    <3> QED BY <3>1, <3>3, <3>5 DEF Story, Told
  <2>7. CASE InsertReply
    <3> DEFINE e == TextEv("Done", iteration, 0, TextOf(content))
    <3>1. /\ pc = "insertReply" /\ outbox = <<>> /\ pc' = "closing" /\ outbox' = <<e>>
          /\ UNCHANGED <<iteration, emitted>>
      BY <2>7, ReplyStep
    <3>2. Told({"IterationComplete"}) /\ emitted # <<>> /\ LastSaid = LastOf(emitted)
      BY <2>0, <3>1 DEF Story, Told, Said, LastSaid
    <3>3. e.type = "Done" /\ e.n = iteration
      BY DEF TextEv
    <3> HIDE DEF e
    <3>4. P!Follows(LastOf(emitted), e)
      BY <3>2, <3>3 DEF Told, P!Follows
    <3>5. Links(outbox', emitted') /\ Said' /\ LastSaid' = e
      BY <3>1, <3>2, <3>4, SayOne
    <3> QED BY <3>1, <3>3, <3>5 DEF Story, Terminal
  <2>8. CASE InsertToolUse
    <3> DEFINE e == Ev("ToolExecutionStart", iteration, Head(todo))
    <3>1. /\ pc = "insertToolUse" /\ outbox = <<>> /\ pc' = "tools" /\ outbox' = <<e>>
          /\ UNCHANGED <<iteration, emitted, todo>>
      BY <2>8, ToolUseStep DEF responseVars
    <3>2. Told({"IterationComplete"}) /\ emitted # <<>> /\ LastSaid = LastOf(emitted)
      BY <2>0, <3>1 DEF Story, Told, Said, LastSaid
    <3>3. e.type = "ToolExecutionStart" /\ e.n = iteration /\ e.b = Head(todo)
      BY DEF Ev
    <3> HIDE DEF e
    <3>4. P!Follows(LastOf(emitted), e)
      BY <3>2, <3>3 DEF Told, P!Follows
    <3>5. Links(outbox', emitted') /\ Said' /\ LastSaid' = e
      BY <3>1, <3>2, <3>4, SayOne
    <3> QED BY <3>1, <3>3, <3>5 DEF Story, Told
  <2>9. CASE RunTool
    <3> DEFINE e == Ev("ToolExecutionComplete", iteration, Head(todo))
               f == Ev("ToolExecutionStart", iteration, Head(todo'))
    <3>0. pc = "tools" /\ todo # <<>>
      BY <2>9 DEF RunTool, At, BaseInv, Settled
    <3>1. /\ outbox = <<>> /\ UNCHANGED <<iteration, emitted>>
          /\ \/ pc' = "insertResults" /\ outbox' = <<e>>
             \/ pc' = "tools" /\ outbox' = <<e, f>>
      BY <2>0, <2>9, <3>0, ToolStep
    <3>2. /\ Told({"ToolExecutionStart"}) /\ emitted # <<>> /\ LastSaid = LastOf(emitted)
          /\ LastSaid.b = Head(todo)
      BY <2>0, <3>0, <3>1 DEF Story, Told, Said, LastSaid
    <3>3. /\ e.type = "ToolExecutionComplete" /\ e.n = iteration /\ e.b = Head(todo)
          /\ f.type = "ToolExecutionStart" /\ f.n = iteration /\ f.b = Head(todo')
      BY DEF Ev
    <3> HIDE DEF e, f
    <3>4. P!Follows(LastOf(emitted), e) /\ P!Follows(e, f)
      BY <3>2, <3>3 DEF Told, P!Follows
    <3>5. CASE pc' = "insertResults" /\ outbox' = <<e>>
      <4>1. Links(outbox', emitted') /\ Said' /\ LastSaid' = e
        BY <3>1, <3>2, <3>4, <3>5, SayOne
      <4> QED BY <3>1, <3>3, <3>5, <4>1 DEF Story, Told
    <3>6. CASE pc' = "tools" /\ outbox' = <<e, f>>
      <4>1. Links(outbox', emitted') /\ Said' /\ LastSaid' = f
        BY <3>1, <3>2, <3>4, <3>6, SayTwo
      <4> QED BY <3>1, <3>3, <3>6, <4>1 DEF Story, Told
    <3> QED BY <3>1, <3>5, <3>6
  <2>10. CASE Send
    <3>1. /\ outbox # <<>> /\ outbox' = Tail(outbox) /\ emitted' = Append(emitted, Head(outbox))
          /\ UNCHANGED <<pc, outcome, iteration, todo>>
      BY <2>0, <2>10, StreamStep DEF callVars, responseVars
    <3>2. Links(outbox', emitted') /\ Said' /\ LastSaid' = LastSaid
      BY <2>0, <3>1, SendStory DEF Story
    <3> QED BY <2>0, <3>1, <3>2 DEF Story, Told
  <2>11. CASE Close
    <3>1. pc = "closing" /\ pc' = "ended" /\ outbox = <<>> /\ UNCHANGED <<outbox, emitted>>
      BY <2>11, RestStep DEF streamVars
    <3> QED BY <2>0, <3>1, SayNothing DEF Story
  <2>12. CASE StorageFault \/ GatewayFault
    <3> DEFINE e == Ev("Error", iteration, 0)
    <3>1. /\ pc \in Inserting \union {"load", "request"} /\ outbox = <<>> /\ pc' = "closing"
          /\ outbox' = <<e>> /\ UNCHANGED <<iteration, emitted>>
      BY <2>12, FaultStep
    <3>2. e.type = "Error" /\ e.n = iteration
      BY DEF Ev
    <3> HIDE DEF e
    <3>3. CASE pc \in {"insertUser", "load"}
      <4>1. emitted = <<>> /\ P!First(e)
        BY <3>2, <3>3 DEF BaseInv, Silent, P!First
      <4>2. Links(outbox', emitted') /\ Said' /\ LastSaid' = e
        BY <3>1, <4>1, SayOne
      <4> QED BY <3>1, <3>2, <4>2 DEF Story, Terminal
    <3>4. CASE pc \in {"request", "insertToolUse", "insertReply", "insertResults"}
      <4>1. /\ Told({"IterationStart", "IterationComplete", "ToolExecutionComplete"})
            /\ emitted # <<>> /\ LastSaid = LastOf(emitted)
        BY <2>0, <3>1, <3>4 DEF Story, Told, Said, LastSaid
      <4>2. P!Follows(LastOf(emitted), e)
        BY <3>2, <4>1 DEF Told, P!Follows
      <4>3. Links(outbox', emitted') /\ Said' /\ LastSaid' = e
        BY <3>1, <4>1, <4>2, SayOne
      <4> QED BY <3>1, <3>2, <4>3 DEF Story, Terminal
    <3> QED BY <3>1, <3>3, <3>4 DEF Inserting
  <2>13. CASE Die
    <3>1. pc' = "dead" /\ outbox' = <<>>
      BY <2>13, DieStep
    <3> QED BY <3>1 DEF Story, Links
  <2>14. CASE Reader \/ UNCHANGED vars
    <3>1. UNCHANGED <<callVars, responseVars, outbox, emitted>>
      BY <2>14, StreamStep DEF vars, streamVars
    <3> QED BY <2>0, <3>1 DEF Story, Told, Said, LastSaid, Links, callVars, responseVars, LastOf
  <2> QED BY <2>1, <2>2, <2>3, <2>4, <2>5, <2>6, <2>7, <2>8, <2>9, <2>10, <2>11, <2>12, <2>13, <2>14
          DEF Next, Task, Item, Fault
<1> QED BY <1>1, <1>2, BaseInvariant, PTL DEF Spec
\* A reader who has not gone away when the task ends has been told how: the last
\* event is Done or an Error, on whichever path the task ends.
THEOREM EndTold == Spec => []EndIsTold
<1>1. BaseInv /\ StoryInv => EndIsTold
  <2> SUFFICES ASSUME BaseInv, StoryInv, pc = "ended", outcome # "not_started", reader = "open"
               PROVE  emitted # <<>> /\ Terminal(emitted[Len(emitted)])
    BY DEF EndIsTold
  <2>1. Said /\ Terminal(LastSaid) /\ outbox = <<>>
    BY DEF StoryInv, Story, BaseInv, Silent
  <2> QED BY <2>1 DEF Said, LastSaid, LastOf
<1> QED BY <1>1, BaseInvariant, StoryInvariant, PTL

\* What is put on the stream follows the protocol: the stream implements SseProtocol.
THEOREM Protocol == Spec => FollowsProtocol
<1>1. Init => P!Init
  BY DEF Init, P!Init
<1>2. BaseInv /\ StoryInv /\ [Next]_vars => [P!Next]_emitted
  <2> SUFFICES ASSUME BaseInv, StoryInv, [Next]_vars, emitted' # emitted PROVE P!Next
    OBVIOUS
  <2>1. Send
    <3>1. ~ Reader
      BY StreamStep
    <3> QED BY <3>1, FaultStep, DieStep DEF Next, Task, Item, Fault, ChatStream, InsertUser,
               LoadHistory, Request, BlockStart, BlockDelta, BlockStop, ItemLost, NextItem, EndOfResponse,
               InsertReply, InsertToolUse, RunTool, InsertResults, Close, streamVars, vars
  <2> DEFINE e == outbox[1]
  <2>2. /\ reader # "dropped" /\ outbox # <<>> /\ emitted' = Append(emitted, Head(outbox))
        /\ outbox \in Seq(Events) /\ emitted \in Seq(Events) /\ reader \in {"open", "dropped"}
    BY <2>1, StreamStep DEF BaseInv, Types
  <2>3. Links(outbox, emitted)
    BY <2>2 DEF StoryInv, Story
  <2>4. IF emitted = <<>> THEN P!First(e) ELSE P!Follows(emitted[Len(emitted)], e)
    BY <2>2, <2>3 DEF Links, LastOf
  <2>5. emitted' = Append(emitted, e) /\ e \in Events
    BY <2>2
  <2> HIDE DEF e, Events
  <2>6. /\ Len(emitted') = Len(emitted) + 1 /\ emitted' \in Seq(Events)
        /\ emitted'[Len(emitted')] = e /\ (emitted = <<>> => emitted'[1] = e)
        /\ \A i \in 1..Len(emitted) : emitted'[i] = emitted[i]
    BY <2>2, <2>5, AppendProperties
  <2>7. SubSeq(emitted', 1, Len(emitted)) = emitted
    BY <2>2, <2>6
  <2> QED BY <2>4, <2>6, <2>7 DEF P!Next, P!Extends
<1> QED BY <1>1, <1>2, BaseInvariant, StoryInvariant, PTL DEF Spec, FollowsProtocol, P!Spec
-----------------------------------------------------------------------------
(* The turn that is stored. *)

Acted == IF ran = <<>> THEN 0 ELSE ran[Len(ran)][1]
Status == IF outcome = "none" THEN "open" ELSE IF outcome = "ok" THEN "ok" ELSE "failed"

\* The number of answers among the messages of a round.
LEMMA AnswersOf ==
  ASSUME NEW n \in Nat \ {0}
  PROVE  (2 * n) \div 2 = n /\ (2 * n - 1) \div 2 = n - 1
OBVIOUS

\* What is stored next is what the turn allows next.
LEMMA NextKind ==
  ASSUME BaseInv, pc \in Inserting, Store
  PROVE  /\ wrote' = Append(wrote, Kind[pc]) /\ Kind[pc] \in T!Allowed(wrote, Acted)
         /\ Acted' = Acted /\ outcome = "none" /\ (Kind[pc] = "reply" <=> pc = "insertReply")
<1> USE DEF BaseInv
<1>1. /\ wrote' = Append(wrote, Kind[pc]) /\ UNCHANGED ran
      /\ pc = "insertUser" => Kind[pc] = "user"
      /\ pc = "insertToolUse" => Kind[pc] = "toolUse"
      /\ pc = "insertResults" => Kind[pc] = "toolResult"
      /\ pc = "insertReply" => Kind[pc] = "reply"
  BY StoreStep
<1>2. outcome = "none"
  BY DEF Progress, Over, Inserting
<1>3. CASE pc = "insertUser"
  <2>1. wrote = <<>>
    BY <1>3 DEF Progress
  <2> QED BY <1>1, <1>2, <1>3, <2>1 DEF T!Allowed, Acted
<1>4. CASE pc \in {"insertToolUse", "insertReply"}
  <2>1. /\ iteration \in Nat \ {0} /\ iteration =< MaxIterations /\ Len(wrote) = 2 * iteration - 1
        /\ LastOf(wrote) \in {"user", "toolResult"} /\ wrote \in Seq(Kinds)
    BY <1>4 DEF Progress, Types
  <2>2. wrote # <<>> /\ Len(wrote) \div 2 = iteration - 1 /\ iteration - 1 < MaxIterations
    BY <2>1, AnswersOf
  <2>3. {"toolUse", "reply"} \subseteq T!Successors[wrote[Len(wrote)]]
    BY <2>1 DEF T!Successors, LastOf
  <2>4. Kind[pc] \in {"toolUse", "reply"}
    BY <1>1, <1>4
  <2> QED BY <1>1, <1>2, <1>4, <2>2, <2>3, <2>4 DEF T!Allowed, T!Answers, Acted
<1>5. CASE pc = "insertResults"
  <2>1. /\ iteration \in Nat \ {0} /\ Len(wrote) = 2 * iteration
        /\ LastOf(wrote) = "toolUse" /\ ran # <<>> /\ LastOf(ran)[1] = iteration /\ wrote \in Seq(Kinds)
    BY <1>5 DEF Progress, Types
  <2>2. wrote # <<>> /\ Len(wrote) \div 2 = iteration
    BY <2>1, AnswersOf
  <2>3. "toolResult" \in T!Successors[wrote[Len(wrote)]]
    BY <2>1 DEF T!Successors, LastOf
  <2> QED BY <1>1, <1>2, <1>5, <2>1, <2>2, <2>3 DEF T!Allowed, T!Answers, Acted, LastOf
<1> QED BY <1>3, <1>4, <1>5 DEF Inserting

\* While its tools run, the turn has asked for them last.
LEMMA NextRun ==
  ASSUME BaseInv, pc = "tools", ran' = Append(ran, <<iteration, Head(todo)>>)
  PROVE  /\ wrote # <<>> /\ wrote[Len(wrote)] = "toolUse" /\ Acted' = T!Answers(wrote)
         /\ outcome = "none"
<1> USE DEF BaseInv
<1>1. /\ iteration \in Nat \ {0} /\ Len(wrote) = 2 * iteration /\ LastOf(wrote) = "toolUse"
      /\ wrote \in Seq(Kinds) /\ outcome = "none" /\ ran \in Seq(Nat \X Nat)
  BY DEF Progress, Types, Over
<1>2. wrote # <<>> /\ Len(wrote) \div 2 = iteration
  BY <1>1, AnswersOf
<1>3. Head(todo) \in Nat
  BY SMTT(30) DEF Settled, Types
<1> DEFINE r == <<iteration, Head(todo)>>
<1>4. r \in Nat \X Nat /\ r[1] = iteration
  BY <1>1, <1>3
<1> HIDE DEF r
<1>5. ran' # <<>> /\ ran'[Len(ran')] = r
  <2>1. ran' = Append(ran, r)
    BY DEF r
  <2> QED BY <1>1, <1>4, <2>1, AppendProperties
<1> QED BY <1>1, <1>2, <1>4, <1>5 DEF Acted, T!Answers, LastOf

\* What a streamed chat does to its thread is a turn: the chat implements Turn.
THEOREM TurnRefined == Spec => IsTurn
<1>1. Init => T!Init
  BY DEF Init, T!Init
<1>2. BaseInv /\ [Next]_vars => [T!Next]_(T!vars)
  <2> SUFFICES ASSUME BaseInv, [Next]_vars PROVE T!Next \/ UNCHANGED T!vars
    OBVIOUS
  <2>1. ASSUME pc \in Inserting, Store, Status' = IF Kind[pc] = "reply" THEN "ok" ELSE "open"
        PROVE  T!Next
    <3>1. /\ wrote' = Append(wrote, Kind[pc]) /\ Kind[pc] \in T!Allowed(wrote, Acted)
          /\ Acted' = Acted /\ outcome = "none"
      BY <2>1, NextKind
    <3> QED BY <2>1, <3>1 DEF T!Next, T!Add, Acted, Status
  <2>2. ASSUME pc \in Inserting, Store, Status' = "failed" PROVE T!Next
    <3>1. /\ wrote' = Append(wrote, Kind[pc]) /\ Kind[pc] \in T!Allowed(wrote, Acted)
          /\ Acted' = Acted /\ outcome = "none"
      BY <2>2, NextKind
    <3> QED BY <2>2, <3>1 DEF T!Next, T!Fail, Acted, Status
  <2>3. ASSUME outcome = "none", Status' = "failed", UNCHANGED <<wrote, ran>> PROVE T!Next
    BY <2>3 DEF T!Next, T!Fail, Acted, Status
  <2>4. ASSUME pc = "tools", ran' = Append(ran, <<iteration, Head(todo)>>), UNCHANGED wrote,
               Status' \in {"open", "failed"}
        PROVE  T!Next
    <3>1. /\ wrote # <<>> /\ wrote[Len(wrote)] = "toolUse" /\ Acted' = T!Answers(wrote)
          /\ outcome = "none"
      BY <2>4, NextRun
    <3>2. CASE Status' = "open"
      BY <2>4, <3>1, <3>2 DEF T!Next, T!Act, Acted, Status
    <3>3. CASE Status' = "failed"
      BY <2>4, <3>1, <3>3 DEF T!Next, T!Fail, Acted, Status
    <3> QED BY <2>4, <3>2, <3>3
  <2>5. ASSUME UNCHANGED <<wrote, ran, outcome>> PROVE UNCHANGED T!vars
    BY <2>5 DEF T!vars
  <2>6. pc \notin Over => outcome = "none"
    BY DEF BaseInv, Progress
  <2>7. CASE ChatStream
    BY <2>3, <2>5, <2>6, <2>7, RestStep DEF effectVars, Status, Over
  <2>8. CASE InsertUser
    BY <2>1, <2>6, <2>8, RestStep, NextKind DEF Inserting, Status, Over
  <2>9. CASE LoadHistory
    BY <2>3, <2>5, <2>6, <2>9, RestStep, RoundStep DEF effectVars, Status, Over
  <2>10. CASE InsertReply
    BY <2>1, <2>10, ReplyStep, NextKind DEF Inserting, Status
  <2>11. CASE InsertToolUse
    BY <2>1, <2>6, <2>11, ToolUseStep, NextKind DEF Inserting, Status, Over
  <2>12. CASE RunTool
    <3>1. pc = "tools" /\ todo # <<>>
      BY <2>12 DEF RunTool, At, BaseInv, Settled
    <3>2. UNCHANGED <<wrote, outcome>> /\ ran' = Append(ran, <<iteration, Head(todo)>>)
      BY <2>12 DEF RunTool
    <3> QED BY <2>4, <2>6, <3>1, <3>2 DEF Status, Over
  <2>13. CASE InsertResults
    <3>1. pc = "insertResults" /\ pc \in Inserting /\ Store /\ outcome = "none"
      BY <2>6, <2>13, RestStep DEF Inserting, Over
    <3>2. outcome' = "none" \/ outcome' = "max_iterations"
      BY <2>13, <3>1, RestStep, RoundStep
    <3> QED BY <2>1, <2>2, <3>1, <3>2, NextKind DEF Status
  <2>14. CASE StorageFault \/ GatewayFault
    BY <2>2, <2>3, <2>6, <2>14, FaultStep DEF effectVars, Status, Over, Inserting
  <2>15. CASE Die
    <3>1. CASE outcome # "none"
      <4>1. pc \in Over /\ pc \notin Inserting /\ pc # "tools"
        BY <2>6, <3>1 DEF Over, Inserting
      <4> QED BY <2>5, <2>15, <3>1, <4>1, DieStep DEF effectVars
    <3>2. CASE outcome = "none"
      <4>1. Status' = "failed"
        BY <2>15, <3>2, DieStep DEF Status
      <4> QED BY <2>2, <2>3, <2>4, <2>15, <3>2, <4>1, DieStep DEF effectVars
    <3> QED BY <3>1, <3>2
  <2>16. CASE BlockStart \/ BlockDelta \/ BlockStop \/ ItemLost
    BY <2>5, <2>16, BlockStartStep, BlockMoreStep DEF BaseInv, callVars, effectVars
  <2>17. CASE Request \/ EndOfResponse \/ Send \/ Close \/ Reader \/ UNCHANGED vars
    BY <2>5, <2>17, RestStep, EndStep, StreamStep DEF BaseInv, vars, callVars, effectVars
  <2> QED BY <2>7, <2>8, <2>9, <2>10, <2>11, <2>12, <2>13, <2>14, <2>15, <2>16, <2>17
          DEF Next, Task, Item, Fault
<1> QED BY <1>1, <1>2, BaseInvariant, PTL DEF Spec, IsTurn, T!Spec
-----------------------------------------------------------------------------
(* Tools are announced before they are run. *)

\* What was announced, or was about to be, still is when an event is sent.
LEMMA SendAnnounced ==
  ASSUME Types, outbox # <<>>, outbox' = Tail(outbox), emitted' = Append(emitted, Head(outbox)),
         NEW n, NEW b
  PROVE  /\ Announced(emitted, n, b) => Announced(emitted', n, b)
         /\ Announced(outbox, n, b) => Announced(emitted', n, b) \/ Announced(outbox', n, b)
<1>1. /\ outbox \in Seq(Events) /\ emitted \in Seq(Events) /\ outbox[1] \in Events
      /\ emitted' = Append(emitted, outbox[1])
  BY DEF Types
<1> HIDE DEF Events
<1>2. /\ DOMAIN emitted = 1..Len(emitted) /\ DOMAIN emitted' = 1..(Len(emitted) + 1) /\ Len(emitted) \in Nat
      /\ \A j \in DOMAIN emitted : emitted'[j] = emitted[j]
      /\ emitted'[Len(emitted) + 1] = outbox[1]
  BY <1>1
<1>3. \A j \in DOMAIN outbox : j # 1 => j - 1 \in DOMAIN outbox' /\ outbox'[j - 1] = outbox[j]
  BY <1>1
<1>4. ASSUME Announced(emitted, n, b) PROVE Announced(emitted', n, b)
  <2>1. PICK j \in DOMAIN emitted : emitted[j].type = "ToolUseStart" /\ emitted[j].n = n /\ emitted[j].b = b
    BY <1>4 DEF Announced
  <2>2. j \in DOMAIN emitted' /\ emitted'[j] = emitted[j]
    BY <1>2, <2>1
  <2> QED BY <2>1, <2>2 DEF Announced
<1>5. ASSUME Announced(outbox, n, b) PROVE Announced(emitted', n, b) \/ Announced(outbox', n, b)
  <2>1. PICK j \in DOMAIN outbox : outbox[j].type = "ToolUseStart" /\ outbox[j].n = n /\ outbox[j].b = b
    BY <1>5 DEF Announced
  <2>2. CASE j = 1
    <3>1. Len(emitted) + 1 \in DOMAIN emitted' /\ emitted'[Len(emitted) + 1] = outbox[j]
      BY <1>2, <2>2
    <3> QED BY <2>1, <3>1 DEF Announced
  <2>3. CASE j # 1
    <3>1. j - 1 \in DOMAIN outbox' /\ outbox'[j - 1] = outbox[j]
      BY <1>3, <2>1, <2>3
    <3> QED BY <2>1, <3>1 DEF Announced
  <2> QED BY <2>2, <2>3
<1> QED BY <1>4, <1>5

\* One event more, of a tool that has been announced if it starts to run.
LEMMA SendKnown ==
  ASSUME Types, outbox # <<>>, emitted' = Append(emitted, Head(outbox)), ToolsAreAnnounced,
         outbox[1].type = "ToolExecutionStart" => Announced(emitted, outbox[1].n, outbox[1].b)
  PROVE  ToolsAreAnnounced'
<1>1. /\ outbox \in Seq(Events) /\ emitted \in Seq(Events) /\ outbox[1] \in Events
      /\ emitted' = Append(emitted, outbox[1])
  BY DEF Types
<1> HIDE DEF Events
<1>2. /\ DOMAIN emitted = 1..Len(emitted) /\ DOMAIN emitted' = 1..(Len(emitted) + 1) /\ Len(emitted) \in Nat
      /\ \A j \in DOMAIN emitted : j \in DOMAIN emitted' /\ emitted'[j] = emitted[j]
      /\ emitted'[Len(emitted) + 1] = outbox[1]
      /\ \A i \in DOMAIN emitted' : i \in DOMAIN emitted \/ i = Len(emitted) + 1
  BY <1>1
<1> SUFFICES ASSUME NEW i \in DOMAIN emitted', emitted'[i].type = "ToolExecutionStart"
             PROVE  \E j \in DOMAIN emitted' : /\ emitted'[j].type = "ToolUseStart" /\ j < i
                                               /\ emitted'[j].n = emitted'[i].n
                                               /\ emitted'[j].b = emitted'[i].b
  BY DEF ToolsAreAnnounced, Emitted
<1>3. CASE i \in DOMAIN emitted
  <2>1. emitted'[i] = emitted[i]
    BY <1>2, <1>3
  <2>2. PICK j \in DOMAIN emitted : /\ emitted[j].type = "ToolUseStart" /\ j < i
                                    /\ emitted[j].n = emitted[i].n /\ emitted[j].b = emitted[i].b
    BY <1>3, <2>1 DEF ToolsAreAnnounced, Emitted
  <2>3. j \in DOMAIN emitted' /\ emitted'[j] = emitted[j]
    BY <1>2, <2>2
  <2> QED BY <2>1, <2>2, <2>3
<1>4. CASE i = Len(emitted) + 1
  <2>1. emitted'[i] = outbox[1]
    BY <1>2, <1>4
  <2>2. PICK j \in DOMAIN emitted : /\ emitted[j].type = "ToolUseStart"
                                    /\ emitted[j].n = outbox[1].n /\ emitted[j].b = outbox[1].b
    BY <2>1 DEF Announced
  <2>3. j \in DOMAIN emitted' /\ emitted'[j] = emitted[j] /\ j < i
    BY <1>2, <1>4, <2>2
  <2> QED BY <2>1, <2>2, <2>3
<1> QED BY <1>2, <1>3, <1>4

\* Each tool block of the response is announced while a reader is there, and no tool
\* is run before that has been sent.
THEOREM AnnounceInvariant == Spec => []AnnounceInv
<1>1. Init => AnnounceInv
  BY DEF Init, AnnounceInv, ToolsAreAnnounced, Emitted, Announcing
<1>2. BaseInv /\ AnnounceInv /\ [Next]_vars => AnnounceInv'
  <2> SUFFICES ASSUME BaseInv, AnnounceInv, [Next]_vars PROVE AnnounceInv'
    OBVIOUS
  <2>0. /\ Types /\ \A n, b : ~ Announced(<<>>, n, b)
    BY DEF BaseInv, Announced
  <2>1. CASE Send
    <3>1. CASE reader = "dropped" /\ UNCHANGED <<emitted, reader>>
      BY <3>1 DEF AnnounceInv, ToolsAreAnnounced, Emitted
    <3>2. CASE emitted' = Append(emitted, Head(outbox)) /\ reader = "open"
      <4>1. /\ outbox # <<>> /\ outbox' = Tail(outbox) /\ UNCHANGED <<pc, iteration, blocks, todo, reader>>
            /\ Head(outbox) = outbox[1] /\ 1 \in DOMAIN outbox
            /\ \A i \in DOMAIN outbox' : i + 1 \in DOMAIN outbox /\ outbox'[i] = outbox[i + 1]
        BY <2>0, <2>1, StreamStep DEF callVars, responseVars, Types
      <4>2. Announcing
        BY <3>2 DEF AnnounceInv
      <4>3. ToolsAreAnnounced'
        BY <2>0, <3>2, <4>1, <4>2, SendKnown DEF AnnounceInv, Announcing
      <4>4. \A n, b : /\ Announced(emitted, n, b) => Announced(emitted', n, b)
                      /\ Announced(outbox, n, b) => Announced(emitted', n, b) \/ Announced(outbox', n, b)
        BY <2>0, <3>2, <4>1, SendAnnounced
      <4>5. Announcing'
        BY <4>1, <4>2, <4>4 DEF Announcing
      <4> QED BY <4>3, <4>5 DEF AnnounceInv
    <3> QED BY <2>0, <2>1, <3>1, <3>2, StreamStep DEF Types
  <2>2. ASSUME UNCHANGED emitted, reader' = "open" => reader = "open" /\ Announcing' PROVE AnnounceInv'
    BY <2>2 DEF AnnounceInv, ToolsAreAnnounced, Emitted
  <2>3. CASE Reader
    <3>1. UNCHANGED <<pc, iteration, blocks, todo, outbox, emitted>> /\ reader = "open"
      BY <2>3, StreamStep DEF callVars, responseVars
    <3>2. reader' = "open" => Announcing'
      BY <3>1 DEF AnnounceInv, Announcing
    <3> QED BY <2>2, <3>1, <3>2
  <2>4. CASE /\ UNCHANGED <<emitted, reader>> /\ pc' \notin {"stream", "insertToolUse", "tools"}
             /\ \A i \in DOMAIN outbox' : outbox'[i].type # "ToolExecutionStart"
    <3>1. Announcing'
      BY <2>4 DEF Announcing
    <3> QED BY <2>2, <2>4, <3>1
  <2>5. CASE ChatStream \/ InsertUser \/ Close
    BY <2>2, <2>4, <2>5, RestStep DEF streamVars, BaseInv, Silent
  <2>6. CASE LoadHistory \/ InsertResults
    <3>1. UNCHANGED <<emitted, reader>> /\ pc' \in {"closing", "request"}
      BY <2>6, RestStep, RoundStep
    <3>2. \A i \in DOMAIN outbox' : outbox'[i].type # "ToolExecutionStart"
      <4>1. \A n : Ev("Error", n, 0).type = "Error" /\ Ev("IterationStart", n, 0).type = "IterationStart"
        BY DEF Ev
      <4> QED BY <2>6, <4>1, RestStep, RoundStep
    <3> QED BY <2>4, <3>1, <3>2
  <2>7. CASE Request
    <3>1. outbox' = <<>> /\ blocks' = <<>> /\ pc' = "stream" /\ UNCHANGED <<emitted, reader>>
      BY <2>7, RestStep DEF streamVars
    <3> QED BY <2>2, <3>1 DEF Announcing
  <2>8. CASE BlockStart \/ BlockDelta \/ BlockStop \/ ItemLost
    <3>1. pc = "stream" /\ outbox = <<>> /\ UNCHANGED <<pc, iteration, todo, reader, emitted>>
      BY <2>0, <2>8, BlockStartStep, BlockMoreStep DEF callVars
    <3>2. \A i \in DOMAIN outbox' : outbox'[i].type # "ToolExecutionStart"
      <4>1. \A n, b, x : /\ TextEv("TextDelta", n, b, x).type = "TextDelta"
                         /\ Ev("ToolUseStart", n, b).type = "ToolUseStart"
                         /\ Ev("ToolUseDelta", n, b).type = "ToolUseDelta"
                         /\ Ev("ToolUseComplete", n, b).type = "ToolUseComplete"
        BY DEF Ev, TextEv
      <4>2. CASE BlockStart
        BY <2>0, <3>1, <4>1, <4>2, BlockStartStep
      <4>3. CASE BlockDelta \/ BlockStop \/ ItemLost
        BY <2>0, <3>1, <4>1, <4>3, BlockMoreStep
      <4> QED BY <2>8, <4>2, <4>3
    <3>3. ASSUME reader = "open", NEW b \in DOMAIN blocks', blocks'[b].kind = "tool"
          PROVE  Announced(emitted', iteration', b) \/ Announced(outbox', iteration', b)
      <4>1. b \in DOMAIN blocks /\ blocks[b].kind = "tool" => Announced(emitted, iteration, b)
        BY <2>0, <3>1, <3>3 DEF AnnounceInv, Announcing
      <4>2. CASE BlockStart
        <5> DEFINE e == Ev("ToolUseStart", iteration, Len(blocks) + 1)
        <5>1. e.type = "ToolUseStart" /\ e.n = iteration /\ e.b = Len(blocks) + 1
          BY DEF Ev
        <5> HIDE DEF e
        <5>2. PICK r : /\ blocks' = Append(blocks, r) /\ r.kind \in {"text", "tool"}
                       /\ r.kind = "tool" => outbox' = <<e>>
          BY <2>0, <4>2, BlockStartStep DEF e
        <5>3. /\ blocks \in Seq(Blocks) /\ DOMAIN blocks' = 1..(Len(blocks) + 1)
              /\ \A k \in DOMAIN blocks : blocks'[k] = blocks[k]
              /\ blocks'[Len(blocks) + 1] = r /\ DOMAIN blocks = 1..Len(blocks) /\ Len(blocks) \in Nat
          BY <2>0, <5>2 DEF Types
        <5>4. b \in DOMAIN blocks \/ b = Len(blocks) + 1
          BY <3>3, <5>3
        <5>5. CASE b \in DOMAIN blocks
          BY <3>1, <3>3, <4>1, <5>3, <5>5
        <5>6. CASE b = Len(blocks) + 1
          <6>1. outbox' = <<e>>
            BY <3>3, <5>2, <5>3, <5>6
          <6>2. 1 \in DOMAIN <<e>> /\ <<e>>[1] = e
            OBVIOUS
          <6> QED BY <3>1, <5>1, <5>6, <6>1, <6>2 DEF Announced
        <5> QED BY <5>4, <5>5, <5>6
      <4>3. CASE BlockDelta \/ BlockStop \/ ItemLost
        <5>1. DOMAIN blocks' = DOMAIN blocks /\ blocks'[b].kind = blocks[b].kind
          <6>1. /\ blocks \in Seq(Blocks) /\ \A c \in DOMAIN blocks : blocks[c] \in Blocks
            BY <2>0 DEF Types
          <6>2. \/ UNCHANGED blocks
                \/ \E c \in DOMAIN blocks : \/ blocks' = [blocks EXCEPT ![c].text = @ \o Fragment]
                                            \/ blocks' = [blocks EXCEPT ![c].complete = TRUE]
            BY <2>0, <4>3, BlockMoreStep
          <6> QED BY <3>3, <6>1, <6>2 DEF Blocks
        <5> QED BY <3>1, <3>3, <4>1, <5>1
      <4> QED BY <2>8, <4>2, <4>3
    <3>4. reader' = "open" => Announcing'
      BY <3>1, <3>2, <3>3 DEF Announcing
    <3> QED BY <2>2, <3>1, <3>4
  <2>9. CASE EndOfResponse
    <3> DEFINE e == Ev("IterationComplete", iteration, 0)
    <3>1. /\ pc = "stream" /\ outbox = <<>> /\ UNCHANGED <<iteration, reader, emitted>> /\ outbox' = <<e>>
          /\ todo' \in Seq(DOMAIN blocks) /\ \A k \in DOMAIN todo' : blocks[todo'[k]].kind = "tool"
          /\ pc' \in {"insertReply", "insertToolUse"}
      BY <2>0, <2>9, EndStep
    <3>2. e.type = "IterationComplete"
      BY DEF Ev
    <3> HIDE DEF e
    <3>3. \A i \in DOMAIN outbox' : outbox'[i].type # "ToolExecutionStart"
      BY <3>1, <3>2
    <3>4. \A k \in DOMAIN todo' : todo'[k] \in DOMAIN blocks
      BY <3>1
    <3>5. reader = "open" => \A k \in DOMAIN todo' : Announced(emitted, iteration, todo'[k])
      BY <2>0, <3>1, <3>4 DEF AnnounceInv, Announcing
    <3>6. reader' = "open" => Announcing'
      BY <3>1, <3>3, <3>5 DEF Announcing
    <3> QED BY <2>2, <3>1, <3>6
  <2>10. CASE InsertReply
    <3>1. TextEv("Done", iteration, 0, TextOf(content)).type = "Done"
      BY DEF TextEv
    <3> QED BY <2>4, <2>10, <3>1, ReplyStep
  <2>11. CASE InsertToolUse
    <3> DEFINE e == Ev("ToolExecutionStart", iteration, Head(todo))
    <3>1. /\ pc = "insertToolUse" /\ outbox = <<>> /\ pc' = "tools" /\ outbox' = <<e>>
          /\ UNCHANGED <<iteration, todo, emitted, reader>>
      BY <2>11, ToolUseStep DEF responseVars
    <3>2. e.n = iteration /\ e.b = Head(todo)
      BY DEF Ev
    <3> HIDE DEF e
    <3>3. 1 \in DOMAIN todo /\ Head(todo) = todo[1]
      BY <3>1 DEF BaseInv, Settled, Types
    <3>4. reader = "open" => \A k \in DOMAIN todo : Announced(emitted, iteration, todo[k])
      BY <2>0, <3>1 DEF AnnounceInv, Announcing
    <3>5. reader = "open" => \A x \in {e} : x.type = "ToolExecutionStart" => Announced(emitted, x.n, x.b)
      BY <3>2, <3>3, <3>4
    <3>6. reader' = "open" => Announcing'
      BY <3>1, <3>4, <3>5 DEF Announcing
    <3> QED BY <2>2, <3>1, <3>6
  <2>12. CASE RunTool
    <3> DEFINE e == Ev("ToolExecutionComplete", iteration, Head(todo))
               f == Ev("ToolExecutionStart", iteration, Head(todo'))
    <3>0. pc = "tools" /\ todo # <<>> /\ todo \in Seq(Nat)
      BY <2>12 DEF RunTool, At, BaseInv, Settled, Types
    <3>1. /\ outbox = <<>> /\ UNCHANGED <<iteration, emitted, reader>> /\ todo' = Tail(todo)
          /\ \/ pc' = "insertResults" /\ outbox' = <<e>>
             \/ pc' = "tools" /\ outbox' = <<e, f>> /\ todo' # <<>>
      BY <2>0, <2>12, <3>0, ToolStep
    <3>2. e.type = "ToolExecutionComplete" /\ f.n = iteration /\ f.b = Head(todo')
      BY DEF Ev
    <3> HIDE DEF e, f
    <3>3. /\ \A k \in DOMAIN todo' : k + 1 \in DOMAIN todo /\ todo'[k] = todo[k + 1]
          /\ todo' # <<>> => 1 \in DOMAIN todo' /\ Head(todo') = todo'[1]
      BY <3>0, <3>1
    <3>4. reader = "open" => \A k \in DOMAIN todo' : Announced(emitted, iteration, todo'[k])
      <4>1. reader = "open" => \A k \in DOMAIN todo : Announced(emitted, iteration, todo[k])
        BY <2>0, <3>0, <3>1 DEF AnnounceInv, Announcing
      <4> QED BY <3>3, <4>1
    <3>5. reader = "open" => \A i \in DOMAIN outbox' :
            outbox'[i].type = "ToolExecutionStart" => Announced(emitted, outbox'[i].n, outbox'[i].b)
      <4>1. CASE outbox' = <<e>>
        BY <3>2, <4>1
      <4>2. CASE outbox' = <<e, f>> /\ todo' # <<>>
        <5>1. reader = "open" => Announced(emitted, f.n, f.b)
          BY <3>2, <3>3, <3>4, <4>2
        <5> QED BY <3>2, <4>2, <5>1
      <4> QED BY <3>1, <4>1, <4>2
    <3>6. reader' = "open" => Announcing'
      BY <3>1, <3>4, <3>5 DEF Announcing
    <3> QED BY <2>2, <3>1, <3>6
  <2>13. CASE StorageFault \/ GatewayFault
    <3>1. Ev("Error", iteration, 0).type = "Error"
      BY DEF Ev
    <3> QED BY <2>4, <2>13, <3>1, FaultStep
  <2>14. CASE Die
    BY <2>4, <2>14, DieStep
  <2>15. CASE UNCHANGED vars
    <3>1. UNCHANGED <<pc, iteration, blocks, todo, outbox, emitted, reader>>
      BY <2>15 DEF vars, callVars, responseVars, streamVars
    <3>2. reader' = "open" => Announcing'
      BY <3>1 DEF AnnounceInv, Announcing
    <3> QED BY <2>2, <3>1, <3>2
  <2> QED BY <2>1, <2>3, <2>5, <2>6, <2>7, <2>8, <2>9, <2>10, <2>11, <2>12, <2>13, <2>14, <2>15
          DEF Next, Task, Item, Fault
<1> QED BY <1>1, <1>2, BaseInvariant, PTL DEF Spec

\* A reader is told of a run of a tool only after it was told that the response uses
\* the tool.
THEOREM ToolsAnnounced == Spec => []ToolsAreAnnounced
<1>1. AnnounceInv => ToolsAreAnnounced
  BY DEF AnnounceInv
<1> QED BY <1>1, AnnounceInvariant, PTL
-----------------------------------------------------------------------------
(* Done holds what the reader was shown. *)

\* What is shown when an event is added at the end, or taken from the front.
LEMMA ShownSteps ==
  ASSUME NEW s \in Seq(Events), NEW e \in Events, NEW n
  PROVE  /\ ShownIn(Append(s, e), n) = ShownIn(s, n) \union Shown(e, n)
         /\ s # <<>> => ShownIn(s, n) = Shown(Head(s), n) \union ShownIn(Tail(s), n)
<1> HIDE DEF Events
<1>1. ShownIn(Append(s, e), n) = ShownIn(s, n) \union Shown(e, n)
  <2> DEFINE a == Append(s, e)
  <2>1. /\ DOMAIN a = DOMAIN s \union {Len(s) + 1} /\ a[Len(s) + 1] = e
        /\ \A j \in DOMAIN s : a[j] = s[j]
    OBVIOUS
  <2> HIDE DEF a
  <2>2. ShownIn(a, n) = ShownIn(s, n) \union Shown(e, n)
    BY <2>1 DEF ShownIn
  <2> QED BY <2>2 DEF a
<1>2. ASSUME s # <<>> PROVE ShownIn(s, n) = Shown(Head(s), n) \union ShownIn(Tail(s), n)
  <2> DEFINE r == Tail(s)
  <2>1. /\ 1 \in DOMAIN s /\ Head(s) = s[1]
        /\ \A j \in DOMAIN s : j = 1 \/ (j - 1 \in DOMAIN r /\ r[j - 1] = s[j])
        /\ \A j \in DOMAIN r : j + 1 \in DOMAIN s /\ r[j] = s[j + 1]
    BY <1>2
  <2> HIDE DEF r
  <2>2. ASSUME NEW x \in ShownIn(s, n) PROVE x \in Shown(Head(s), n) \union ShownIn(r, n)
    <3>1. PICK j \in DOMAIN s : x \in Shown(s[j], n)
      BY DEF ShownIn
    <3>2. j = 1 \/ (j - 1 \in DOMAIN r /\ r[j - 1] = s[j])
      BY <2>1
    <3> QED BY <2>1, <3>1, <3>2 DEF ShownIn
  <2>3. ASSUME NEW x \in ShownIn(r, n) PROVE x \in ShownIn(s, n)
    <3>1. PICK j \in DOMAIN r : x \in Shown(r[j], n)
      BY DEF ShownIn
    <3>2. j + 1 \in DOMAIN s /\ r[j] = s[j + 1]
      BY <2>1
    <3> QED BY <3>1, <3>2 DEF ShownIn
  <2>4. ASSUME NEW x \in Shown(Head(s), n) PROVE x \in ShownIn(s, n)
    BY <2>1 DEF ShownIn
  <2> QED BY <2>2, <2>3, <2>4 DEF r
<1> QED BY <1>1, <1>2

\* What a few events show.
LEMMA ShownFew ==
  /\ \A n : ShownIn(<<>>, n) = {}
  /\ \A e, n : ShownIn(<<e>>, n) = Shown(e, n)
  /\ \A s, n : (\A j \in DOMAIN s : s[j].type # "TextDelta") => ShownIn(s, n) = {}
<1>1. ASSUME NEW e, NEW n PROVE ShownIn(<<e>>, n) = Shown(e, n)
  <2>1. DOMAIN <<e>> = {1} /\ <<e>>[1] = e
    OBVIOUS
  <2> QED BY <2>1 DEF ShownIn
<1>2. ASSUME NEW s, NEW n, \A j \in DOMAIN s : s[j].type # "TextDelta" PROVE ShownIn(s, n) = {}
  BY <1>2 DEF ShownIn, Shown
<1>3. \A n : ShownIn(<<>>, n) = {}
  BY DEF ShownIn
<1> QED BY <1>1, <1>2, <1>3

\* Nothing is shown of a round that has not begun.
LEMMA ShownLater ==
  ASSUME NEW s, NEW m \in Nat, NEW n \in Nat, m < n, \A i \in DOMAIN s : s[i].n \in Nat /\ s[i].n =< m
  PROVE  ShownIn(s, n) = {}
BY DEF ShownIn, Shown

\* What a new block, or one that grows, adds to the response.
LEMMA HeldSteps ==
  ASSUME blocks \in Seq(Blocks), NEW x \in Seq(Nat)
  PROVE  /\ \A k \in {"text", "tool"} :
              HeldIn(Append(blocks, [kind |-> k, text |-> x, complete |-> FALSE]))
                = HeldIn(blocks) \union Range(x)
         /\ \A b \in DOMAIN blocks :
              /\ HeldIn([blocks EXCEPT ![b].text = @ \o x]) = HeldIn(blocks) \union Range(x)
              /\ HeldIn([blocks EXCEPT ![b].complete = TRUE]) = HeldIn(blocks)
<1>1. /\ DOMAIN blocks = 1..Len(blocks) /\ Len(blocks) \in Nat
      /\ \A b \in DOMAIN blocks : blocks[b] \in Blocks /\ blocks[b].text \in Seq(Nat)
  BY BlockFields
<1>2. ASSUME NEW k \in {"text", "tool"}
      PROVE  HeldIn(Append(blocks, [kind |-> k, text |-> x, complete |-> FALSE]))
               = HeldIn(blocks) \union Range(x)
  <2> DEFINE r == [kind |-> k, text |-> x, complete |-> FALSE]
             a == Append(blocks, r)
  <2>1. r.text = x /\ r \in Blocks
    BY DEF Blocks
  <2> HIDE DEF r
  <2>2. /\ DOMAIN a = DOMAIN blocks \union {Len(blocks) + 1} /\ a[Len(blocks) + 1] = r
        /\ \A b \in DOMAIN blocks : a[b] = blocks[b]
    BY <1>1, <2>1
  <2> HIDE DEF a
  <2>3. HeldIn(a) = HeldIn(blocks) \union Range(x)
    BY <2>1, <2>2 DEF HeldIn
  <2> QED BY <2>3 DEF a, r
<1>3. ASSUME NEW b \in DOMAIN blocks
      PROVE  HeldIn([blocks EXCEPT ![b].text = @ \o x]) = HeldIn(blocks) \union Range(x)
  <2> DEFINE c == [blocks EXCEPT ![b].text = @ \o x]
  <2>1. Range(blocks[b].text \o x) = Range(blocks[b].text) \union Range(x)
    BY <1>1, ConcatProperties, RangeConcatenation
  <2>2. /\ DOMAIN c = DOMAIN blocks /\ c[b].text = blocks[b].text \o x
        /\ \A d \in DOMAIN blocks : d # b => c[d] = blocks[d]
    BY <1>1 DEF Blocks
  <2> HIDE DEF c
  <2>3. HeldIn(c) = HeldIn(blocks) \union Range(x)
    BY <2>1, <2>2 DEF HeldIn
  <2> QED BY <2>3 DEF c
<1>4. ASSUME NEW b \in DOMAIN blocks
      PROVE  HeldIn([blocks EXCEPT ![b].complete = TRUE]) = HeldIn(blocks)
  <2> DEFINE c == [blocks EXCEPT ![b].complete = TRUE]
  <2>1. DOMAIN c = DOMAIN blocks /\ \A d \in DOMAIN blocks : c[d].text = blocks[d].text
    BY <1>1 DEF Blocks
  <2> HIDE DEF c
  <2>2. HeldIn(c) = HeldIn(blocks)
    BY <2>1 DEF HeldIn
  <2> QED BY <2>2 DEF c
<1> QED BY <1>2, <1>3, <1>4

\* The text of a whole response is what its blocks hold.
LEMMA WholeText ==
  ASSUME blocks \in Seq(Blocks), NEW c \in Seq(DOMAIN blocks), Range(c) = DOMAIN blocks
  PROVE  Range(TextOf(c)) = HeldIn(blocks)
<1>1. Range(TextOf(c)) = UNION {Range(blocks[c[i]].text) : i \in DOMAIN c}
  BY TextType
<1>2. \A i \in DOMAIN c : c[i] \in DOMAIN blocks
  OBVIOUS
<1>3. \A b \in DOMAIN blocks : \E i \in DOMAIN c : c[i] = b
  BY DEF Range
<1> QED BY <1>1, <1>2, <1>3 DEF HeldIn
\* Only Send emits, and a task that is over stores nothing more.
LEMMA OtherSteps ==
  ASSUME BaseInv, [Next]_vars, ~ Send
  PROVE  /\ UNCHANGED emitted
         /\ pc \in Over => /\ pc' \in Over /\ UNCHANGED <<wrote, stored>>
                           /\ outbox' = outbox \/ outbox' = <<>>
<1> USE DEF Over, Inserting
<1>1. CASE ChatStream \/ InsertUser \/ LoadHistory \/ Request \/ InsertResults \/ Close
  BY <1>1, RestStep DEF streamVars, effectVars
<1>2. CASE Item
  BY <1>2 DEF Item, BlockStart, BlockDelta, BlockStop, ItemLost, NextItem, At
<1>3. CASE EndOfResponse \/ InsertReply \/ InsertToolUse \/ RunTool
  BY <1>3 DEF EndOfResponse, InsertReply, InsertToolUse, RunTool, At
<1>4. CASE Reader
  BY <1>4, StreamStep DEF callVars, effectVars
<1>5. CASE Fault
  BY <1>5, FaultStep, DieStep DEF Fault, effectVars
<1>6. CASE UNCHANGED vars
  BY <1>6 DEF vars, callVars, streamVars, effectVars
<1> QED BY <1>1, <1>2, <1>3, <1>4, <1>5, <1>6 DEF Next, Task

\* Done is about to be sent only when the reply is stored, and is the last event.
THEOREM FinishingInvariant == Spec => []Finishing
<1>1. Init => Finishing
  BY DEF Init, Finishing, Emitted
<1>2. BaseInv /\ Finishing /\ [Next]_vars => Finishing'
  <2> SUFFICES ASSUME BaseInv, Finishing, [Next]_vars PROVE Finishing'
    OBVIOUS
  <2>1. CASE Send
    <3>1. /\ outbox # <<>> /\ outbox' = Tail(outbox) /\ UNCHANGED <<pc, wrote, stored>>
          /\ emitted' = emitted \/ emitted' = Append(emitted, outbox[1])
          /\ outbox \in Seq(Events) /\ emitted \in Seq(Events) /\ outbox[1] \in Events
      BY <2>1, StreamStep DEF callVars, effectVars, BaseInv, Types
    <3>2. Emitted("Done") = {}
      BY <3>1 DEF Finishing
    <3> HIDE DEF Events
    <3>3. \A i \in DOMAIN outbox' : i + 1 \in DOMAIN outbox /\ outbox'[i] = outbox[i + 1]
      BY <3>1
    <3>4. Len(outbox) = 1 => outbox' = <<>>
      BY <3>1
    <3>5. \A i \in DOMAIN emitted' : (i \in DOMAIN emitted /\ emitted'[i] = emitted[i]) \/ emitted'[i] = outbox[1]
      BY <3>1, SMTT(30)
    <3>6. 1 \in DOMAIN outbox
      BY <3>1
    <3>7. Emitted("Done")' # {} => outbox[1].type = "Done"
      BY <3>2, <3>5 DEF Emitted
    <3>8. Emitted("Done")' # {} => pc' \in Over /\ outbox' = <<>>
      BY <3>1, <3>4, <3>6, <3>7 DEF Finishing, Over
    <3>9. \A i \in DOMAIN outbox' : outbox'[i].type # "Done"
      BY <3>3, <3>4 DEF Finishing
    <3> QED BY <3>8, <3>9 DEF Finishing
  <2>2. CASE ~ Send
    <3>1. UNCHANGED emitted /\ UNCHANGED Emitted("Done")
      BY <2>2, OtherSteps DEF Emitted
    <3>2. CASE pc \in Over
      <4>1. pc' \in Over /\ UNCHANGED <<wrote, stored>> /\ (outbox' = outbox \/ outbox' = <<>>)
        BY <2>2, <3>2, OtherSteps
      <4>2. pc = "closing" => pc' = "closing" \/ outbox' = <<>>
        <5>1. ASSUME pc = "closing" PROVE Close \/ Die \/ Reader \/ UNCHANGED vars
          BY <2>2, <5>1, RestStep, FaultStep DEF Next, Task, Item, Fault, BlockStart, BlockDelta, BlockStop,
             ItemLost, NextItem, EndOfResponse, InsertReply, InsertToolUse, RunTool, At, Inserting
        <5> QED BY <4>1, <5>1, RestStep, DieStep, StreamStep DEF vars, callVars, streamVars
      <4>3. CASE outbox' = <<>>
        BY <3>1, <4>1, <4>3 DEF Finishing
      <4>4. CASE outbox' = outbox /\ (pc = "closing" => pc' = "closing")
        BY <3>1, <4>1, <4>4 DEF Finishing, LastOf
      <4> QED BY <4>1, <4>2, <4>3, <4>4
    <3>3. CASE pc \notin Over
      <4>1. Emitted("Done")' = {} /\ \A i \in DOMAIN outbox : outbox[i].type # "Done"
        BY <3>1, <3>3 DEF Finishing, Over
      <4> SUFFICES \A i \in DOMAIN outbox' : outbox'[i].type = "Done" =>
                     pc' = "closing" /\ Len(outbox') = 1 /\ LastOf(wrote') = "reply" /\ outbox'[i].text = stored'
        BY <4>1 DEF Finishing
      <4>2. CASE outbox' = outbox \/ outbox' = <<>>
        BY <4>1, <4>2
      <4>3. CASE InsertReply
        <5> DEFINE e == TextEv("Done", iteration, 0, TextOf(content))
        <5>1. /\ pc' = "closing" /\ outbox' = <<e>> /\ Store /\ pc = "insertReply" /\ pc \in Inserting
          BY <4>3, ReplyStep DEF Inserting
        <5>2. stored' = TextOf(content) /\ LastOf(wrote') = "reply"
          BY <5>1, StoreStep DEF BaseInv
        <5>3. e.text = TextOf(content)
          BY DEF TextEv
        <5> HIDE DEF e
        <5>4. Len(<<e>>) = 1 /\ \A i \in DOMAIN <<e>> : <<e>>[i] = e
          OBVIOUS
        <5> QED BY <5>1, <5>2, <5>3, <5>4
      <4>4. CASE \A i \in DOMAIN outbox' : outbox'[i].type # "Done"
        BY <4>4
      <4>6. CASE ChatStream \/ InsertUser \/ Request \/ Close \/ Reader \/ UNCHANGED vars
        BY <4>2, <4>6, RestStep, StreamStep DEF streamVars, vars
      <4>7. CASE LoadHistory \/ InsertResults
        <5>1. \A n : Ev("Error", n, 0).type = "Error" /\ Ev("IterationStart", n, 0).type = "IterationStart"
          BY DEF Ev
        <5> QED BY <4>4, <4>7, <5>1, RestStep, RoundStep
      <4>8. CASE Item
        <5>1. \A n, b, x : /\ TextEv("TextDelta", n, b, x).type = "TextDelta"
                           /\ Ev("ToolUseStart", n, b).type = "ToolUseStart"
                           /\ Ev("ToolUseDelta", n, b).type = "ToolUseDelta"
                           /\ Ev("ToolUseComplete", n, b).type = "ToolUseComplete"
          BY DEF Ev, TextEv
        <5>2. CASE BlockStart
          BY <4>2, <4>4, <5>1, <5>2, BlockStartStep DEF BaseInv
        <5>3. CASE BlockDelta \/ BlockStop \/ ItemLost
          BY <4>2, <4>4, <5>1, <5>3, BlockMoreStep DEF BaseInv
        <5> QED BY <4>8, <5>2, <5>3 DEF Item
      <4>9. CASE EndOfResponse
        <5>1. Ev("IterationComplete", iteration, 0).type = "IterationComplete"
          BY DEF Ev
        <5> QED BY <4>4, <4>9, <5>1, EndStep DEF BaseInv
      <4>10. CASE InsertToolUse
        <5>1. Ev("ToolExecutionStart", iteration, Head(todo)).type = "ToolExecutionStart"
          BY DEF Ev
        <5> QED BY <4>4, <4>10, <5>1, ToolUseStep
      <4>11. CASE RunTool
        <5> DEFINE e == Ev("ToolExecutionComplete", iteration, Head(todo))
                   f == Ev("ToolExecutionStart", iteration, Head(todo'))
        <5>1. e.type = "ToolExecutionComplete" /\ f.type = "ToolExecutionStart"
          BY DEF Ev
        <5>2. todo # <<>>
          BY <4>11 DEF RunTool, At, BaseInv, Settled
        <5>3. outbox' = <<e>> \/ outbox' = <<e, f>>
          BY <4>11, <5>2, ToolStep DEF BaseInv
        <5> HIDE DEF e, f
        <5>4. \A i \in DOMAIN outbox' : outbox'[i] \in {e, f}
          BY <5>3
        <5> QED BY <4>4, <5>1, <5>4
      <4>12. CASE Fault
        <5>1. Ev("Error", iteration, 0).type = "Error"
          BY DEF Ev
        <5> QED BY <4>2, <4>4, <4>12, <5>1, FaultStep, DieStep DEF Fault
      <4> QED BY <2>2, <4>3, <4>6, <4>7, <4>8, <4>9, <4>10, <4>11, <4>12 DEF Next, Task
    <3> QED BY <3>2, <3>3
  <2> QED BY <2>1, <2>2
<1> QED BY <1>1, <1>2, BaseInvariant, PTL DEF Spec
\* Steps that say nothing of the blocks, in a stage that keeps no response to show.
LEMMA ShowNothing ==
  ASSUME Showing, outbox = <<>>, UNCHANGED <<emitted, iteration>>,
         \A i \in DOMAIN outbox' : outbox'[i].n = iteration /\ outbox'[i].type # "Done",
         pc' \notin {"request", "stream", "insertReply"}, iteration \in Nat
  PROVE  Showing'
BY DEF Showing

\* As long as somebody reads, the blocks of the response hold what was shown of this
\* round, and Done holds them all.
THEOREM ShowingInvariant == Spec => []ShowInv
<1>1. Init => ShowInv
  BY DEF Init, ShowInv, Showing
<1>2. BaseInv /\ Finishing /\ ShowInv /\ [Next]_vars => ShowInv'
  <2> SUFFICES ASSUME BaseInv, Finishing, ShowInv, [Next]_vars, reader' = "open" PROVE Showing'
    BY DEF ShowInv
  <2>0. reader = "open" /\ Showing /\ Types /\ iteration \in Nat
    <3>1. reader = "open"
      <4>1. ~ Reader => UNCHANGED reader
        BY FaultStep, DieStep DEF Next, Task, Item, Fault, ChatStream, InsertUser, LoadHistory, Request,
           BlockStart, BlockDelta, BlockStop, ItemLost, NextItem, EndOfResponse, InsertReply,
           InsertToolUse, RunTool, InsertResults, Send, Close, streamVars, vars
      <4> QED BY <4>1, StreamStep
    <3> QED BY <3>1 DEF ShowInv, BaseInv, Types
  <2>1. CASE Send
    <3> DEFINE e == outbox[1]
    <3>1. /\ outbox # <<>> /\ outbox' = Tail(outbox) /\ emitted' = Append(emitted, e)
          /\ UNCHANGED <<pc, iteration, blocks>> /\ e = Head(outbox)
          /\ outbox \in Seq(Events) /\ emitted \in Seq(Events) /\ e \in Events
      BY <2>0, <2>1, StreamStep DEF callVars, responseVars, Types
    <3> HIDE DEF Events
    <3>2. \A n : /\ ShownIn(emitted', n) = ShownIn(emitted, n) \union Shown(e, n)
                 /\ ShownIn(outbox, n) = Shown(e, n) \union ShownIn(outbox', n)
      BY <3>1, ShownSteps
    <3>3. /\ 1 \in DOMAIN outbox
          /\ \A i \in DOMAIN outbox' : i + 1 \in DOMAIN outbox /\ outbox'[i] = outbox[i + 1]
          /\ \A i \in DOMAIN emitted' : (i \in DOMAIN emitted /\ emitted'[i] = emitted[i]) \/ emitted'[i] = e
          /\ Len(outbox) = 1 => outbox' = <<>>
      BY <3>1
    <3>4. \A i \in DOMAIN outbox' : outbox'[i].type # "Done"
      BY <3>3 DEF Finishing
    <3>5. \A n : ShownIn(emitted, n) \union ShownIn(outbox, n) = ShownIn(emitted', n) \union ShownIn(outbox', n)
      BY <3>2
    <3>6. /\ \A i \in DOMAIN emitted' : emitted'[i].n =< iteration
          /\ \A i \in DOMAIN outbox' : outbox'[i].n =< iteration
      BY <2>0, <3>3 DEF Showing
    <3> HIDE DEF e
    <3> QED BY <2>0, <3>1, <3>4, <3>5, <3>6 DEF Showing
  <2>2. CASE ChatStream \/ InsertUser \/ Close
    <3>1. /\ UNCHANGED <<outbox, emitted, iteration>> /\ pc' \notin {"request", "stream", "insertReply"}
      BY <2>2, RestStep DEF streamVars
    <3> QED BY <2>0, <3>1 DEF Showing
  <2>3. CASE LoadHistory \/ InsertResults
    <3> DEFINE e == Ev("Error", iteration + 1, 0)
               f == Ev("IterationStart", iteration + 1, 0)
    <3>1. /\ UNCHANGED emitted /\ iteration' = iteration + 1 /\ pc' \in {"closing", "request"}
          /\ outbox' = <<e, e>> \/ outbox' = <<f>>
      BY <2>3, RestStep, RoundStep
    <3>2. e.type = "Error" /\ f.type = "IterationStart" /\ e.n = iteration + 1 /\ f.n = iteration + 1
      BY DEF Ev
    <3> HIDE DEF e, f
    <3>3. \A i \in DOMAIN outbox' : outbox'[i] \in {e, f}
      BY <3>1
    <3>4. \A i \in DOMAIN emitted : emitted[i].n \in Nat /\ emitted[i].n =< iteration
      <4>1. \A i \in DOMAIN emitted : emitted[i] \in Events
        BY <2>0 DEF Types
      <4> QED BY <2>0, <4>1 DEF Showing, Events
    <3>5. ShownIn(emitted, iteration + 1) = {}
      BY <2>0, <3>4, ShownLater
    <3>6. ShownIn(outbox', iteration + 1) = {}
      <4>1. \A i \in DOMAIN outbox' : outbox'[i].type # "TextDelta"
        BY <3>2, <3>3
      <4> QED BY <4>1, ShownFew
    <3>7. /\ \A i \in DOMAIN emitted' : emitted'[i].n =< iteration'
          /\ \A i \in DOMAIN outbox' : outbox'[i].n =< iteration' /\ outbox'[i].type # "Done"
      BY <2>0, <3>1, <3>2, <3>3, <3>4
    <3> QED BY <3>1, <3>5, <3>6, <3>7 DEF Showing
  <2>4. CASE Request
    <3>1. /\ pc = "request" /\ pc' = "stream" /\ outbox = <<>> /\ blocks' = <<>>
          /\ UNCHANGED <<outbox, emitted, iteration>>
      BY <2>4, RestStep DEF streamVars
    <3>2. HeldIn(<<>>) = {}
      BY DEF HeldIn
    <3> QED BY <2>0, <3>1, <3>2 DEF Showing
  <2>5. CASE BlockStart \/ BlockDelta \/ BlockStop \/ ItemLost
    <3>1. pc = "stream" /\ outbox = <<>> /\ UNCHANGED <<pc, iteration, emitted>>
      BY <2>0, <2>5, BlockStartStep, BlockMoreStep DEF callVars
    <3>2. Fragment \in Seq(Nat) /\ <<>> \in Seq(Nat) /\ blocks \in Seq(Blocks) /\ Range(<<>>) = {}
      BY <2>0 DEF Types, Fragment, Range
    <3>3. ASSUME NEW e, outbox' = <<e>> \/ outbox' = <<>>, e.n = iteration, e.type # "Done",
                 HeldIn(blocks') = HeldIn(blocks) \union (IF outbox' = <<e>> THEN Shown(e, iteration) ELSE {})
          PROVE  Showing'
      <4>1. HeldIn(blocks) = ShownIn(emitted, iteration)
        BY <2>0, <3>1, ShownFew DEF Showing
      <4>2. ShownIn(outbox', iteration) = IF outbox' = <<e>> THEN Shown(e, iteration) ELSE {}
        BY <3>3, ShownFew
      <4>3. \A i \in DOMAIN outbox' : outbox'[i] = e
        BY <3>3
      <4> QED BY <2>0, <3>1, <3>3, <4>1, <4>2, <4>3 DEF Showing
    <3>4. ASSUME NEW b
          PROVE  LET e == TextEv("TextDelta", iteration, b, Fragment)
                 IN e.n = iteration /\ e.type # "Done" /\ Shown(e, iteration) = Range(Fragment)
      BY DEF TextEv, Shown, Fragments, Range
    <3>5. ASSUME NEW b, NEW t \in {"ToolUseStart", "ToolUseDelta", "ToolUseComplete"}
          PROVE  LET e == Ev(t, iteration, b)
                 IN e.n = iteration /\ e.type # "Done" /\ Shown(e, iteration) = {}
      BY DEF Ev, Shown
    <3>6. CASE BlockStart
      <4> DEFINE e == TextEv("TextDelta", iteration, Len(blocks) + 1, Fragment)
                 f == Ev("ToolUseStart", iteration, Len(blocks) + 1)
                 r(k, x) == [kind |-> k, text |-> x, complete |-> FALSE]
      <4>1. /\ e.n = iteration /\ e.type # "Done" /\ Shown(e, iteration) = Range(Fragment)
            /\ f.n = iteration /\ f.type # "Done" /\ Shown(f, iteration) = {}
        BY <3>4, <3>5
      <4>2. \/ blocks' = Append(blocks, r("text", <<>>)) /\ outbox' = <<>>
            \/ blocks' = Append(blocks, r("text", Fragment)) /\ outbox' = <<e>>
            \/ blocks' = Append(blocks, r("tool", <<>>)) /\ outbox' = <<f>>
        BY <2>0, <3>6, BlockStartStep
      <4>3. /\ HeldIn(Append(blocks, r("text", <<>>))) = HeldIn(blocks)
            /\ HeldIn(Append(blocks, r("text", Fragment))) = HeldIn(blocks) \union Range(Fragment)
            /\ HeldIn(Append(blocks, r("tool", <<>>))) = HeldIn(blocks)
        <5>1. ASSUME NEW x \in Seq(Nat), NEW k \in {"text", "tool"}
              PROVE  HeldIn(Append(blocks, r(k, x))) = HeldIn(blocks) \union Range(x)
          BY <3>2, HeldSteps
        <5> HIDE DEF r
        <5> QED BY <3>2, <5>1
      <4> HIDE DEF e, f, r
      <4>4. CASE blocks' = Append(blocks, r("text", <<>>)) /\ outbox' = <<>>
        BY <3>3, <4>1, <4>3, <4>4
      <4>5. CASE blocks' = Append(blocks, r("text", Fragment)) /\ outbox' = <<e>>
        BY <3>3, <4>1, <4>3, <4>5
      <4>6. CASE blocks' = Append(blocks, r("tool", <<>>)) /\ outbox' = <<f>>
        BY <3>3, <4>1, <4>3, <4>6
      <4> QED BY <4>2, <4>4, <4>5, <4>6
    <3>7. CASE BlockDelta \/ BlockStop \/ ItemLost
      <4>1. CASE UNCHANGED <<blocks, outbox>>
        BY <3>1, <3>3, <3>5, <4>1
      <4>2. ASSUME NEW b \in DOMAIN blocks, blocks' = [blocks EXCEPT ![b].text = @ \o Fragment],
                   outbox' = <<TextEv("TextDelta", iteration, b, Fragment)>>
            PROVE  Showing'
        <5> DEFINE e == TextEv("TextDelta", iteration, b, Fragment)
        <5>1. e.n = iteration /\ e.type # "Done" /\ Shown(e, iteration) = Range(Fragment)
          BY <3>4
        <5>2. HeldIn(blocks') = HeldIn(blocks) \union Range(Fragment)
          BY <3>2, <4>2, HeldSteps
        <5>3. outbox' = <<e>>
          BY <4>2
        <5> HIDE DEF e
        <5> QED BY <3>3, <5>1, <5>2, <5>3
      <4>3. ASSUME NEW b \in DOMAIN blocks, UNCHANGED blocks,
                   outbox' = <<Ev("ToolUseDelta", iteration, b)>>
            PROVE  Showing'
        <5> DEFINE e == Ev("ToolUseDelta", iteration, b)
        <5>1. e.n = iteration /\ e.type # "Done" /\ Shown(e, iteration) = {} /\ outbox' = <<e>>
          BY <3>5, <4>3
        <5> HIDE DEF e
        <5> QED BY <3>3, <4>3, <5>1
      <4>4. ASSUME NEW b \in DOMAIN blocks, blocks' = [blocks EXCEPT ![b].complete = TRUE],
                   outbox' = <<>> \/ outbox' = <<Ev("ToolUseComplete", iteration, b)>>
            PROVE  Showing'
        <5> DEFINE e == Ev("ToolUseComplete", iteration, b)
        <5>1. e.n = iteration /\ e.type # "Done" /\ Shown(e, iteration) = {}
          BY <3>5
        <5>2. outbox' = <<>> \/ outbox' = <<e>>
          BY <4>4
        <5>3. HeldIn(blocks') = HeldIn(blocks)
          BY <3>2, <4>4, HeldSteps
        <5> HIDE DEF e
        <5> QED BY <3>3, <5>1, <5>2, <5>3
      <4> QED BY <2>0, <3>7, <4>1, <4>2, <4>3, <4>4, BlockMoreStep
    <3> QED BY <2>5, <3>6, <3>7
  <2>6. CASE EndOfResponse
    <3> DEFINE e == Ev("IterationComplete", iteration, 0)
    <3>1. /\ pc = "stream" /\ outbox = <<>> /\ UNCHANGED <<iteration, emitted, blocks>> /\ outbox' = <<e>>
          /\ pc' \in {"insertReply", "insertToolUse"}
      BY <2>0, <2>6, EndStep
    <3>2. e.type = "IterationComplete" /\ e.n = iteration /\ Shown(e, iteration) = {}
      BY DEF Ev, Shown
    <3> HIDE DEF e
    <3>3. \A i \in DOMAIN outbox' : outbox'[i] = e
      BY <3>1
    <3>4. ShownIn(outbox', iteration) = {} /\ ShownIn(outbox, iteration) = {}
      BY <3>1, <3>2, ShownFew
    <3> QED BY <2>0, <3>1, <3>2, <3>3, <3>4 DEF Showing
  <2>7. CASE InsertReply
    <3> DEFINE e == TextEv("Done", iteration, 0, TextOf(content))
    <3>1. /\ pc = "insertReply" /\ outbox = <<>> /\ pc' = "closing" /\ outbox' = <<e>>
          /\ UNCHANGED <<iteration, emitted>>
      BY <2>7, ReplyStep
    <3>2. e.n = iteration /\ Fragments(e) = Range(TextOf(content))
      BY DEF TextEv, Fragments, Range
    <3> HIDE DEF e
    <3>3. Range(TextOf(content)) = HeldIn(blocks)
      BY <2>0, <3>1, WholeText DEF BaseInv, Settled, Types
    <3>4. HeldIn(blocks) = ShownIn(emitted, iteration)
      BY <2>0, <3>1, ShownFew DEF Showing
    <3>5. \A i \in DOMAIN outbox' : outbox'[i] = e
      BY <3>1
    <3> QED BY <2>0, <3>1, <3>2, <3>3, <3>4, <3>5 DEF Showing
  <2>8. CASE InsertToolUse
    <3> DEFINE e == Ev("ToolExecutionStart", iteration, Head(todo))
    <3>1. /\ outbox = <<>> /\ pc' = "tools" /\ outbox' = <<e>> /\ UNCHANGED <<iteration, emitted>>
      BY <2>8, ToolUseStep
    <3>2. e.n = iteration /\ e.type # "Done"
      BY DEF Ev
    <3> HIDE DEF e
    <3>3. \A i \in DOMAIN outbox' : outbox'[i] = e
      BY <3>1
    <3> QED BY <2>0, <3>1, <3>2, <3>3, ShowNothing
  <2>9. CASE RunTool
    <3> DEFINE e == Ev("ToolExecutionComplete", iteration, Head(todo))
               f == Ev("ToolExecutionStart", iteration, Head(todo'))
    <3>1. todo # <<>>
      BY <2>9 DEF RunTool, At, BaseInv, Settled
    <3>2. /\ outbox = <<>> /\ UNCHANGED <<iteration, emitted>> /\ pc' \in {"tools", "insertResults"}
          /\ outbox' = <<e>> \/ outbox' = <<e, f>>
      BY <2>0, <2>9, <3>1, ToolStep
    <3>3. e.n = iteration /\ e.type # "Done" /\ f.n = iteration /\ f.type # "Done"
      BY DEF Ev
    <3> HIDE DEF e, f
    <3>4. \A i \in DOMAIN outbox' : outbox'[i] \in {e, f}
      BY <3>2
    <3> QED BY <2>0, <3>2, <3>3, <3>4, ShowNothing
  <2>10. CASE StorageFault \/ GatewayFault
    <3> DEFINE e == Ev("Error", iteration, 0)
    <3>1. /\ outbox = <<>> /\ pc' = "closing" /\ outbox' = <<e>> /\ UNCHANGED <<iteration, emitted>>
      BY <2>10, FaultStep
    <3>2. e.n = iteration /\ e.type # "Done"
      BY DEF Ev
    <3> HIDE DEF e
    <3>3. \A i \in DOMAIN outbox' : outbox'[i] = e
      BY <3>1
    <3> QED BY <2>0, <3>1, <3>2, <3>3, ShowNothing
  <2>11. CASE Die
    <3>1. pc' = "dead" /\ outbox' = <<>> /\ UNCHANGED <<iteration, emitted>>
      BY <2>11, DieStep
    <3> QED BY <2>0, <3>1 DEF Showing
  <2>12. CASE Reader \/ UNCHANGED vars
    <3>1. UNCHANGED <<pc, iteration, blocks, outbox, emitted>>
      BY <2>12, StreamStep DEF vars, callVars, responseVars, streamVars
    <3> QED BY <2>0, <3>1 DEF Showing
  <2> QED BY <2>1, <2>2, <2>3, <2>4, <2>5, <2>6, <2>7, <2>8, <2>9, <2>10, <2>11, <2>12
          DEF Next, Task, Item, Fault
<1> QED BY <1>1, <1>2, BaseInvariant, FinishingInvariant, PTL DEF Spec

\* The reader is told Done only when the reply is stored, and with the text of what
\* it was shown in that round, no fragment more and none less.
THEOREM DoneStored == Spec => []DoneMeansStored
<1>1. Init => DoneMeansStored
  BY DEF Init, DoneMeansStored, Emitted
<1>2. BaseInv /\ Finishing /\ ShowInv /\ DoneMeansStored /\ [Next]_vars => DoneMeansStored'
  <2> SUFFICES ASSUME BaseInv, Finishing, ShowInv, DoneMeansStored, [Next]_vars PROVE DoneMeansStored'
    OBVIOUS
  <2>1. CASE ~ Send
    <3>1. UNCHANGED emitted /\ (pc \in Over => UNCHANGED <<wrote, stored>>)
      BY <2>1, OtherSteps
    <3> QED BY <3>1 DEF DoneMeansStored, Finishing, Emitted
  <2>2. CASE Send
    <3>1. CASE UNCHANGED <<emitted, wrote, stored>>
      BY <3>1 DEF DoneMeansStored, Emitted
    <3>2. CASE emitted' # emitted
      <4> DEFINE e == outbox[1]
      <4>1. /\ outbox # <<>> /\ reader = "open" /\ emitted' = Append(emitted, e)
            /\ UNCHANGED <<wrote, stored>>
            /\ outbox \in Seq(Events) /\ emitted \in Seq(Events) /\ e \in Events
        BY <2>2, <3>2, StreamStep DEF BaseInv, Types, effectVars
      <4>2. Emitted("Done") = {} /\ Showing /\ 1 \in DOMAIN outbox
        BY <4>1 DEF Finishing, ShowInv
      <4>3. ASSUME e.type = "Done"
            PROVE  LastOf(wrote) = "reply" /\ e.text = stored /\ Fragments(e) = ShownIn(emitted, e.n)
        BY <4>2, <4>3 DEF Finishing, Showing
      <4> HIDE DEF Events, e
      <4>4. \A i \in DOMAIN emitted' : (i \in DOMAIN emitted /\ emitted'[i] = emitted[i]) \/ emitted'[i] = e
        BY <4>1
      <4>5. \A n : ShownIn(emitted', n) = ShownIn(emitted, n) \union Shown(e, n)
        BY <4>1, ShownSteps
      <4>6. ASSUME NEW i \in DOMAIN emitted', emitted'[i].type = "Done" PROVE emitted'[i] = e
        BY <4>2, <4>4, <4>6 DEF Emitted
      <4>7. ASSUME e.type = "Done" PROVE ShownIn(emitted', e.n) = ShownIn(emitted, e.n)
        BY <4>5, <4>7 DEF Shown
      <4>8. \A i \in Emitted("Done")' :
              /\ wrote'[Len(wrote')] = "reply" /\ emitted'[i].text = stored'
              /\ Fragments(emitted'[i]) = ShownIn(emitted', emitted'[i].n)
        BY <4>1, <4>3, <4>6, <4>7 DEF Emitted, LastOf
      <4>9. ASSUME NEW n
            PROVE  ShownIn(emitted', n) = UNION {Fragments(emitted'[j]) :
                                            j \in {x \in Emitted("TextDelta")' : emitted'[x].n = n}}
        BY DEF ShownIn, Shown, Emitted
      <4> QED BY <4>8, <4>9 DEF DoneMeansStored
    <3> QED BY <2>2, <3>1, <3>2, StreamStep DEF effectVars
  <2> QED BY <2>1, <2>2
<1> QED BY <1>1, <1>2, BaseInvariant, FinishingInvariant, ShowingInvariant, PTL DEF Spec

=============================================================================
