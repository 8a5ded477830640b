--------------------------- MODULE AgentChatProofs ---------------------------
(* Theorems about AgentChat, for every value of its constants. *)
EXTENDS AgentChat, TLAPS

USE BudgetAssumption, BatchAssumption, ClockAssumption, EditsAssumption

\* The draft of a call about to insert is a message of a known kind.
LEMMA DraftType ==
  ASSUME TypeOK, NEW c \in Calls, pc[c] \in Inserting
  PROVE  Draft(c) \in Message /\ KindAt[pc[c]] \in Kinds
BY DEF TypeOK, Draft, Message, KindAt, Inserting, Kinds

\* create_message keeps the types of the tables and of the log.
LEMMA StoreType ==
  ASSUME TypeOK, NEW c \in Calls, pc[c] \in Inserting, Store(c)
  PROVE  /\ threads' \subseteq Threads
         /\ messages' \subseteq Message
         /\ wrote' \in [Calls -> Seq(Kinds)]
BY DraftType DEF TypeOK, Store, CreateMessage

\* Building a message keeps the types of the clock and the stamps.
LEMMA BuildType ==
  ASSUME TypeOK, NEW c \in Calls, BuildMessage(c)
  PROVE  clock' \in Nat /\ stamp' \in [Calls -> Nat]
BY DEF TypeOK, BuildMessage

\* Running a tool keeps the type of the log of tools.
LEMMA RanType ==
  ASSUME TypeOK, NEW c \in Calls,
         ran' = [ran EXCEPT ![c] = Append(@, NextTool(c))]
  PROVE  ran' \in [Calls -> Seq(Nat \X Nat)]
<1>1. NextTool(c) \in Nat \X Nat
  BY DEF TypeOK, NextTool
<1>2. Append(ran[c], NextTool(c)) \in Seq(Nat \X Nat)
  BY <1>1 DEF TypeOK
<1> QED BY <1>2 DEF TypeOK

\* Ending a call keeps pc and outcome typed, and in step with each other.
LEMMA EndType ==
  ASSUME TypeOK, NEW c \in Calls, NEW o \in Outcomes \ {"none"}, End(c, o)
  PROVE  /\ pc' \in [Calls -> Running \union {"idle", "ended"}]
         /\ outcome' \in [Calls -> Outcomes]
         /\ \A d \in Calls : pc'[d] = "ended" <=> outcome'[d] # "none"
BY DEF TypeOK, End

\* Going on to another await keeps pc and outcome typed, and in step.
LEMMA GotoType ==
  ASSUME TypeOK, NEW c \in Calls, NEW l \in Running, pc[c] # "ended", Goto(c, l)
  PROVE  /\ pc' \in [Calls -> Running \union {"idle", "ended"}]
         /\ outcome' \in [Calls -> Outcomes]
         /\ \A d \in Calls : pc'[d] = "ended" <=> outcome'[d] # "none"
BY DEF TypeOK, Goto, Running, Inserting

\* The head of chat_loop keeps the types, whichever way it goes.
LEMMA StartIterationType ==
  ASSUME TypeOK, NEW c \in Calls, pc[c] # "ended", StartIteration(c)
  PROVE  /\ iteration' \in [Calls -> Nat]
         /\ pc' \in [Calls -> Running \union {"idle", "ended"}]
         /\ outcome' \in [Calls -> Outcomes]
         /\ \A d \in Calls : pc'[d] = "ended" <=> outcome'[d] # "none"
<1>1. iteration' \in [Calls -> Nat]
  BY DEF TypeOK, StartIteration
<1>2. "infer" \in Running /\ "max_iterations" \in Outcomes \ {"none"}
  BY DEF Running, Outcomes
<1>3. CASE End(c, "max_iterations")
  BY <1>1, <1>2, <1>3, EndType
<1>4. CASE Goto(c, "infer")
  BY <1>1, <1>2, <1>4, GotoType
<1> QED BY <1>3, <1>4 DEF StartIteration

\* Every value the code can reach is of its type.
THEOREM TypeCorrect == Spec => []TypeOK
<1>1. Init => TypeOK
  BY DEF Init, TypeOK, Running, Outcomes, Kinds
<1>2. TypeOK /\ [Next]_vars => TypeOK'
  <2> SUFFICES ASSUME TypeOK, [Next]_vars PROVE TypeOK'
    OBVIOUS
  <2>1. ASSUME NEW c \in Calls, Begin(c) PROVE TypeOK'
    <3>1. CASE BuildMessage(c) /\ Goto(c, "insertUser") /\ GetThread(on[c])
      BY <2>1, <3>1, BuildType, GotoType DEF Begin, TypeOK, Running, Inserting, storeVars
    <3>2. CASE End(c, "thread_not_found") /\ UNCHANGED <<clock, stamp>>
      BY <2>1, <3>2, EndType DEF Begin, TypeOK, Outcomes, storeVars
    <3> QED BY <2>1, <3>1, <3>2 DEF Begin
  <2>2. ASSUME NEW c \in Calls, InsertUser(c) PROVE TypeOK'
    BY <2>2, StoreType, GotoType DEF InsertUser, TypeOK, Running, Inserting
  <2>3. ASSUME NEW c \in Calls, LoadHistory(c) PROVE TypeOK'
    BY <2>3, StartIterationType DEF LoadHistory, TypeOK, GetThreadMessages, storeVars
  <2>4. ASSUME NEW c \in Calls, Infer(c) PROVE TypeOK'
    <3>1. PICK n \in 0..MaxBatch :
            /\ batch' = [batch EXCEPT ![c] = n]
            /\ Goto(c, IF n = 0 THEN "insertReply" ELSE "insertToolUse")
      BY <2>4 DEF Infer
    <3>2. /\ pc' \in [Calls -> Running \union {"idle", "ended"}]
          /\ outcome' \in [Calls -> Outcomes]
          /\ \A d \in Calls : pc'[d] = "ended" <=> outcome'[d] # "none"
      BY <2>4, <3>1, GotoType DEF Infer, Running, Inserting
    <3>3. clock' \in Nat /\ stamp' \in [Calls -> Nat]
      BY <2>4, BuildType DEF Infer
    <3>4. batch' \in [Calls -> Nat]
      BY <3>1 DEF TypeOK
    <3> QED BY <2>4, <3>2, <3>3, <3>4 DEF Infer, TypeOK, storeVars
  <2>5. ASSUME NEW c \in Calls, InsertReply(c) PROVE TypeOK'
    BY <2>5, StoreType, EndType DEF InsertReply, TypeOK, Outcomes, Inserting
  <2>6. ASSUME NEW c \in Calls, InsertToolUse(c) PROVE TypeOK'
    BY <2>6, StoreType, GotoType DEF InsertToolUse, TypeOK, Running, Inserting
  <2>7. ASSUME NEW c \in Calls, RunTool(c) PROVE TypeOK'
    <3>1. ran' \in [Calls -> Seq(Nat \X Nat)] /\ results' \in [Calls -> Nat]
      <4>1. ran' \in [Calls -> Seq(Nat \X Nat)]
        BY <2>7, RanType DEF RunTool
      <4>2. results' \in [Calls -> Nat]
        BY <2>7 DEF RunTool, TypeOK
      <4> QED BY <4>1, <4>2
    <3>2. CASE BuildMessage(c) /\ Goto(c, "insertResults")
      BY <2>7, <3>1, <3>2, BuildType, GotoType
      DEF RunTool, TypeOK, Running, Inserting, storeVars
    <3>3. CASE UNCHANGED <<clock, stamp, pc, outcome>>
      BY <2>7, <3>1, <3>3 DEF RunTool, TypeOK, storeVars
    <3> QED BY <2>7, <3>2, <3>3 DEF RunTool
  <2>8. ASSUME NEW c \in Calls, InsertResults(c) PROVE TypeOK'
    BY <2>8, StoreType, StartIterationType DEF InsertResults, TypeOK, Inserting
  <2>9. ASSUME NEW c \in Calls, StorageFault(c) PROVE TypeOK'
    BY <2>9, StoreType, EndType DEF StorageFault, StoreOrNot, TypeOK, Outcomes, storeVars
  <2>10. ASSUME NEW c \in Calls, GatewayFault(c) PROVE TypeOK'
    BY <2>10, EndType DEF GatewayFault, TypeOK, Outcomes, storeVars
  <2>11. ASSUME NEW c \in Calls, Abandon(c) PROVE TypeOK'
    <3>1. ran' \in [Calls -> Seq(Nat \X Nat)]
      BY <2>11, RanType DEF Abandon, TypeOK
    <3>2. /\ threads' \subseteq Threads
          /\ messages' \subseteq Message
          /\ wrote' \in [Calls -> Seq(Kinds)]
      BY <2>11, StoreType DEF Abandon, StoreOrNot, TypeOK, storeVars
    <3>3. /\ pc' \in [Calls -> Running \union {"idle", "ended"}]
          /\ outcome' \in [Calls -> Outcomes]
          /\ \A d \in Calls : pc'[d] = "ended" <=> outcome'[d] # "none"
      BY <2>11, EndType DEF Abandon, Outcomes
    <3> QED BY <2>11, <3>1, <3>2, <3>3 DEF Abandon, TypeOK
  <2>12. ASSUME EditThread PROVE TypeOK'
    BY <2>12 DEF EditThread, Edit, DeleteThread, DeleteMessage, DeleteMessagesAfter,
                 TypeOK, callVars
  <2>13. CASE UNCHANGED vars
    BY <2>13 DEF vars, storeVars, callVars, TypeOK
  <2> QED
    BY <2>1, <2>2, <2>3, <2>4, <2>5, <2>6, <2>7, <2>8, <2>9, <2>10, <2>11, <2>12, <2>13
    DEF Next, Step, Fault
<1> QED BY <1>1, <1>2, PTL DEF Spec

-----------------------------------------------------------------------------
(* No row outlives its thread, whatever runs when a thread is deleted. *)

\* The foreign key and its cascade keep every stored message in a stored
\* thread, with calls at any await while the application deletes the thread.
THEOREM OrphansNever == Spec => []NoOrphanRows
<1>1. Init => NoOrphanRows
  BY DEF Init, NoOrphanRows
<1>2. NoOrphanRows /\ [Next]_vars => NoOrphanRows'
  <2> SUFFICES ASSUME NoOrphanRows, [Next]_vars PROVE NoOrphanRows'
    OBVIOUS
  <2>1. ASSUME NEW c \in Calls, Store(c) \/ UNCHANGED storeVars PROVE NoOrphanRows'
    BY <2>1 DEF Store, CreateMessage, Accepts, storeVars, NoOrphanRows
  <2>2. ASSUME NEW c \in Calls, Step(c) \/ Fault(c)
        PROVE  Store(c) \/ UNCHANGED storeVars
    BY <2>2 DEF Step, Begin, InsertUser, LoadHistory, Infer, InsertReply, InsertToolUse,
                RunTool, InsertResults, Fault, StorageFault, GatewayFault, Abandon,
                StoreOrNot
  <2>3. ASSUME EditThread PROVE NoOrphanRows'
    <3>1. ASSUME NEW t \in Threads, DeleteThread(t) PROVE NoOrphanRows'
      BY <3>1 DEF DeleteThread, GetThreadMessages, NoOrphanRows
    <3>2. ASSUME messages' \subseteq messages, UNCHANGED threads PROVE NoOrphanRows'
      BY <3>2 DEF NoOrphanRows
    <3> QED BY <2>3, <3>1, <3>2 DEF EditThread, Edit, DeleteMessage, DeleteMessagesAfter
  <2>4. CASE UNCHANGED vars
    BY <2>4 DEF vars, storeVars, NoOrphanRows
  <2> QED BY <2>1, <2>2, <2>3, <2>4 DEF Next
<1> QED BY <1>1, <1>2, PTL DEF Spec

-----------------------------------------------------------------------------
(* The inductive invariant of a call: how much it has stored at each await. *)

\* At each await the number of stored messages is a function of the iteration.
Progress(c) ==
  /\ pc[c] \in {"idle", "insertUser"} => Len(wrote[c]) = 0 /\ iteration[c] = 0
  /\ pc[c] = "load" => Len(wrote[c]) = 1 /\ iteration[c] = 0
  /\ pc[c] \in {"infer", "insertToolUse", "insertReply"} =>
       Len(wrote[c]) = 2 * iteration[c] - 1 /\ iteration[c] \in 1..MaxIterations
  /\ pc[c] \in {"tools", "insertResults"} =>
       /\ Len(wrote[c]) = 2 * iteration[c] /\ iteration[c] \in 1..MaxIterations
       /\ wrote[c][Len(wrote[c])] = "toolUse"
  /\ outcome[c] = "max_iterations" => Len(wrote[c]) = 2 * MaxIterations + 1

\* A reply ends the call.
NoReplyYet(c) ==
  pc[c] # "ended" \/ outcome[c] = "max_iterations" =>
    \A i \in 1..Len(wrote[c]) : wrote[c][i] # "reply"

\* A request for tools is the last message only where it may be.
LastKind(c) ==
  \/ pc[c] \in {"load", "infer", "insertToolUse", "insertReply"}
  \/ outcome[c] \in {"ok", "gateway_error", "max_iterations"}
  => Len(wrote[c]) > 0 /\ wrote[c][Len(wrote[c])] # "toolUse"
NothingBegun(c) == outcome[c] = "thread_not_found" => Len(wrote[c]) = 0

\* Tools ran for stored requests only, and those of this round come last.
RanFor(c) ==
  \A i \in 1..Len(ran[c]) :
    /\ ran[c][i][1] >= 1
    /\ 2 * ran[c][i][1] <= Len(wrote[c])
    /\ wrote[c][2 * ran[c][i][1]] = "toolUse"
    /\ pc[c] = "tools" => Before(ran[c][i], NextTool(c))
RanInOrder(c) ==
  \A i, j \in 1..Len(ran[c]) : i < j => Before(ran[c][i], ran[c][j])

CallInv(c) == /\ Progress(c)
              /\ NoReplyYet(c)
              /\ LastKind(c)
              /\ NothingBegun(c)
              /\ RanFor(c)
              /\ RanInOrder(c)

IInv == TypeOK /\ \A c \in Calls : CallInv(c)

\* A call is disturbed by no step but its own.
LEMMA Frame ==
  ASSUME NEW d \in Calls, CallInv(d),
         pc'[d] = pc[d], outcome'[d] = outcome[d], iteration'[d] = iteration[d],
         results'[d] = results[d], wrote'[d] = wrote[d], ran'[d] = ran[d]
  PROVE  CallInv(d)'
BY DEF CallInv, Progress, NoReplyYet, LastKind, NothingBegun, RanFor, RanInOrder, Before,
       NextTool

\* What appending a kind to the log of a call leaves and adds.
LEMMA AppendKind ==
  ASSUME TypeOK, NEW c \in Calls, NEW k \in Kinds,
         wrote' = [wrote EXCEPT ![c] = Append(@, k)]
  PROVE  /\ Len(wrote'[c]) = Len(wrote[c]) + 1
         /\ wrote'[c][Len(wrote[c]) + 1] = k
         /\ \A i \in 1..Len(wrote[c]) : wrote'[c][i] = wrote[c][i]
         /\ Len(wrote[c]) \in Nat
         /\ \A d \in Calls \ {c} : wrote'[d] = wrote[d]
<1>1. wrote[c] \in Seq(Kinds) /\ wrote'[c] = Append(wrote[c], k)
  BY DEF TypeOK
<1>2. \A d \in Calls \ {c} : wrote'[d] = wrote[d]
  BY DEF TypeOK
<1> QED BY <1>1, <1>2

\* A round below an odd position of the log is an earlier round.
LEMMA Half == ASSUME NEW x \in Nat, NEW n \in Nat, 2 * x <= 2 * n - 1
              PROVE  x < n
OBVIOUS

\* The tools that have run keep their place in the log when it grows.
LEMMA RanForGrows ==
  ASSUME TypeOK, NEW c \in Calls, NEW k \in Kinds, RanFor(c), ran'[c] = ran[c],
         wrote' = [wrote EXCEPT ![c] = Append(@, k)],
         pc'[c] # "tools"
  PROVE  RanFor(c)'
<1>1. ran[c] \in Seq(Nat \X Nat)
  BY DEF TypeOK
<1>2. \A i \in 1..Len(ran[c]) : ran[c][i][1] \in Nat
  BY <1>1
<1> QED BY <1>2, AppendKind, SMTT(30) DEF RanFor

\* What running the next tool leaves of the log of tools, and adds to it.
LEMMA AppendRan ==
  ASSUME TypeOK, NEW c \in Calls, pc[c] = "tools", CallInv(c),
         ran' = [ran EXCEPT ![c] = Append(@, NextTool(c))]
  PROVE  /\ Len(ran'[c]) = Len(ran[c]) + 1
         /\ ran'[c][Len(ran[c]) + 1] = NextTool(c)
         /\ \A i \in 1..Len(ran[c]) : ran'[c][i] = ran[c][i]
         /\ Len(ran[c]) \in Nat
         /\ \A d \in Calls \ {c} : ran'[d] = ran[d]
         /\ RanInOrder(c)'
<1>1. ran[c] \in Seq(Nat \X Nat) /\ ran'[c] = Append(ran[c], NextTool(c))
  BY DEF TypeOK
<1>2. /\ Len(ran'[c]) = Len(ran[c]) + 1
      /\ ran'[c][Len(ran[c]) + 1] = NextTool(c)
      /\ \A i \in 1..Len(ran[c]) : ran'[c][i] = ran[c][i]
      /\ Len(ran[c]) \in Nat
  BY <1>1
<1>3. \A d \in Calls \ {c} : ran'[d] = ran[d]
  BY DEF TypeOK
<1>4. \A i \in 1..Len(ran[c]) : Before(ran[c][i], NextTool(c))
  BY DEF CallInv, RanFor
<1>5. RanInOrder(c)'
  <2> SUFFICES ASSUME NEW i \in 1..Len(ran'[c]), NEW j \in 1..Len(ran'[c]), i < j
               PROVE  Before(ran'[c][i], ran'[c][j])
    BY DEF RanInOrder, Before
  <2>1. CASE j = Len(ran[c]) + 1
    BY <1>2, <1>4, <2>1
  <2>2. CASE j # Len(ran[c]) + 1
    BY <1>2, <2>2 DEF CallInv, RanInOrder
  <2> QED BY <2>1, <2>2
<1> QED BY <1>2, <1>3, <1>5

\* Only the acting call's own part of the state matters to the others.
LEMMA OthersKept ==
  ASSUME IInv, NEW c \in Calls,
         \A d \in Calls \ {c} :
           /\ pc'[d] = pc[d] /\ outcome'[d] = outcome[d]
           /\ iteration'[d] = iteration[d] /\ results'[d] = results[d]
           /\ wrote'[d] = wrote[d] /\ ran'[d] = ran[d],
         CallInv(c)'
  PROVE  \A d \in Calls : CallInv(d)'
<1> SUFFICES ASSUME NEW d \in Calls, d # c PROVE CallInv(d)'
  OBVIOUS
<1>1. CallInv(d)
  BY DEF IInv
<1> QED BY <1>1, Frame

\* A call that begins has stored and run nothing.
LEMMA BeginInv ==
  ASSUME IInv, NEW c \in Calls, Begin(c)
  PROVE  \A d \in Calls : CallInv(d)'
<1>1. CallInv(c)'
  BY DEF IInv, TypeOK, Begin, Goto, End, CallInv, Progress, NoReplyYet, LastKind,
         NothingBegun, RanFor, RanInOrder, Before
<1> QED BY <1>1, OthersKept DEF IInv, TypeOK, Begin, Goto, End

\* Storing a message with kind k at await l.
LEMMA StoreAs ==
  ASSUME IInv, NEW c \in Calls, Store(c), pc[c] \in Inserting, ran' = ran,
         pc'[c] # "tools"
  PROVE  /\ Len(wrote'[c]) = Len(wrote[c]) + 1
         /\ wrote'[c][Len(wrote[c]) + 1] = KindAt[pc[c]]
         /\ \A i \in 1..Len(wrote[c]) : wrote'[c][i] = wrote[c][i]
         /\ Len(wrote[c]) \in Nat
         /\ \A d \in Calls \ {c} : wrote'[d] = wrote[d]
         /\ RanFor(c)'
         /\ RanInOrder(c)'
<1>1. KindAt[pc[c]] \in Kinds
  BY DraftType DEF IInv
<1>2. CallInv(c) /\ TypeOK
  BY DEF IInv
<1>3. RanFor(c)'
  BY <1>1, <1>2, RanForGrows DEF Store, CallInv
<1>4. RanInOrder(c)'
  BY <1>2 DEF CallInv, RanInOrder, Before
<1> QED BY <1>1, <1>2, <1>3, <1>4, AppendKind DEF Store

\* The log of a call begins with the message of the person.
LEMMA InsertUserInv ==
  ASSUME IInv, NEW c \in Calls, InsertUser(c)
  PROVE  \A d \in Calls : CallInv(d)'
<1>1. pc'[c] = "load" /\ outcome'[c] = "none" /\ iteration' = iteration
  BY DEF IInv, TypeOK, InsertUser, Goto
<1>2. /\ Len(wrote[c]) = 0 /\ Len(wrote'[c]) = 1
      /\ wrote'[c][1] = "user" /\ iteration[c] = 0
      /\ RanFor(c)' /\ RanInOrder(c)'
  <2>1. Len(wrote[c]) = 0 /\ iteration[c] = 0 /\ pc[c] = "insertUser"
    BY DEF IInv, CallInv, Progress, InsertUser
  <2>2. KindAt[pc[c]] = "user" /\ pc[c] \in Inserting
    BY <2>1 DEF KindAt, Inserting
  <2>3. Store(c) /\ ran' = ran
    BY DEF InsertUser
  <2>4. /\ Len(wrote'[c]) = Len(wrote[c]) + 1
        /\ wrote'[c][Len(wrote[c]) + 1] = KindAt[pc[c]]
        /\ RanFor(c)' /\ RanInOrder(c)'
    BY <1>1, <2>2, <2>3, StoreAs
  <2> QED BY <2>1, <2>2, <2>4
<1>3. Progress(c)' /\ NoReplyYet(c)' /\ LastKind(c)' /\ NothingBegun(c)'
  BY <1>1, <1>2 DEF Progress, NoReplyYet, LastKind, NothingBegun
<1>4. CallInv(c)'
  BY <1>2, <1>3 DEF CallInv
<1> QED BY <1>1, <1>4, StoreAs, OthersKept DEF IInv, TypeOK, InsertUser, Inserting, Goto

\* A reply ends the call.
LEMMA InsertReplyInv ==
  ASSUME IInv, NEW c \in Calls, InsertReply(c)
  PROVE  \A d \in Calls : CallInv(d)'
<1>1. pc'[c] = "ended" /\ outcome'[c] = "ok" /\ iteration' = iteration
  BY DEF IInv, TypeOK, InsertReply, End
<1>2. CallInv(c)'
  BY <1>1, StoreAs DEF IInv, InsertReply, Inserting, KindAt, CallInv, Progress,
                       NoReplyYet, LastKind, NothingBegun
<1> QED BY <1>1, <1>2, StoreAs, OthersKept DEF IInv, TypeOK, InsertReply, Inserting, End

\* The round that begins is later than every round whose tools have run.
LEMMA InsertToolUseInv ==
  ASSUME IInv, NEW c \in Calls, InsertToolUse(c)
  PROVE  \A d \in Calls : CallInv(d)'
<1>1. /\ pc[c] = "insertToolUse" /\ pc'[c] = "tools"
      /\ outcome[c] = "none" /\ outcome'[c] = "none"
      /\ iteration' = iteration /\ results'[c] = 0 /\ ran' = ran
  BY DEF IInv, TypeOK, InsertToolUse, Goto
<1>2. /\ wrote' = [wrote EXCEPT ![c] = Append(@, "toolUse")]
      /\ "toolUse" \in Kinds
  BY <1>1 DEF InsertToolUse, Store, KindAt, Kinds
<1>3. /\ Len(wrote'[c]) = Len(wrote[c]) + 1
      /\ wrote'[c][Len(wrote[c]) + 1] = "toolUse"
      /\ \A i \in 1..Len(wrote[c]) : wrote'[c][i] = wrote[c][i]
      /\ Len(wrote[c]) \in Nat
      /\ \A d \in Calls \ {c} : wrote'[d] = wrote[d]
  BY <1>2, AppendKind DEF IInv
<1>4. /\ Len(wrote[c]) = 2 * iteration[c] - 1
      /\ iteration[c] \in 1..MaxIterations
  BY <1>1 DEF IInv, CallInv, Progress
<1>5. RanFor(c)'
  <2> SUFFICES ASSUME NEW i \in 1..Len(ran[c])
               PROVE  /\ ran[c][i][1] >= 1
                      /\ 2 * ran[c][i][1] <= Len(wrote'[c])
                      /\ wrote'[c][2 * ran[c][i][1]] = "toolUse"
                      /\ Before(ran[c][i], NextTool(c)')
    BY <1>1 DEF RanFor, Before
  <2>1. ran[c][i][1] \in Nat
    BY SMTT(30) DEF IInv, TypeOK
  <2>2. /\ ran[c][i][1] >= 1
        /\ 2 * ran[c][i][1] <= Len(wrote[c])
        /\ wrote[c][2 * ran[c][i][1]] = "toolUse"
    BY DEF IInv, CallInv, RanFor
  <2>3. ran[c][i][1] < iteration[c]
    BY <1>4, <2>1, <2>2, Half
  <2>4. NextTool(c)'[1] = iteration[c]
    BY <1>1 DEF NextTool
  <2>5. Before(ran[c][i], NextTool(c)')
    BY <2>3, <2>4 DEF Before
  <2>6. 2 * ran[c][i][1] \in 1..Len(wrote[c])
    BY <1>3, <2>1, <2>2
  <2>7. wrote'[c][2 * ran[c][i][1]] = wrote[c][2 * ran[c][i][1]]
    BY <1>3, <2>6
  <2>8. 2 * ran[c][i][1] <= Len(wrote'[c])
    BY <1>3, <2>1, <2>2
  <2> QED BY <2>2, <2>5, <2>7, <2>8
<1>6. RanInOrder(c)'
  BY <1>1 DEF IInv, CallInv, RanInOrder, Before
<1>7. Progress(c)' /\ NoReplyYet(c)' /\ LastKind(c)' /\ NothingBegun(c)'
  <2>1. \A i \in 1..Len(wrote[c]) : wrote[c][i] # "reply"
    BY <1>1 DEF IInv, CallInv, NoReplyYet
  <2>2. \A i \in 1..Len(wrote'[c]) : wrote'[c][i] # "reply"
    <3> SUFFICES ASSUME NEW i \in 1..Len(wrote'[c]) PROVE wrote'[c][i] # "reply"
      OBVIOUS
    <3>1. i \in 1..Len(wrote[c]) \/ i = Len(wrote[c]) + 1
      BY <1>3
    <3> QED BY <1>3, <2>1, <3>1
  <2> QED BY <1>1, <1>3, <1>4, <2>2 DEF Progress, NoReplyYet, LastKind, NothingBegun
<1>8. CallInv(c)'
  BY <1>5, <1>6, <1>7 DEF CallInv
<1> QED BY <1>1, <1>3, <1>8, OthersKept DEF IInv, TypeOK, InsertToolUse, Goto

\* The results complete a round: another one begins, or the budget is spent.
LEMMA InsertResultsInv ==
  ASSUME IInv, NEW c \in Calls, InsertResults(c)
  PROVE  \A d \in Calls : CallInv(d)'
<1>1. /\ pc[c] = "insertResults" /\ ran' = ran
      /\ iteration'[c] = iteration[c] + 1 /\ iteration[c] \in Nat
      /\ \/ /\ iteration[c] + 1 > MaxIterations
            /\ pc'[c] = "ended" /\ outcome'[c] = "max_iterations"
         \/ /\ iteration[c] + 1 <= MaxIterations
            /\ pc'[c] = "infer" /\ outcome'[c] = "none"
  BY DEF IInv, TypeOK, InsertResults, StartIteration, Goto, End
<1>2. /\ Len(wrote'[c]) = Len(wrote[c]) + 1 /\ Len(wrote[c]) \in Nat
      /\ wrote'[c][Len(wrote[c]) + 1] = "toolResult"
      /\ \A i \in 1..Len(wrote[c]) : wrote'[c][i] = wrote[c][i]
      /\ RanFor(c)' /\ RanInOrder(c)'
  BY <1>1, StoreAs DEF InsertResults, Inserting, KindAt
<1>3. /\ Len(wrote[c]) = 2 * iteration[c] /\ iteration[c] \in 1..MaxIterations
      /\ \A i \in 1..Len(wrote[c]) : wrote[c][i] # "reply"
  BY <1>1 DEF IInv, CallInv, Progress, NoReplyYet
<1>4. Progress(c)' /\ NoReplyYet(c)' /\ LastKind(c)' /\ NothingBegun(c)'
  <2>1. \A i \in 1..Len(wrote'[c]) : wrote'[c][i] # "reply"
    <3> SUFFICES ASSUME NEW i \in 1..Len(wrote'[c]) PROVE wrote'[c][i] # "reply"
      OBVIOUS
    <3>1. i \in 1..Len(wrote[c]) \/ i = Len(wrote[c]) + 1
      BY <1>2
    <3> QED BY <1>2, <1>3, <3>1
  <2>2. Len(wrote'[c]) = 2 * iteration[c] + 1 /\ 2 * iteration[c] + 1 = 2 * iteration'[c] - 1
    BY <1>1, <1>2, <1>3
  <2>3. ASSUME iteration[c] + 1 > MaxIterations PROVE Progress(c)'
    <3>1. iteration[c] = MaxIterations
      BY <1>3, <2>3
    <3>2. pc'[c] = "ended" /\ outcome'[c] = "max_iterations"
      BY <1>1, <2>3
    <3>3. Len(wrote'[c]) = 2 * MaxIterations + 1
      BY <2>2, <3>1
    <3> QED BY <3>2, <3>3 DEF Progress
  <2>4. ASSUME iteration[c] + 1 <= MaxIterations PROVE Progress(c)'
    <3>1. iteration'[c] \in 1..MaxIterations
      BY <1>1, <1>3, <2>4
    <3>2. pc'[c] = "infer" /\ outcome'[c] = "none"
      BY <1>1, <2>4
    <3>3. Len(wrote'[c]) = 2 * iteration'[c] - 1
      BY <2>2
    <3> QED BY <3>1, <3>2, <3>3 DEF Progress
  <2>5. LastKind(c)'
    BY <1>1, <1>2 DEF LastKind
  <2> QED BY <1>1, <1>3, <2>1, <2>3, <2>4, <2>5 DEF NoReplyYet, NothingBegun
<1>5. CallInv(c)'
  BY <1>2, <1>4 DEF CallInv
<1>6. \A d \in Calls \ {c} : wrote'[d] = wrote[d]
  BY <1>1, StoreAs DEF InsertResults, Inserting
<1>7. \A d \in Calls \ {c} :
        /\ pc'[d] = pc[d] /\ outcome'[d] = outcome[d]
        /\ iteration'[d] = iteration[d] /\ results'[d] = results[d]
        /\ ran'[d] = ran[d]
  BY DEF IInv, TypeOK, InsertResults, StartIteration, Goto, End
<1> QED BY <1>5, <1>6, <1>7, OthersKept

\* Loading the history begins the first round, if the budget has one.
LEMMA LoadHistoryInv ==
  ASSUME IInv, NEW c \in Calls, LoadHistory(c)
  PROVE  \A d \in Calls : CallInv(d)'
<1>1. /\ pc[c] = "load" /\ ran' = ran /\ wrote' = wrote
      /\ iteration'[c] = iteration[c] + 1 /\ iteration[c] = 0 /\ Len(wrote[c]) = 1
      /\ \/ /\ iteration[c] + 1 > MaxIterations
            /\ pc'[c] = "ended" /\ outcome'[c] = "max_iterations"
         \/ /\ iteration[c] + 1 <= MaxIterations
            /\ pc'[c] = "infer" /\ outcome'[c] = "none"
  BY DEF IInv, TypeOK, CallInv, Progress, LoadHistory, StartIteration, Goto, End
<1>2. CallInv(c)'
  BY <1>1 DEF IInv, CallInv, Progress, NoReplyYet, LastKind, NothingBegun, RanFor,
              RanInOrder, Before
<1> QED BY <1>1, <1>2, OthersKept
        DEF IInv, TypeOK, LoadHistory, StartIteration, Goto, End

\* The answer of the gateway changes neither log.
LEMMA InferInv ==
  ASSUME IInv, NEW c \in Calls, Infer(c)
  PROVE  \A d \in Calls : CallInv(d)'
<1>1. /\ pc[c] = "infer" /\ ran' = ran /\ wrote' = wrote /\ iteration' = iteration
      /\ pc'[c] \in {"insertReply", "insertToolUse"} /\ outcome'[c] = "none"
  BY DEF IInv, TypeOK, Infer, Goto
<1>2. CallInv(c)'
  BY <1>1 DEF IInv, CallInv, Progress, NoReplyYet, LastKind, NothingBegun, RanFor,
              RanInOrder, Before
<1> QED BY <1>1, <1>2, OthersKept DEF IInv, TypeOK, Infer, Goto

\* The tool that runs is later than all those that have run.
LEMMA RunToolInv ==
  ASSUME IInv, NEW c \in Calls, RunTool(c)
  PROVE  \A d \in Calls : CallInv(d)'
<1>1. /\ pc[c] = "tools" /\ wrote' = wrote /\ iteration' = iteration
      /\ outcome[c] = "none" /\ outcome'[c] = "none"
      /\ results'[c] = results[c] + 1 /\ results[c] \in Nat
      /\ pc'[c] \in {"tools", "insertResults"}
  BY DEF IInv, TypeOK, RunTool, Goto
<1>2. CallInv(c) /\ TypeOK
  BY DEF IInv
<1>3. /\ Len(ran'[c]) = Len(ran[c]) + 1
      /\ ran'[c][Len(ran[c]) + 1] = NextTool(c)
      /\ \A i \in 1..Len(ran[c]) : ran'[c][i] = ran[c][i]
      /\ Len(ran[c]) \in Nat
      /\ \A d \in Calls \ {c} : ran'[d] = ran[d]
      /\ RanInOrder(c)'
  BY <1>1, <1>2, AppendRan DEF RunTool
<1>4. /\ NextTool(c) = <<iteration[c], results[c] + 1>>
      /\ NextTool(c)' = <<iteration[c], results[c] + 2>>
      /\ iteration[c] \in 1..MaxIterations /\ Len(wrote[c]) = 2 * iteration[c]
      /\ wrote[c][2 * iteration[c]] = "toolUse"
  BY <1>1, <1>2 DEF NextTool, CallInv, Progress
<1>5. RanFor(c)'
  <2> SUFFICES ASSUME NEW i \in 1..Len(ran'[c])
               PROVE  /\ ran'[c][i][1] >= 1
                      /\ 2 * ran'[c][i][1] <= Len(wrote[c])
                      /\ wrote[c][2 * ran'[c][i][1]] = "toolUse"
                      /\ Before(ran'[c][i], NextTool(c)')
    BY <1>1 DEF RanFor, Before
  <2>1. CASE i = Len(ran[c]) + 1
    <3>1. ran'[c][i][1] = iteration[c] /\ ran'[c][i][2] = results[c] + 1
      BY <1>3, <1>4, <2>1
    <3>2. NextTool(c)'[1] = iteration[c] /\ NextTool(c)'[2] = results[c] + 2
      BY <1>4
    <3>3. Before(ran'[c][i], NextTool(c)')
      BY <1>1, <3>1, <3>2 DEF Before
    <3> QED BY <1>4, <3>1, <3>3
  <2>2. CASE i \in 1..Len(ran[c])
    <3>1. /\ ran[c][i][1] >= 1
          /\ 2 * ran[c][i][1] <= Len(wrote[c])
          /\ wrote[c][2 * ran[c][i][1]] = "toolUse"
          /\ Before(ran[c][i], NextTool(c))
      BY <1>1, <1>2, <2>2 DEF CallInv, RanFor
    <3>2. ran[c][i] \in Nat \X Nat
      BY <1>2, <2>2 DEF TypeOK
    <3>3. Before(ran[c][i], NextTool(c)')
      BY <1>1, <1>4, <3>1, <3>2 DEF Before
    <3> QED BY <1>3, <2>2, <3>1, <3>3
  <2> QED BY <1>3, <2>1, <2>2
<1>6. Progress(c)' /\ NoReplyYet(c)' /\ LastKind(c)' /\ NothingBegun(c)'
  BY <1>1, <1>2 DEF CallInv, Progress, NoReplyYet, LastKind, NothingBegun
<1>7. CallInv(c)'
  BY <1>3, <1>5, <1>6 DEF CallInv
<1> QED BY <1>1, <1>3, <1>7, OthersKept DEF IInv, TypeOK, RunTool, Goto

\* A fault ends the call: what it has stored and run is all there will be.
LEMMA StorageFaultInv ==
  ASSUME IInv, NEW c \in Calls, StorageFault(c)
  PROVE  \A d \in Calls : CallInv(d)'
<1>1. /\ pc'[c] = "ended" /\ outcome'[c] = "storage_error"
      /\ iteration' = iteration /\ ran' = ran /\ results' = results
      /\ \A d \in Calls \ {c} : pc'[d] = pc[d] /\ outcome'[d] = outcome[d]
  BY DEF IInv, TypeOK, StorageFault, End
<1>2. RanFor(c)' /\ RanInOrder(c)' /\ \A d \in Calls \ {c} : wrote'[d] = wrote[d]
  <2>1. CASE UNCHANGED <<storeVars, wrote>>
    <3>1. wrote' = wrote
      BY <2>1
    <3> QED BY <1>1, <3>1 DEF IInv, CallInv, RanFor, RanInOrder, Before
  <2>2. CASE pc[c] \in Inserting /\ Store(c)
    BY <1>1, <2>2, StoreAs
  <2> QED BY <2>1, <2>2 DEF StorageFault, StoreOrNot
<1>3. CallInv(c)'
  BY <1>1, <1>2 DEF CallInv, Progress, NoReplyYet, LastKind, NothingBegun
<1> QED BY <1>1, <1>2, <1>3, OthersKept

\* A gateway error ends the call with its last round complete.
LEMMA GatewayFaultInv ==
  ASSUME IInv, NEW c \in Calls, GatewayFault(c)
  PROVE  \A d \in Calls : CallInv(d)'
<1>1. /\ pc[c] = "infer" /\ pc'[c] = "ended" /\ outcome'[c] = "gateway_error"
      /\ iteration' = iteration /\ ran' = ran /\ results' = results /\ wrote' = wrote
      /\ \A d \in Calls \ {c} : pc'[d] = pc[d] /\ outcome'[d] = outcome[d]
  BY DEF IInv, TypeOK, GatewayFault, End
<1>2. CallInv(c)'
  BY <1>1 DEF IInv, CallInv, Progress, NoReplyYet, LastKind, NothingBegun, RanFor,
              RanInOrder, Before
<1> QED BY <1>1, <1>2, OthersKept

\* An abandoned call may have stored one message more, or run one tool more.
LEMMA AbandonInv ==
  ASSUME IInv, NEW c \in Calls, Abandon(c)
  PROVE  \A d \in Calls : CallInv(d)'
<1>1. /\ pc'[c] = "ended" /\ outcome'[c] = "abandoned"
      /\ iteration' = iteration /\ results' = results
      /\ \A d \in Calls \ {c} : pc'[d] = pc[d] /\ outcome'[d] = outcome[d]
  BY DEF IInv, TypeOK, Abandon, End
<1>2. /\ RanFor(c)' /\ RanInOrder(c)'
      /\ \A d \in Calls \ {c} : wrote'[d] = wrote[d] /\ ran'[d] = ran[d]
  <2>1. CASE wrote' = wrote /\ ran' = ran
    BY <1>1, <2>1 DEF IInv, CallInv, RanFor, RanInOrder, Before
  <2>2. CASE pc[c] \in Inserting /\ Store(c) /\ ran' = ran
    BY <1>1, <2>2, StoreAs
  <2>3. CASE /\ pc[c] = "tools" /\ wrote' = wrote
             /\ ran' = [ran EXCEPT ![c] = Append(@, NextTool(c))]
    <3>1. /\ Len(ran'[c]) = Len(ran[c]) + 1
          /\ ran'[c][Len(ran[c]) + 1] = NextTool(c)
          /\ \A i \in 1..Len(ran[c]) : ran'[c][i] = ran[c][i]
          /\ Len(ran[c]) \in Nat
          /\ \A d \in Calls \ {c} : ran'[d] = ran[d]
          /\ RanInOrder(c)'
      BY <2>3, AppendRan DEF IInv
    <3>2. /\ NextTool(c)[1] = iteration[c] /\ iteration[c] \in 1..MaxIterations
          /\ Len(wrote[c]) = 2 * iteration[c]
          /\ wrote[c][2 * iteration[c]] = "toolUse"
      BY <2>3 DEF NextTool, IInv, CallInv, Progress
    <3>3. \A i \in 1..Len(ran[c]) :
            /\ ran[c][i][1] >= 1
            /\ 2 * ran[c][i][1] <= Len(wrote[c])
            /\ wrote[c][2 * ran[c][i][1]] = "toolUse"
      BY DEF IInv, CallInv, RanFor
    <3>4. RanFor(c)'
      <4> SUFFICES ASSUME NEW i \in 1..Len(ran'[c])
                   PROVE  /\ ran'[c][i][1] >= 1
                          /\ 2 * ran'[c][i][1] <= Len(wrote[c])
                          /\ wrote[c][2 * ran'[c][i][1]] = "toolUse"
        BY <1>1, <2>3 DEF RanFor
      <4>1. CASE i = Len(ran[c]) + 1
        <5>1. ran'[c][i] = NextTool(c)
          BY <3>1, <4>1
        <5> QED BY <3>2, <5>1
      <4>2. CASE i \in 1..Len(ran[c])
        <5>1. ran'[c][i] = ran[c][i]
          BY <3>1, <4>2
        <5> QED BY <3>3, <4>2, <5>1
      <4> QED BY <3>1, <4>1, <4>2
    <3> QED BY <2>3, <3>1, <3>4
  <2> QED BY <2>1, <2>2, <2>3 DEF Abandon, StoreOrNot, Inserting
<1>3. CallInv(c)'
  BY <1>1, <1>2 DEF CallInv, Progress, NoReplyYet, LastKind, NothingBegun
<1>4. \A d \in Calls \ {c} : wrote'[d] = wrote[d] /\ ran'[d] = ran[d]
  BY <1>2
<1> QED BY <1>1, <1>3, <1>4, OthersKept

\* The invariant every safety theorem below rests on.
THEOREM Inductive == Spec => []IInv
<1>1. Init => IInv
  <2>1. Init => TypeOK
    BY DEF Init, TypeOK, Running, Outcomes, Kinds
  <2>2. ASSUME Init, NEW c \in Calls PROVE CallInv(c)
    BY <2>2 DEF Init, CallInv, Progress, NoReplyYet, LastKind, NothingBegun, RanFor,
                RanInOrder
  <2> QED BY <2>1, <2>2 DEF IInv
<1>2. IInv /\ TypeOK' /\ [Next]_vars => IInv'
  <2> SUFFICES ASSUME IInv, [Next]_vars PROVE \A d \in Calls : CallInv(d)'
    BY DEF IInv
  <2>1. ASSUME NEW c \in Calls, Step(c) PROVE \A d \in Calls : CallInv(d)'
    BY <2>1, BeginInv, InsertUserInv, LoadHistoryInv, InferInv, InsertReplyInv,
       InsertToolUseInv, RunToolInv, InsertResultsInv DEF Step
  <2>2. ASSUME NEW c \in Calls, Fault(c) PROVE \A d \in Calls : CallInv(d)'
    BY <2>2, StorageFaultInv, GatewayFaultInv, AbandonInv DEF Fault
  <2>3. CASE EditThread \/ UNCHANGED vars
    <3> SUFFICES ASSUME NEW d \in Calls PROVE CallInv(d)'
      OBVIOUS
    <3>1. CallInv(d) /\ UNCHANGED callVars
      BY <2>3 DEF IInv, EditThread, vars
    <3> QED BY <3>1, Frame DEF callVars
  <2> QED BY <2>1, <2>2, <2>3 DEF Next
<1> QED BY <1>1, <1>2, TypeCorrect, PTL DEF Spec

\* A tool never has an effect that no stored request accounts for.
THEOREM RequestsComeFirst == Spec => []RequestBeforeTools
<1>1. IInv => RequestBeforeTools
  BY DEF IInv, CallInv, RanFor, RequestBeforeTools
<1> QED BY <1>1, Inductive, PTL

\* No tool call is run twice or out of order.
THEOREM ToolsOnce == Spec => []ToolsRunOnceInOrder
<1>1. IInv => ToolsRunOnceInOrder
  BY DEF IInv, CallInv, RanInOrder, ToolsRunOnceInOrder
<1> QED BY <1>1, Inductive, PTL

\* Only a storage fault or a crash leaves a request for tools unanswered.
THEOREM UnansweredOnlyByFault == Spec => []UnansweredIsExplained
<1>1. IInv => UnansweredIsExplained
  <2> SUFFICES ASSUME IInv, NEW c \in Calls, wrote[c] # <<>>,
                      wrote[c][Len(wrote[c])] = "toolUse"
               PROVE  \/ pc[c] \in {"tools", "insertResults"}
                      \/ outcome[c] \in {"storage_error", "abandoned"}
    BY DEF UnansweredIsExplained
  <2>1. Len(wrote[c]) > 0 /\ wrote[c] \in Seq(Kinds)
    BY DEF IInv, TypeOK
  <2>2. CallInv(c) /\ TypeOK
    BY DEF IInv
  <2>3. pc[c] # "idle" /\ pc[c] # "insertUser" /\ outcome[c] # "thread_not_found"
    BY <2>1, <2>2 DEF CallInv, Progress, NothingBegun
  <2>4. /\ pc[c] \notin {"load", "infer", "insertToolUse", "insertReply"}
        /\ outcome[c] \notin {"ok", "gateway_error", "max_iterations"}
    BY <2>2 DEF CallInv, LastKind
  <2> QED BY <2>2, <2>3, <2>4 DEF TypeOK, Running, Inserting, Outcomes
<1> QED BY <1>1, Inductive, PTL

\* A call that reports a spent budget has stored every round of it.
THEOREM BudgetSpentInFull == Spec => []BudgetIsSpent
<1>1. IInv => BudgetIsSpent
  BY DEF IInv, CallInv, Progress, NoReplyYet, BudgetIsSpent
<1> QED BY <1>1, Inductive, PTL
=============================================================================
