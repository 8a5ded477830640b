-------------------------- MODULE AgentHistoryProofs --------------------------
(* Theorems about the history that the calls of AgentChat leave in a thread and *)
(* read from it, for every value of the constants.                              *)
EXTENDS AgentChatProofs

USE BudgetAssumption, BatchAssumption, ClockAssumption, EditsAssumption

(***************************************************************************)
(* What the rows of a thread say of the calls that have stored them.       *)
(***************************************************************************)
Row(m) ==
  /\ m.pos \in 1..Len(wrote[m.call]) /\ m.kind = wrote[m.call][m.pos]
  /\ m.thread = on[m.call] /\ m.at =< stamp[m.call]

Unique == \A m, n \in messages : Id(m) = Id(n) => m = n

\* Two stamps in the order of the code, or equal if the clock may stand still.
Later(a, b) == a < b \/ (0 \in ClockSteps /\ a = b)

\* The message a call is about to store is later than all that its own turn, and
\* the calls that had ended before it, have stored.
DraftLater(c) ==
  pc[c] \in Inserting => \A m \in messages :
    m.call = c \/ m.call \in before[c] => Later(m.at, stamp[c])

HistoryInv ==
  /\ \A m \in messages : Row(m)
  /\ Unique
  /\ \A c \in Calls : stamp[c] =< clock /\ DraftLater(c)
  /\ \A c \in Calls : \A d \in before[c] : pc[d] = "ended"
  /\ StoredOrder

(***************************************************************************)
(* The tools of a round: which have run, and how many there are.           *)
(***************************************************************************)
Ran(c, n, k) == \E i \in 1..Len(ran[c]) : ran[c][i] = <<n, k>>

Round(c) ==
  /\ pc[c] = "insertToolUse" => batch[c] > 0 /\ \A k \in Nat : ~ Ran(c, iteration[c], k)
  /\ pc[c] = "tools" => results[c] < batch[c]
  /\ pc[c] = "insertResults" => results[c] = batch[c] /\ batch[c] > 0
                                /\ ran[c] # <<>> /\ ran[c][Len(ran[c])][1] = iteration[c]
  /\ pc[c] \in {"tools", "insertResults"} =>
       \A k \in Nat : Ran(c, iteration[c], k) <=> k \in 1..results[c]

\* A request has the size of the response in hand, results that of the tools that
\* ran in their round.
Answers(m) ==
  /\ pc[m.call] \in {"tools", "insertResults"} /\ m.pos = Len(wrote[m.call]) => m.n = batch[m.call]
  /\ m.kind = "toolResult" =>
       \E x \in Nat \ {0} : m.pos = 2 * x + 1 /\ \A k \in Nat : Ran(m.call, x, k) <=> k \in 1..m.n

AnswerInv ==
  /\ \A c \in Calls : Round(c)
  /\ \A m \in messages : Answers(m)
  /\ \A r, u \in messages : r.kind = "toolResult" /\ Id(u) = <<r.call, r.pos - 1>> => r.n = u.n
-----------------------------------------------------------------------------
(* What a step does to what the history depends on. *)

\* The call's part of the state that no other call changes.
SameCall(d) ==
  /\ pc'[d] = pc[d] /\ outcome'[d] = outcome[d] /\ iteration'[d] = iteration[d]
  /\ batch'[d] = batch[d] /\ results'[d] = results[d] /\ stamp'[d] = stamp[d]
  /\ context'[d] = context[d] /\ wrote'[d] = wrote[d] /\ ran'[d] = ran[d]
  /\ before'[d] = before[d]

Stores(c) ==
  /\ pc[c] \in Inserting /\ messages' = messages \union {Draft(c)}
  /\ wrote' = [wrote EXCEPT ![c] = Append(@, KindAt[pc[c]])]
  /\ pc'[c] \notin Inserting /\ UNCHANGED <<clock, stamp, before>>

\* A call stores at most one message, which it has built with the step before; it
\* looks at the calls that have ended only when it begins, and at its thread only
\* when it loads the history.
LEMMA CallStep ==
  ASSUME IInv, NEW c \in Calls, Step(c) \/ Fault(c)
  PROVE  /\ pc[c] # "ended" /\ pc'[c] # "idle" /\ UNCHANGED on
         /\ \A d \in Calls \ {c} : SameCall(d)
         /\ UNCHANGED <<messages, wrote>> \/ Stores(c)
         /\ \/ UNCHANGED <<clock, stamp>> /\ pc'[c] \notin Inserting
            \/ BuildMessage(c) /\ UNCHANGED <<messages, wrote>>
         /\ \/ UNCHANGED before
            \/ pc[c] = "idle" /\ before' = [before EXCEPT ![c] = {d \in Calls : pc[d] = "ended"}]
         /\ \/ UNCHANGED context /\ (iteration'[c] > 0 => iteration[c] > 0)
            \/ /\ pc[c] = "load" /\ UNCHANGED <<messages, wrote>>
               /\ context' = [context EXCEPT ![c] = GetThreadMessages(on[c])]
<1>0. TypeOK
  BY DEF IInv
<1> USE <1>0 DEF TypeOK, SameCall
<1>1. CASE Begin(c)
  <2>1. /\ pc[c] = "idle" /\ pc'[c] # "idle"
        /\ UNCHANGED <<messages, wrote, on, iteration, batch, results, context, ran>>
        /\ before' = [before EXCEPT ![c] = {d \in Calls : pc[d] = "ended"}]
    BY <1>1 DEF Begin, Goto, End, storeVars
  <2>2. \/ UNCHANGED <<clock, stamp>> /\ pc'[c] \notin Inserting
        \/ BuildMessage(c)
    BY <1>1 DEF Begin, End, Inserting
  <2>3. \A d \in Calls \ {c} : pc'[d] = pc[d] /\ outcome'[d] = outcome[d] /\ stamp'[d] = stamp[d]
    BY <1>1 DEF Begin, Goto, End, BuildMessage
  <2> QED BY <2>1, <2>2, <2>3
<1>2. CASE InsertUser(c)
  BY <1>2 DEF InsertUser, Store, CreateMessage, Goto, Stores, Inserting
<1>3. CASE LoadHistory(c)
  <2>1. /\ pc[c] = "load" /\ context' = [context EXCEPT ![c] = GetThreadMessages(on[c])]
        /\ UNCHANGED <<messages, wrote, clock, stamp, before, on, batch, results, ran>>
        /\ StartIteration(c)
    BY <1>3 DEF LoadHistory, storeVars
  <2> QED BY <2>1 DEF StartIteration, Goto, End, Inserting
<1>4. CASE Infer(c)
  <2>1. /\ pc[c] = "infer" /\ BuildMessage(c) /\ pc'[c] # "idle"
        /\ UNCHANGED <<messages, wrote, before, on, iteration, results, context, ran>>
    BY <1>4 DEF Infer, storeVars, Goto
  <2>2. \A d \in Calls \ {c} : /\ pc'[d] = pc[d] /\ outcome'[d] = outcome[d] /\ batch'[d] = batch[d]
                               /\ stamp'[d] = stamp[d]
    BY <1>4 DEF Infer, Goto, BuildMessage
  <2> QED BY <2>1, <2>2
<1>5. CASE InsertReply(c)
  BY <1>5 DEF InsertReply, Store, CreateMessage, End, Stores, Inserting
<1>6. CASE InsertToolUse(c)
  BY <1>6 DEF InsertToolUse, Store, CreateMessage, Goto, Stores, Inserting
<1>7. CASE RunTool(c)
  <2>1. /\ pc[c] = "tools" /\ pc'[c] # "idle"
        /\ UNCHANGED <<messages, wrote, before, on, iteration, batch, context>>
        /\ \/ UNCHANGED <<clock, stamp>> /\ pc'[c] \notin Inserting
           \/ BuildMessage(c)
    BY <1>7 DEF RunTool, storeVars, Goto, Inserting
  <2>2. \A d \in Calls \ {c} : /\ pc'[d] = pc[d] /\ outcome'[d] = outcome[d] /\ results'[d] = results[d]
                               /\ stamp'[d] = stamp[d] /\ ran'[d] = ran[d]
    BY <1>7 DEF RunTool, Goto, BuildMessage
  <2> QED BY <2>1, <2>2
<1>8. CASE InsertResults(c)
  <2>1. /\ pc[c] = "insertResults" /\ Store(c) /\ StartIteration(c) /\ pc[c] \in Inserting
        /\ UNCHANGED <<clock, stamp, before, on, batch, results, context, ran>>
    BY <1>8 DEF InsertResults, Inserting
  <2>2. pc'[c] \in {"ended", "infer"} /\ \A d \in Calls \ {c} :
          pc'[d] = pc[d] /\ outcome'[d] = outcome[d] /\ iteration'[d] = iteration[d]
    BY <2>1 DEF StartIteration, Goto, End
  <2>3. Stores(c) /\ \A d \in Calls \ {c} : wrote'[d] = wrote[d]
    BY <2>1, <2>2 DEF Store, CreateMessage, Stores, Inserting
  <2>4. iteration[c] > 0
    BY <2>1 DEF IInv, CallInv, Progress
  <2>5. pc[c] # "ended" /\ pc'[c] # "idle" /\ pc'[c] \notin Inserting
    BY <2>1, <2>2 DEF Inserting
  <2> QED BY <2>1, <2>2, <2>3, <2>4, <2>5
<1>9. CASE StorageFault(c)
  <2>1. /\ pc[c] \in Inserting \union {"idle", "load"} /\ StoreOrNot(c) /\ End(c, "storage_error")
        /\ UNCHANGED <<clock, stamp, before, on, iteration, batch, results, context, ran>>
    BY <1>9 DEF StorageFault
  <2>2. pc'[c] = "ended" /\ \A d \in Calls \ {c} : pc'[d] = pc[d] /\ outcome'[d] = outcome[d]
    BY <2>1 DEF End
  <2>3. /\ UNCHANGED <<messages, wrote>> \/ Stores(c)
        /\ \A d \in Calls \ {c} : wrote'[d] = wrote[d]
    BY <2>1, <2>2 DEF StoreOrNot, Store, CreateMessage, Stores, Inserting, storeVars
  <2> QED BY <2>1, <2>2, <2>3 DEF Inserting
<1>10. CASE GatewayFault(c)
  BY <1>10 DEF GatewayFault, End, storeVars, Inserting
<1>11. CASE Abandon(c)
  <2>1. /\ pc[c] \in Running /\ StoreOrNot(c) /\ End(c, "abandoned")
        /\ \/ UNCHANGED ran
           \/ ran' = [ran EXCEPT ![c] = Append(@, NextTool(c))]
        /\ UNCHANGED <<clock, stamp, before, on, iteration, batch, results, context>>
    BY <1>11 DEF Abandon
  <2>2. /\ pc'[c] = "ended"
        /\ \A d \in Calls \ {c} : pc'[d] = pc[d] /\ outcome'[d] = outcome[d] /\ ran'[d] = ran[d]
    BY <2>1 DEF End
  <2>3. /\ UNCHANGED <<messages, wrote>> \/ Stores(c)
        /\ \A d \in Calls \ {c} : wrote'[d] = wrote[d]
    BY <2>1, <2>2 DEF StoreOrNot, Store, CreateMessage, Stores, Inserting, storeVars
  <2> QED BY <2>1, <2>2, <2>3 DEF Running, Inserting
<1> QED BY <1>1, <1>2, <1>3, <1>4, <1>5, <1>6, <1>7, <1>8, <1>9, <1>10, <1>11 DEF Step, Fault

\* An edit of the application only removes rows.
LEMMA EditStep ==
  ASSUME EditThread \/ UNCHANGED vars
  PROVE  messages' \subseteq messages /\ UNCHANGED <<clock, callVars>>
BY DEF EditThread, Edit, DeleteThread, DeleteMessage, DeleteMessagesAfter, vars, storeVars
\* What storing a message adds to the rows and to the log of its call.
LEMMA StoresRow ==
  ASSUME IInv, NEW c \in Calls, Stores(c), UNCHANGED on
  PROVE  /\ Draft(c) \in messages' /\ Draft(c).call = c /\ Draft(c).pos = Len(wrote[c]) + 1
         /\ Draft(c).at = stamp[c] /\ Draft(c).kind = KindAt[pc[c]] /\ Draft(c).thread = on[c]
         /\ Len(wrote[c]) \in Nat /\ Len(wrote'[c]) = Len(wrote[c]) + 1
         /\ wrote'[c][Len(wrote[c]) + 1] = KindAt[pc[c]]
         /\ \A i \in 1..Len(wrote[c]) : wrote'[c][i] = wrote[c][i]
         /\ \A d \in Calls \ {c} : wrote'[d] = wrote[d]
<1>1. KindAt[pc[c]] \in Kinds
  BY DraftType DEF IInv, Stores
<1>2. /\ Len(wrote'[c]) = Len(wrote[c]) + 1
      /\ wrote'[c][Len(wrote[c]) + 1] = KindAt[pc[c]]
      /\ \A i \in 1..Len(wrote[c]) : wrote'[c][i] = wrote[c][i]
      /\ Len(wrote[c]) \in Nat
      /\ \A d \in Calls \ {c} : wrote'[d] = wrote[d]
  BY <1>1, AppendKind DEF IInv, Stores
<1> QED BY <1>2 DEF Stores, Draft

\* The clock stands still only if it may.
LEMMA LaterIs == ASSUME NEW a \in Nat, NEW d \in ClockSteps, NEW b \in Nat, a =< b
                 PROVE  Later(a, b + d)
<1>1. d \in Nat
  OBVIOUS
<1> QED BY <1>1 DEF Later

\* The rows are those of the logs, in the order of the stamps.
THEOREM HistoryInvariant == Spec => []HistoryInv
<1>1. Init => HistoryInv
  BY DEF Init, HistoryInv, Unique, DraftLater, StoredOrder, Inserting
<1>2. IInv /\ IInv' /\ HistoryInv /\ [Next]_vars => HistoryInv'
  <2> SUFFICES ASSUME IInv, IInv', HistoryInv, [Next]_vars PROVE HistoryInv'
    OBVIOUS
  <2>0. /\ messages \subseteq Message /\ clock \in Nat /\ stamp \in [Calls -> Nat]
        /\ \A m \in messages : m.call \in Calls /\ m.pos \in Nat /\ m.at \in Nat
        /\ before \in [Calls -> SUBSET Calls]
    BY DEF IInv, TypeOK, Message
  <2>1. CASE EditThread \/ UNCHANGED vars
    <3>1. messages' \subseteq messages /\ UNCHANGED <<clock, callVars>>
      BY <2>1, EditStep
    <3> QED BY <3>1 DEF callVars, HistoryInv, Row, Unique, DraftLater, StoredOrder, Later
  <2>2. ASSUME NEW c \in Calls, Step(c) \/ Fault(c), UNCHANGED <<messages, wrote>> PROVE HistoryInv'
    <3>1. /\ pc[c] # "ended" /\ UNCHANGED on /\ \A d \in Calls \ {c} : SameCall(d)
          /\ \/ UNCHANGED <<clock, stamp>> /\ pc'[c] \notin Inserting
             \/ BuildMessage(c) /\ UNCHANGED <<messages, wrote>>
          /\ \/ UNCHANGED before
             \/ pc[c] = "idle" /\ before' = [before EXCEPT ![c] = {d \in Calls : pc[d] = "ended"}]
      BY <2>2, CallStep
    <3>2. clock =< clock' /\ clock' \in Nat /\ stamp'[c] \in Nat /\ stamp[c] =< stamp'[c] /\ stamp'[c] =< clock'
      <4>1. stamp[c] =< clock /\ stamp[c] \in Nat
        BY <2>0 DEF HistoryInv
      <4>2. CASE UNCHANGED <<clock, stamp>>
        BY <2>0, <4>1, <4>2
      <4>3. CASE BuildMessage(c)
        <5>1. PICK d \in ClockSteps : clock' = clock + d /\ stamp' = [stamp EXCEPT ![c] = clock + d]
          BY <4>3 DEF BuildMessage
        <5>2. d \in Nat /\ stamp'[c] = clock + d
          BY <2>0, <5>1
        <5> QED BY <2>0, <4>1, <5>1, <5>2
      <4> QED BY <3>1, <4>2, <4>3
    <3>3. ASSUME NEW m \in messages PROVE Row(m)'
      <4>1. stamp[m.call] =< stamp'[m.call]
        BY <2>0, <3>1, <3>2 DEF SameCall
      <4>2. stamp[m.call] \in Nat /\ stamp'[m.call] \in Nat /\ m.at \in Nat
        BY <2>0, <3>1, <3>2 DEF SameCall
      <4> QED BY <2>2, <3>1, <4>1, <4>2 DEF HistoryInv, Row
    <3>4. ASSUME NEW d \in Calls PROVE stamp'[d] =< clock' /\ DraftLater(d)'
      <4>1. CASE d # c
        <5>1. /\ SameCall(d) /\ stamp[d] =< clock /\ stamp[d] \in Nat
          BY <2>0, <3>1, <4>1 DEF HistoryInv
        <5> QED BY <2>0, <2>2, <3>2, <5>1 DEF HistoryInv, DraftLater, SameCall, Later
      <4>2. CASE d = c /\ pc'[c] \in Inserting
        <5>1. PICK x \in ClockSteps : stamp'[c] = clock + x
          BY <2>0, <3>1, <4>2 DEF BuildMessage
        <5>2. \A m \in messages : m.at =< clock
          BY <2>0 DEF HistoryInv, Row
        <5>3. \A m \in messages : Later(m.at, stamp'[c])
          BY <2>0, <5>1, <5>2, LaterIs
        <5> QED BY <2>2, <3>2, <4>2, <5>3 DEF DraftLater, Later
      <4>3. CASE d = c /\ pc'[c] \notin Inserting
        BY <3>2, <4>3 DEF DraftLater
      <4> QED BY <4>1, <4>2, <4>3
    <3>5. ASSUME NEW d \in Calls, NEW e \in before'[d] PROVE pc'[e] = "ended"
      <4>1. e \in Calls /\ pc[e] = "ended"
        BY <2>0, <3>1, <3>5 DEF HistoryInv
      <4> QED BY <3>1, <4>1 DEF SameCall
    <3>6. StoredOrder'
      <4>1. ASSUME NEW m \in messages, NEW n \in messages, m.call \in before'[n.call]
            PROVE  m.call \in before[n.call]
        <5>1. CASE before' = [before EXCEPT ![c] = {d \in Calls : pc[d] = "ended"}] /\ pc[c] = "idle"
          <6>1. n.call # c
            <7>1. Len(wrote[c]) = 0
              BY <5>1 DEF IInv, CallInv, Progress
            <7> QED BY <2>0, <7>1 DEF HistoryInv, Row
          <6> QED BY <2>0, <4>1, <5>1, <6>1
        <5> QED BY <3>1, <4>1, <5>1
      <4> QED BY <2>2, <4>1 DEF HistoryInv, StoredOrder
    <3> QED BY <2>2, <3>3, <3>4, <3>5, <3>6 DEF HistoryInv, Unique
  <2>3. ASSUME NEW c \in Calls, Step(c) \/ Fault(c), Stores(c) PROVE HistoryInv'
    <3>0. PICK r : r = Draft(c)
      OBVIOUS
    <3>1. /\ pc[c] # "ended" /\ UNCHANGED on /\ \A d \in Calls \ {c} : SameCall(d)
          /\ UNCHANGED <<clock, stamp, before>> /\ pc'[c] \notin Inserting /\ pc[c] \in Inserting
          /\ messages' = messages \union {r}
      BY <2>3, <3>0, CallStep DEF Stores
    <3>2. /\ r.call = c /\ r.pos = Len(wrote[c]) + 1 /\ r.at = stamp[c] /\ r.kind = KindAt[pc[c]]
          /\ r.thread = on[c]
          /\ Len(wrote[c]) \in Nat /\ Len(wrote'[c]) = Len(wrote[c]) + 1
          /\ wrote'[c][Len(wrote[c]) + 1] = KindAt[pc[c]]
          /\ \A i \in 1..Len(wrote[c]) : wrote'[c][i] = wrote[c][i]
          /\ \A d \in Calls \ {c} : wrote'[d] = wrote[d]
      BY <2>3, <3>0, <3>1, StoresRow
    <3>3. Row(r)'
      BY <2>0, <3>1, <3>2 DEF Row
    <3>4. ASSUME NEW m \in messages PROVE Row(m)' /\ (m.call = c => m.pos =< Len(wrote[c]))
      <4>1. Row(m)
        BY DEF HistoryInv
      <4>2. CASE m.call = c
        BY <3>1, <3>2, <4>1, <4>2 DEF Row
      <4>3. CASE m.call # c
        <5>1. wrote'[m.call] = wrote[m.call]
          BY <2>0, <3>2, <4>3
        <5> QED BY <3>1, <4>1, <4>3, <5>1 DEF Row
      <4> QED BY <4>2, <4>3
    <3>5. Unique'
      <4>1. \A m \in messages : Id(m) # Id(r)
        BY <2>0, <3>2, <3>4 DEF Id
      <4> QED BY <3>1, <4>1 DEF HistoryInv, Unique
    <3>6. ASSUME NEW d \in Calls PROVE stamp'[d] =< clock' /\ DraftLater(d)'
      <4>1. CASE d = c
        BY <3>1, <4>1 DEF HistoryInv, DraftLater
      <4>2. CASE d # c
        <5>1. SameCall(d) /\ c \notin before[d] /\ stamp[d] =< clock /\ DraftLater(d)
          BY <3>1, <4>2 DEF HistoryInv
        <5> QED BY <3>1, <3>2, <4>2, <5>1 DEF DraftLater, SameCall, Later
      <4> QED BY <4>1, <4>2
    <3>7. ASSUME NEW d \in Calls, NEW e \in before'[d] PROVE pc'[e] = "ended"
      <4>1. e \in Calls /\ pc[e] = "ended"
        BY <2>0, <3>1, <3>7 DEF HistoryInv
      <4> QED BY <3>1, <4>1 DEF SameCall
    <3>8. StoredOrder'
      <4> SUFFICES ASSUME NEW m \in messages', NEW n \in messages',
                          (m.call = n.call /\ m.pos < n.pos) \/ m.call \in before[n.call]
                   PROVE  Later(m.at, n.at)
        BY <3>1 DEF StoredOrder, Later
      <4>1. CASE m \in messages /\ n \in messages
        BY <4>1 DEF HistoryInv, StoredOrder, Later
      <4>2. CASE m \in messages /\ n = r
        BY <3>1, <3>2, <4>2 DEF HistoryInv, DraftLater
      <4>3. CASE m = r
        <5>1. c \notin before[n.call]
          <6>1. n.call \in Calls
            BY <2>0, <3>1, <3>2
          <6> QED BY <3>1, <6>1 DEF HistoryInv
        <5>2. n.call = c /\ r.pos < n.pos
          BY <3>2, <4>3, <5>1
        <5>3. n \in messages => FALSE
          BY <2>0, <3>2, <3>4, <5>2
        <5> QED BY <2>0, <3>1, <3>2, <5>2, <5>3
      <4> QED BY <3>1, <4>1, <4>2, <4>3
    <3> QED BY <3>1, <3>3, <3>4, <3>5, <3>6, <3>7, <3>8 DEF HistoryInv
  <2> QED BY <2>1, <2>2, <2>3, CallStep DEF Next
<1> QED BY <1>1, <1>2, Inductive, PTL DEF Spec

\* The rows of a thread are in the order in which they were stored, those of one call
\* and those of calls that followed one another.
THEOREM OrderKept == Spec => []StoredOrder
<1>1. HistoryInv => StoredOrder
  BY DEF HistoryInv
<1> QED BY <1>1, HistoryInvariant, PTL
-----------------------------------------------------------------------------
(* Edit and resubmit. *)

\* Of the rows of the thread, going back to a message leaves those not later.
LEMMA Rewound ==
  ASSUME HistoryInv, NEW m \in messages, DeleteMessagesAfter(m.thread, Id(m)),
         NEW x \in messages, x.thread = m.thread, x.at \in Nat, m.at \in Nat
  PROVE  x \in messages' <=> x.at =< m.at
<1>1. x \in After(m.thread, Id(m)) <=> x.at > m.at
  BY DEF After, GetThreadMessages, HistoryInv, Unique
<1> QED BY <1>1 DEF DeleteMessagesAfter

\* Two rows of one thread that are stored one after the other by one call have
\* between them no row of a thread whose calls follow one another.
LEMMA Between ==
  ASSUME IInv, HistoryInv, NEW x \in messages, NEW y \in messages, NEW m \in messages,
         Id(y) = <<x.call, x.pos + 1>>, m.thread = x.thread, OneAtATime(x.thread),
         x.at < m.at
  PROVE  y.at =< m.at
<1>1. /\ \A z \in messages : z.call \in Calls /\ z.pos \in Nat /\ z.at \in Nat /\ Row(z)
      /\ y.call = x.call /\ y.pos = x.pos + 1
  BY DEF IInv, TypeOK, Message, HistoryInv, Id
<1>2. \A z \in messages : Started(z.call) /\ on[z.call] = z.thread
  <2> SUFFICES ASSUME NEW z \in messages PROVE pc[z.call] # "idle" /\ on[z.call] = z.thread
    BY DEF Started
  <2>1. z.call \in Calls /\ z.pos \in 1..Len(wrote[z.call]) /\ on[z.call] = z.thread
    BY <1>1 DEF Row
  <2>2. Len(wrote[z.call]) # 0
    BY <2>1
  <2> QED BY <2>1, <2>2 DEF IInv, CallInv, Progress
<1>3. CASE m.call = x.call
  <2>1. CASE m.pos < x.pos
    BY <1>1, <1>3, <2>1 DEF HistoryInv, StoredOrder
  <2>2. CASE m.pos = x.pos
    BY <1>1, <1>3, <2>2 DEF HistoryInv, Unique, Id
  <2>3. CASE m.pos = x.pos + 1
    BY <1>1, <1>3, <2>3 DEF HistoryInv, Unique, Id
  <2>4. CASE m.pos > x.pos + 1
    BY <1>1, <1>3, <2>4 DEF HistoryInv, StoredOrder
  <2> QED BY <1>1, <2>1, <2>2, <2>3, <2>4
<1>4. CASE m.call # x.call
  <2>1. m.call \in before[x.call] \/ x.call \in before[m.call]
    BY <1>1, <1>2, <1>4 DEF OneAtATime
  <2>2. CASE m.call \in before[x.call]
    BY <1>1, <2>2 DEF HistoryInv, StoredOrder
  <2>3. CASE x.call \in before[m.call]
    BY <1>1, <2>3 DEF HistoryInv, StoredOrder
  <2> QED BY <2>1, <2>2, <2>3
<1> QED BY <1>3, <1>4

\* Going back to a message other than a request for tools keeps requests and results
\* together, in a thread whose calls have followed one another.
THEOREM RewindSafe == Spec => RewindKeepsPairs
<1>1. ASSUME IInv, HistoryInv, NEW m \in messages, DeleteMessagesAfter(m.thread, Id(m)),
             m.kind # "toolUse", OneAtATime(m.thread), NoTies(m.thread), Paired(m.thread)
      PROVE  Paired(m.thread)'
  <2>0. /\ \A z \in messages : z.call \in Calls /\ z.pos \in Nat /\ z.at \in Nat
        /\ messages' \subseteq messages
    BY <1>1 DEF IInv, TypeOK, Message, DeleteMessagesAfter
  <2> SUFFICES ASSUME NEW x \in messages', x.thread = m.thread
               PROVE  /\ x.kind = "toolUse" => \E y \in messages' : Id(y) = <<x.call, x.pos + 1>>
                      /\ x.kind = "toolResult" => \E y \in messages' : Id(y) = <<x.call, x.pos - 1>>
    BY DEF Paired, Stored, GetThreadMessages
  <2>1. x \in messages /\ x.at =< m.at
    BY <1>1, <2>0, Rewound
  <2>2. /\ x.kind = "toolUse" => \E y \in messages : Id(y) = <<x.call, x.pos + 1>>
        /\ x.kind = "toolResult" => \E y \in messages : Id(y) = <<x.call, x.pos - 1>>
    BY <1>1, <2>1 DEF Paired, Stored, GetThreadMessages
  <2>3. ASSUME NEW y \in messages, y.call = x.call PROVE y.thread = m.thread
    BY <1>1, <2>1, <2>3 DEF HistoryInv, Row
  <2>4. ASSUME x.kind = "toolUse" PROVE \E y \in messages' : Id(y) = <<x.call, x.pos + 1>>
    <3>1. PICK y \in messages : Id(y) = <<x.call, x.pos + 1>>
      BY <2>2, <2>4
    <3>2. x # m /\ x.at # m.at
      BY <1>1, <2>1, <2>4 DEF NoTies, GetThreadMessages
    <3>3. x.at < m.at
      BY <2>0, <2>1, <3>2
    <3>4. y.at =< m.at
      BY <1>1, <2>1, <3>1, <3>3, Between
    <3>5. y.thread = m.thread
      BY <2>3, <3>1 DEF Id
    <3> QED BY <1>1, <2>0, <3>1, <3>4, <3>5, Rewound
  <2>5. ASSUME x.kind = "toolResult" PROVE \E y \in messages' : Id(y) = <<x.call, x.pos - 1>>
    <3>1. PICK y \in messages : Id(y) = <<x.call, x.pos - 1>>
      BY <2>2, <2>5
    <3>2. y.call = x.call /\ y.pos = x.pos - 1 /\ y.thread = m.thread
      BY <2>3, <3>1 DEF Id
    <3>3. y.at =< x.at
      BY <1>1, <2>0, <2>1, <3>2 DEF HistoryInv, StoredOrder
    <3>4. y.at =< m.at
      BY <2>0, <2>1, <3>3
    <3> QED BY <1>1, <2>0, <3>1, <3>2, <3>4, Rewound
  <2> QED BY <2>4, <2>5
<1>2. IInv /\ HistoryInv /\ [Next]_vars =>
        [\A m \in messages :
           /\ DeleteMessagesAfter(m.thread, Id(m))
           /\ m.kind # "toolUse"
           /\ Quiet(m.thread) /\ OneAtATime(m.thread)
           /\ NoTies(m.thread) /\ Paired(m.thread)
           => Paired(m.thread)']_vars
  BY <1>1
<1> QED BY <1>2, Inductive, HistoryInvariant, PTL DEF Spec, RewindKeepsPairs

-----------------------------------------------------------------------------
(* The memory of a conversation. *)

\* What a call has loaded as history holds the message it was called with, and the
\* whole of each turn that had succeeded on its thread when it began and is still there.
THEOREM TurnsRemembered == Spec => []WholeTurnsInHistory
<1> DEFINE Own(c) == Stored(<<c, 1>>) => \E m \in context[c] : Id(m) = <<c, 1>>
           Turn(d) == {<<d, i>> : i \in 1..Len(wrote[d])}
           Whole(c, d) == outcome[d] = "ok" /\ on[d] = on[c] /\ (\A id \in Turn(d) : Stored(id)) =>
                            Turn(d) = {Id(m) : m \in {x \in context[c] : x.call = d}}
           Memory(c) == iteration[c] > 0 => Own(c) /\ \A d \in before[c] : Whole(c, d)
<1>0. WholeTurnsInHistory <=> \A c \in Calls : Memory(c)
  BY DEF WholeTurnsInHistory
<1>1. Init => WholeTurnsInHistory
  BY DEF Init, WholeTurnsInHistory
<1>2. IInv /\ HistoryInv /\ WholeTurnsInHistory /\ [Next]_vars => WholeTurnsInHistory'
  <2> SUFFICES ASSUME IInv, HistoryInv, WholeTurnsInHistory, [Next]_vars PROVE WholeTurnsInHistory'
    OBVIOUS
  <2>0. TypeOK /\ \A m \in messages : Row(m) /\ m.call \in Calls /\ m.pos \in Nat
    BY DEF IInv, TypeOK, HistoryInv, Message
  <2>1. \A d \in Calls : \A e \in before[d] : e \in Calls /\ pc[e] = "ended"
    BY <2>0 DEF TypeOK, HistoryInv
  \* A call that keeps its history, while rows are removed or stored by another.
  <2>2. ASSUME NEW c \in Calls, context'[c] = context[c], before'[c] = before[c], UNCHANGED on,
               iteration'[c] > 0 => iteration[c] > 0,
               Stored(<<c, 1>>)' => Stored(<<c, 1>>),
               \A d \in before[c] : /\ wrote'[d] = wrote[d] /\ outcome'[d] = outcome[d]
                                    /\ \A i \in 1..Len(wrote[d]) : Stored(<<d, i>>)' => Stored(<<d, i>>)
        PROVE  Memory(c)'
    <3>1. Memory(c)
      BY <1>0
    <3>2. Own(c) => Own(c)'
      BY <2>2
    <3>3. ASSUME NEW d \in before[c], Whole(c, d) PROVE Whole(c, d)'
      BY <2>2, <3>3
    <3> HIDE DEF Own, Whole
    <3> QED BY <2>2, <3>1, <3>2, <3>3
  <2>3. CASE EditThread \/ UNCHANGED vars
    <3>1. messages' \subseteq messages /\ UNCHANGED callVars
      BY <2>3, EditStep
    <3>2. \A id : Stored(id)' => Stored(id)
      BY <3>1 DEF Stored
    <3>3. ASSUME NEW c \in Calls PROVE Memory(c)'
      <4>1. UNCHANGED <<context, before, on, iteration, wrote, outcome>>
        BY <3>1 DEF callVars
      <4> HIDE DEF Memory
      <4> QED BY <2>2, <3>2, <4>1
    <3> QED BY <3>3 DEF WholeTurnsInHistory
  <2>4. ASSUME NEW c \in Calls, Step(c) \/ Fault(c) PROVE WholeTurnsInHistory'
    <3>1. /\ pc[c] # "ended" /\ UNCHANGED on /\ \A d \in Calls \ {c} : SameCall(d)
          /\ UNCHANGED <<messages, wrote>> \/ Stores(c)
          /\ \/ UNCHANGED before
             \/ pc[c] = "idle" /\ before' = [before EXCEPT ![c] = {d \in Calls : pc[d] = "ended"}]
          /\ \/ UNCHANGED context /\ (iteration'[c] > 0 => iteration[c] > 0)
             \/ /\ pc[c] = "load" /\ UNCHANGED <<messages, wrote>>
                /\ context' = [context EXCEPT ![c] = GetThreadMessages(on[c])]
      BY <2>4, CallStep
    <3>2. ASSUME NEW e \in Calls, e # c PROVE Memory(e)'
      <4>1. SameCall(e) /\ c \notin before[e]
        BY <2>1, <3>1, <3>2
      <4>2. \A i : Stored(<<e, i>>)' => Stored(<<e, i>>)
        BY <3>1, <3>2 DEF Stored, Stores, Draft, Id
      <4>3. ASSUME NEW d \in before[e]
            PROVE  /\ wrote'[d] = wrote[d] /\ outcome'[d] = outcome[d]
                   /\ \A i : Stored(<<d, i>>)' => Stored(<<d, i>>)
        <5>1. d \in Calls \ {c} /\ SameCall(d)
          BY <2>1, <3>1, <4>1
        <5> QED BY <3>1, <5>1 DEF SameCall, Stored, Stores, Draft, Id
      <4> HIDE DEF Memory
      <4> QED BY <2>2, <3>1, <4>1, <4>2, <4>3 DEF SameCall
    \* The call loads the rows of its thread.
    <3>3. ASSUME pc[c] = "load", UNCHANGED <<messages, wrote>>,
                 context' = [context EXCEPT ![c] = GetThreadMessages(on[c])]
          PROVE  Memory(c)'
      <4>1. context'[c] = {m \in messages : m.thread = on[c]}
        BY <2>0, <3>3 DEF TypeOK, GetThreadMessages
      <4>2. \A m \in messages : m.thread = on[m.call] /\ m.pos \in 1..Len(wrote[m.call])
        BY <2>0 DEF Row
      <4>3. \A d \in Calls : on[d] = on[c] =>
              {x \in context'[c] : x.call = d} = {m \in messages : m.call = d}
        BY <4>1, <4>2
      <4>4. Own(c)'
        BY <3>1, <3>3, <4>1, <4>2 DEF Stored, Id
      <4>5. ASSUME NEW d \in before'[c] PROVE Whole(c, d)'
        <5>1. d \in Calls \ {c} /\ SameCall(d)
          BY <2>1, <3>1, <3>3
        <5> SUFFICES ASSUME on[d] = on[c], \A id \in Turn(d)' : Stored(id)'
                     PROVE  Turn(d)' = {Id(m) : m \in {x \in context'[c] : x.call = d}}
          BY <3>1
        <5>2. \A i \in 1..Len(wrote[d]) : \E m \in messages : Id(m) = <<d, i>>
          BY <3>3, <5>1 DEF Stored
        <5>3. \A m \in messages : m.call = d => m.pos \in 1..Len(wrote[d])
          BY <4>2
        <5>4. Turn(d)' = {<<d, i>> : i \in 1..Len(wrote[d])}
          BY <5>1 DEF SameCall
        <5>5. {<<d, i>> : i \in 1..Len(wrote[d])} = {Id(m) : m \in {x \in messages : x.call = d}}
          BY <5>2, <5>3 DEF Id
        <5> QED BY <4>3, <5>1, <5>4, <5>5
      <4> QED BY <4>4, <4>5
    <3>4. ASSUME UNCHANGED context, iteration'[c] > 0 => iteration[c] > 0 PROVE Memory(c)'
      <4>1. CASE iteration[c] > 0
        <5>1. pc[c] \notin {"idle", "insertUser"}
          BY <4>1 DEF IInv, CallInv, Progress
        <5>2. before' = before
          BY <3>1, <5>1
        <5>3. ASSUME NEW d \in before[c]
              PROVE  /\ wrote'[d] = wrote[d] /\ outcome'[d] = outcome[d]
                     /\ \A i : Stored(<<d, i>>)' => Stored(<<d, i>>)
          <6>1. d \in Calls \ {c} /\ SameCall(d)
            BY <2>1, <3>1
          <6> QED BY <3>1, <6>1 DEF SameCall, Stored, Stores, Draft, Id
        <5>4. Stored(<<c, 1>>)' => Stored(<<c, 1>>)
          <6>1. CASE Stores(c)
            <7>1. Len(wrote[c]) >= 1 /\ Len(wrote[c]) \in Nat
              BY <2>0, <4>1, <5>1, <6>1 DEF IInv, CallInv, Progress, Stores, Inserting, TypeOK
            <7>2. Draft(c).pos # 1
              BY <7>1 DEF Draft
            <7> QED BY <6>1, <7>2 DEF Stored, Stores, Id
          <6> QED BY <3>1, <6>1 DEF Stored
        <5> HIDE DEF Memory
        <5> QED BY <2>2, <3>1, <3>4, <5>2, <5>3, <5>4
      <4>2. CASE ~ (iteration'[c] > 0)
        BY <4>2
      <4> QED BY <3>4, <4>1, <4>2
    <3>5. Memory(c)'
      BY <3>1, <3>3, <3>4
    <3> QED BY <3>2, <3>5 DEF WholeTurnsInHistory
  <2> QED BY <2>3, <2>4 DEF Next
<1> QED BY <1>1, <1>2, Inductive, HistoryInvariant, PTL DEF Spec
-----------------------------------------------------------------------------
(* The tools that ran and the results that are stored. *)

\* Running a tool adds it, and no other, to those that have run.
LEMMA RanGrows ==
  ASSUME IInv, NEW c \in Calls, pc[c] = "tools",
         ran' = [ran EXCEPT ![c] = Append(@, NextTool(c))]
  PROVE  /\ \A n, k : Ran(c, n, k)' <=> Ran(c, n, k) \/ (n = iteration[c] /\ k = results[c] + 1)
         /\ ran'[c] # <<>> /\ ran'[c][Len(ran'[c])][1] = iteration[c]
         /\ \A d \in Calls \ {c} : ran'[d] = ran[d]
<1>1. /\ Len(ran'[c]) = Len(ran[c]) + 1
      /\ ran'[c][Len(ran[c]) + 1] = <<iteration[c], results[c] + 1>>
      /\ \A i \in 1..Len(ran[c]) : ran'[c][i] = ran[c][i]
      /\ Len(ran[c]) \in Nat
      /\ \A d \in Calls \ {c} : ran'[d] = ran[d]
  BY AppendRan DEF IInv, NextTool
<1>2. 1..Len(ran'[c]) = 1..Len(ran[c]) \union {Len(ran[c]) + 1}
  BY <1>1
<1>3. ASSUME NEW n, NEW k
      PROVE  Ran(c, n, k)' <=> Ran(c, n, k) \/ (n = iteration[c] /\ k = results[c] + 1)
  BY <1>1, <1>2, SMTT(30) DEF Ran
<1>4. ran'[c] # <<>> /\ ran'[c][Len(ran'[c])][1] = iteration[c]
  BY <1>1
<1> QED BY <1>1, <1>3, <1>4

\* The rounds whose tools have run lie in the log.
LEMMA RanBound ==
  ASSUME IInv, NEW c \in Calls, NEW n \in Nat, NEW k, Ran(c, n, k)
  PROVE  2 * n =< Len(wrote[c])
<1>1. PICK i \in 1..Len(ran[c]) : ran[c][i] = <<n, k>>
  BY DEF Ran
<1> QED BY <1>1 DEF IInv, CallInv, RanFor

\* Steps of the others leave the round of a call alone.
LEMMA RoundKept ==
  ASSUME NEW d \in Calls, pc'[d] = pc[d], iteration'[d] = iteration[d], batch'[d] = batch[d],
         results'[d] = results[d], wrote'[d] = wrote[d], ran'[d] = ran[d]
  PROVE  /\ Round(d) => Round(d)'
         /\ \A m \in Message : m.call = d /\ Answers(m) => Answers(m)'
<1>1. \A n, k : Ran(d, n, k)' <=> Ran(d, n, k)
  BY DEF Ran
<1>2. Round(d) => Round(d)'
  BY DEF Round, Ran
<1>3. ASSUME NEW m \in Message, m.call = d, Answers(m) PROVE Answers(m)'
  <2>1. m.kind = "toolResult" =>
          \E x \in Nat \ {0} : m.pos = 2 * x + 1 /\ \A k \in Nat : Ran(d, x, k)' <=> k \in 1..m.n
    <3> SUFFICES ASSUME m.kind = "toolResult"
                 PROVE  \E x \in Nat \ {0} : /\ m.pos = 2 * x + 1
                                             /\ \A k \in Nat : Ran(d, x, k)' <=> k \in 1..m.n
      OBVIOUS
    <3>1. PICK x \in Nat \ {0} : m.pos = 2 * x + 1 /\ \A k \in Nat : Ran(d, x, k) <=> k \in 1..m.n
      BY <1>3 DEF Answers
    <3>2. \A k \in Nat : Ran(d, x, k)' <=> k \in 1..m.n
      BY <1>1, <3>1
    <3> QED BY <3>1, <3>2
  <2> QED BY <1>3, <2>1 DEF Answers
<1> QED BY <1>2, <1>3

\* The tools of a round run one by one, and all of them before its results.
LEMMA RoundStep ==
  ASSUME IInv, NEW c \in Calls, Round(c), Step(c) \/ Fault(c)
  PROVE  /\ Round(c)'
         /\ \/ ran' = ran
            \/ /\ pc[c] = "tools" /\ UNCHANGED <<messages, wrote>>
               /\ ran' = [ran EXCEPT ![c] = Append(@, NextTool(c))]
         /\ pc'[c] \in {"tools", "insertResults"} =>
              /\ UNCHANGED batch
              /\ \/ pc[c] = "tools" /\ UNCHANGED <<messages, wrote>>
                 \/ pc[c] = "insertToolUse" /\ pc'[c] = "tools" /\ Stores(c)
<1>0. TypeOK /\ CallInv(c) /\ iteration[c] \in Nat /\ results[c] \in Nat /\ batch[c] \in Nat
  BY DEF IInv, TypeOK
<1>1. ASSUME pc'[c] \notin {"insertToolUse", "tools", "insertResults"} PROVE Round(c)'
  BY <1>1 DEF Round
<1>2. CASE Begin(c)
  <2>1. pc'[c] \in {"insertUser", "ended"} /\ ran' = ran
    BY <1>0, <1>2 DEF TypeOK, Begin, Goto, End
  <2> QED BY <1>1, <2>1
<1>3. CASE InsertUser(c)
  BY <1>0, <1>1, <1>3 DEF TypeOK, InsertUser, Goto
<1>4. CASE LoadHistory(c) \/ InsertResults(c)
  <2>1. pc'[c] \in {"infer", "ended"} /\ ran' = ran
    BY <1>0, <1>4 DEF TypeOK, LoadHistory, InsertResults, StartIteration, Goto, End
  <2> QED BY <1>1, <2>1
<1>5. CASE Infer(c)
  <2>1. /\ pc[c] = "infer" /\ ran' = ran /\ UNCHANGED iteration
        /\ \/ pc'[c] = "insertReply"
           \/ pc'[c] = "insertToolUse" /\ batch'[c] > 0
    BY <1>0, <1>5 DEF TypeOK, Infer, Goto
  <2>2. ASSUME NEW k \in Nat PROVE ~ Ran(c, iteration[c], k)
    BY <1>0, <2>1, RanBound DEF CallInv, Progress
  <2> QED BY <2>1, <2>2 DEF Round, Ran
<1>6. CASE InsertReply(c) \/ StorageFault(c) \/ GatewayFault(c)
  <2>1. pc'[c] = "ended" /\ ran' = ran
    BY <1>0, <1>6 DEF TypeOK, InsertReply, StorageFault, GatewayFault, End
  <2> QED BY <1>1, <2>1
<1>7. CASE InsertToolUse(c)
  <2>1. /\ pc[c] = "insertToolUse" /\ pc'[c] = "tools" /\ Stores(c)
        /\ UNCHANGED <<ran, iteration, batch>> /\ results'[c] = 0
    BY <1>0, <1>7 DEF TypeOK, InsertToolUse, Store, CreateMessage, Goto, Stores, Inserting
  <2>2. Round(c)'
    BY <1>0, <2>1 DEF Round, Ran
  <2> QED BY <2>1, <2>2
<1>8. CASE RunTool(c)
  <2>1. /\ pc[c] = "tools" /\ UNCHANGED <<messages, wrote, iteration, batch>>
        /\ ran' = [ran EXCEPT ![c] = Append(@, NextTool(c))]
        /\ results'[c] = results[c] + 1
        /\ \/ results[c] + 1 = batch[c] /\ pc'[c] = "insertResults"
           \/ results[c] + 1 # batch[c] /\ pc'[c] = "tools"
    BY <1>0, <1>8 DEF TypeOK, RunTool, Goto, storeVars
  <2>2. \A k \in Nat : Ran(c, iteration[c], k)' <=> k \in 1..(results[c] + 1)
    <3> SUFFICES ASSUME NEW k \in Nat
                 PROVE  Ran(c, iteration[c], k)' <=> k \in 1..(results[c] + 1)
      BY <2>1 DEF Ran
    <3>1. Ran(c, iteration[c], k) <=> k \in 1..results[c]
      BY <2>1 DEF Round
    <3>2. Ran(c, iteration[c], k)' <=> Ran(c, iteration[c], k) \/ k = results[c] + 1
      <4>1. \A n, j : Ran(c, n, j)' <=> Ran(c, n, j) \/ (n = iteration[c] /\ j = results[c] + 1)
        BY <2>1, RanGrows
      <4>2. PICK x : x = iteration[c]
        OBVIOUS
      <4>3. Ran(c, iteration[c], k)' <=> Ran(c, x, k)'
        BY <2>1, <4>2 DEF Ran
      <4>4. Ran(c, x, k)' <=> Ran(c, x, k) \/ k = results[c] + 1
        BY <4>1, <4>2
      <4> QED BY <4>2, <4>3, <4>4 DEF Ran
    <3>3. k \in 1..(results[c] + 1) <=> k \in 1..results[c] \/ k = results[c] + 1
      BY <1>0
    <3> QED BY <3>1, <3>2, <3>3
  <2>3. /\ ran'[c] # <<>> /\ ran'[c][Len(ran'[c])][1] = iteration[c]
        /\ results[c] < batch[c]
    BY <2>1, RanGrows DEF Round
  <2>4. Round(c)'
    <3>1. \A k \in Nat : Ran(c, iteration[c], k)' <=> k \in 1..results'[c]
      BY <2>1, <2>2
    <3>2. /\ pc'[c] = "tools" => results'[c] < batch'[c]
          /\ pc'[c] = "insertResults" => results'[c] = batch'[c] /\ batch'[c] > 0
      BY <1>0, <2>1, <2>3
    <3> QED BY <2>1, <2>3, <3>1, <3>2 DEF Round, Ran
  <2> QED BY <2>1, <2>4
<1>9. CASE Abandon(c)
  <2>1. /\ pc'[c] = "ended"
        /\ \/ ran' = ran
           \/ pc[c] = "tools" /\ ran' = [ran EXCEPT ![c] = Append(@, NextTool(c))]
        /\ pc[c] = "tools" => UNCHANGED <<messages, wrote>>
    BY <1>0, <1>9 DEF TypeOK, Abandon, End, StoreOrNot, Inserting, storeVars
  <2> QED BY <1>1, <2>1
<1> QED BY <1>2, <1>3, <1>4, <1>5, <1>6, <1>7, <1>8, <1>9 DEF Step, Fault

\* The rows of a round say what its tools did.
THEOREM AnswerInvariant == Spec => []AnswerInv
<1>1. Init => AnswerInv
  BY DEF Init, AnswerInv, Round
<1>2. IInv /\ HistoryInv /\ AnswerInv /\ [Next]_vars => AnswerInv'
  <2> SUFFICES ASSUME IInv, HistoryInv, AnswerInv, [Next]_vars PROVE AnswerInv'
    OBVIOUS
  <2>0. /\ \A m \in messages : /\ Row(m) /\ m.call \in Calls /\ m.pos \in Nat /\ m.n \in Nat
                               /\ m \in Message
                               /\ m.pos =< Len(wrote[m.call])
        /\ \A d \in Calls : Len(wrote[d]) \in Nat /\ iteration[d] \in Nat /\ results[d] \in Nat
    BY DEF IInv, TypeOK, HistoryInv, Row, Message
  <2>1. CASE EditThread \/ UNCHANGED vars
    <3>1. messages' \subseteq messages /\ UNCHANGED callVars
      BY <2>1, EditStep
    <3>2. UNCHANGED <<pc, iteration, batch, results, ran, wrote>>
      BY <3>1 DEF callVars
    <3>3. ASSUME NEW d \in Calls PROVE Round(d)'
      BY <3>2, RoundKept DEF AnswerInv
    <3>4. ASSUME NEW m \in messages PROVE Answers(m)'
      BY <2>0, <3>2, RoundKept DEF AnswerInv
    <3> QED BY <3>1, <3>3, <3>4 DEF AnswerInv
  <2>2. ASSUME NEW c \in Calls, Step(c) \/ Fault(c) PROVE AnswerInv'
    <3>1. /\ Round(c)'
          /\ \/ ran' = ran
             \/ /\ pc[c] = "tools" /\ UNCHANGED <<messages, wrote>>
                /\ ran' = [ran EXCEPT ![c] = Append(@, NextTool(c))]
          /\ pc'[c] \in {"tools", "insertResults"} =>
               /\ UNCHANGED batch
               /\ \/ pc[c] = "tools" /\ UNCHANGED <<messages, wrote>>
                  \/ pc[c] = "insertToolUse" /\ pc'[c] = "tools" /\ Stores(c)
      BY <2>2, RoundStep DEF AnswerInv
    <3>2. UNCHANGED on /\ \A d \in Calls \ {c} : SameCall(d)
      BY <2>2, CallStep
    <3>3. UNCHANGED <<messages, wrote>> \/ Stores(c)
      BY <2>2, CallStep
    <3>4. ASSUME NEW d \in Calls PROVE Round(d)'
      <4>1. CASE d # c
        BY <3>2, <4>1, RoundKept DEF SameCall, AnswerInv
      <4> QED BY <3>1, <4>1
    \* A row that was there before the step.
    <3>5. ASSUME NEW m \in messages PROVE Answers(m)'
      <4>0. Answers(m)
        BY DEF AnswerInv
      <4>1. CASE m.call # c
        <5>1. SameCall(m.call)
          BY <2>0, <3>2, <4>1
        <5> QED BY <2>0, <4>0, <5>1, RoundKept DEF SameCall
      <4>2. CASE m.call = c
        <5>1. ASSUME pc'[c] \in {"tools", "insertResults"}, m.pos = Len(wrote'[c])
              PROVE  m.n = batch'[c]
          <6>1. CASE Stores(c)
            <7>1. Len(wrote'[c]) = Len(wrote[c]) + 1
              BY <3>2, <6>1, StoresRow
            <7> QED BY <2>0, <4>2, <5>1, <7>1
          <6>2. CASE pc[c] = "tools" /\ UNCHANGED <<messages, wrote>>
            BY <3>1, <4>0, <4>2, <5>1, <6>2 DEF Answers
          <6> QED BY <3>1, <5>1, <6>1, <6>2
        <5>2. ASSUME m.kind = "toolResult"
              PROVE  \E x \in Nat \ {0} : /\ m.pos = 2 * x + 1
                                          /\ \A k \in Nat : Ran(c, x, k)' <=> k \in 1..m.n
          <6>1. PICK x \in Nat \ {0} : /\ m.pos = 2 * x + 1
                                       /\ \A k \in Nat : Ran(c, x, k) <=> k \in 1..m.n
            BY <4>0, <4>2, <5>2 DEF Answers
          <6>2. CASE ran' = ran
            BY <6>1, <6>2 DEF Ran
          <6>3. CASE pc[c] = "tools" /\ ran' = [ran EXCEPT ![c] = Append(@, NextTool(c))]
            <7>1. Len(wrote[c]) = 2 * iteration[c]
              BY <6>3 DEF IInv, CallInv, Progress
            <7>2. x # iteration[c]
              BY <2>0, <4>2, <6>1, <7>1
            <7>3. \A k \in Nat : Ran(c, x, k)' <=> Ran(c, x, k)
              BY <6>3, <7>2, RanGrows
            <7> QED BY <6>1, <7>3
          <6> QED BY <3>1, <6>2, <6>3
        <5> QED BY <4>2, <5>1, <5>2 DEF Answers
      <4> QED BY <4>1, <4>2
    <3>6. CASE UNCHANGED <<messages, wrote>>
      BY <3>4, <3>5, <3>6 DEF AnswerInv
    <3>7. CASE Stores(c)
      <4>0. PICK q : q = Draft(c)
        OBVIOUS
      <4>1. /\ messages' = messages \union {q} /\ q.call = c /\ q.pos = Len(wrote[c]) + 1
            /\ q.kind = KindAt[pc[c]] /\ Len(wrote'[c]) = Len(wrote[c]) + 1
            /\ q.n = IF pc[c] = "insertResults" THEN results[c] ELSE batch[c]
            /\ pc[c] \in Inserting
        BY <3>2, <3>7, <4>0, StoresRow DEF Stores, Draft
      <4>2. Round(c)
        BY DEF AnswerInv
      <4>3. ran' = ran
        BY <3>1, <4>1 DEF Inserting
      <4>4. q.kind = "toolResult" => pc[c] = "insertResults"
        BY <4>1 DEF KindAt, Inserting
      <4>5. Answers(q)'
        <5>1. ASSUME pc'[c] \in {"tools", "insertResults"} PROVE q.n = batch'[c]
          BY <3>1, <4>1, <5>1 DEF Inserting
        <5>2. ASSUME q.kind = "toolResult"
              PROVE  \E x \in Nat \ {0} : /\ q.pos = 2 * x + 1
                                          /\ \A k \in Nat : Ran(c, x, k)' <=> k \in 1..q.n
          <6>1. /\ Len(wrote[c]) = 2 * iteration[c] /\ iteration[c] \in Nat \ {0}
                /\ q.n = results[c]
            BY <4>1, <4>4, <5>2 DEF IInv, CallInv, Progress
          <6>2. \A k \in Nat : Ran(c, iteration[c], k) <=> k \in 1..q.n
            BY <4>2, <4>4, <5>2, <6>1 DEF Round
          <6>3. PICK x \in Nat \ {0} : x = iteration[c]
            BY <6>1
          <6>4. \A k \in Nat : Ran(c, x, k)' <=> k \in 1..q.n
            BY <4>3, <6>2, <6>3 DEF Ran
          <6>5. q.pos = 2 * x + 1
            BY <4>1, <6>1, <6>3
          <6> QED BY <6>4, <6>5
        <5> QED BY <4>1, <5>1, <5>2 DEF Answers
      <4>6. ASSUME NEW r \in messages', NEW u \in messages', r.kind = "toolResult",
                   Id(u) = <<r.call, r.pos - 1>>
            PROVE  r.n = u.n
        <5>0. u.call = r.call /\ u.pos = r.pos - 1
          BY <4>6 DEF Id
        <5>1. CASE r \in messages /\ u \in messages
          BY <4>6, <5>1 DEF AnswerInv
        <5>2. CASE u = q
          BY <2>0, <4>1, <5>0, <5>2
        <5>3. CASE r = q /\ u \in messages
          <6>1. /\ pc[c] = "insertResults" /\ r.n = results[c] /\ results[c] = batch[c]
            BY <4>1, <4>2, <4>4, <4>6, <5>3 DEF Round
          <6>2. u.call = c /\ u.pos = Len(wrote[c])
            BY <2>0, <4>1, <5>0, <5>3
          <6>3. u.n = batch[c]
            BY <5>3, <6>1, <6>2 DEF AnswerInv, Answers
          <6> QED BY <6>1, <6>3
        <5> QED BY <4>1, <5>1, <5>2, <5>3
      <4> QED BY <3>4, <3>5, <4>1, <4>5, <4>6 DEF AnswerInv
    <3> QED BY <3>3, <3>6, <3>7
  <2> QED BY <2>1, <2>2 DEF Next
<1> QED BY <1>1, <1>2, Inductive, HistoryInvariant, PTL DEF Spec

\* A stored result message answers every call of the request before it, and exactly
\* those tools have run.
THEOREM ResultsAnswer == Spec => []ResultsAnswerRequests
<1>1. AnswerInv => ResultsAnswerRequests
  <2> SUFFICES ASSUME AnswerInv, NEW r \in messages, NEW u \in messages, r.kind = "toolResult",
                      Id(u) = <<r.call, r.pos - 1>>
               PROVE  /\ r.n = u.n
                      /\ \A k \in 1..MaxBatch :
                           k <= u.n <=> \E i \in 1..Len(ran[r.call]) :
                                          ran[r.call][i] = <<r.pos \div 2, k>>
    BY DEF ResultsAnswerRequests
  <2>1. r.n = u.n
    BY DEF AnswerInv
  <2>2. PICK x \in Nat \ {0} : r.pos = 2 * x + 1 /\ \A k \in Nat : Ran(r.call, x, k) <=> k \in 1..r.n
    BY DEF AnswerInv, Answers
  <2>3. r.pos \div 2 = x
    BY <2>2
  <2>4. ASSUME NEW k \in 1..MaxBatch
        PROVE  k <= u.n <=> \E i \in 1..Len(ran[r.call]) : ran[r.call][i] = <<r.pos \div 2, k>>
    <3>1. Ran(r.call, x, k) <=> k \in 1..r.n
      BY <2>2
    <3>2. k \in 1..r.n <=> k <= u.n
      BY <2>1, <2>2
    <3> QED BY <2>3, <3>1, <3>2 DEF Ran
  <2> QED BY <2>1, <2>4
<1> QED BY <1>1, AnswerInvariant, PTL
-----------------------------------------------------------------------------
(* The turn that each call is. *)

Acted(c) == IF ran[c] = <<>> THEN 0 ELSE ran[c][Len(ran[c])][1]

\* A call succeeds exactly when it stores its reply and its caller learns of it.
LEMMA OutcomeStep ==
  ASSUME IInv, NEW c \in Calls, Step(c) \/ Fault(c)
  PROVE  /\ outcome[c] = "none"
         /\ outcome'[c] = "ok" => pc[c] = "insertReply" /\ Stores(c)
         /\ outcome'[c] = "none" => pc[c] # "insertReply"
<1>0. TypeOK
  BY DEF IInv
<1> USE <1>0 DEF TypeOK
<1>1. outcome[c] = "none" /\ pc[c] # "ended"
  BY CallStep
<1>2. CASE Begin(c)
  BY <1>1, <1>2 DEF Begin, Goto, End
<1>3. CASE LoadHistory(c) \/ InsertResults(c)
  BY <1>1, <1>3 DEF LoadHistory, InsertResults, StartIteration, Goto, End
<1>4. CASE InsertUser(c) \/ Infer(c) \/ InsertToolUse(c) \/ RunTool(c)
  <2>1. outcome'[c] = "none" /\ pc[c] # "insertReply"
    BY <1>1, <1>4 DEF InsertUser, Infer, InsertToolUse, RunTool, Goto
  <2> QED BY <1>1, <2>1
<1>5. CASE InsertReply(c)
  <2>1. pc[c] = "insertReply" /\ Stores(c) /\ outcome'[c] = "ok"
    BY <1>5 DEF InsertReply, Store, CreateMessage, End, Stores, Inserting
  <2> QED BY <1>1, <2>1
<1>6. CASE Fault(c)
  BY <1>1, <1>6 DEF Fault, StorageFault, GatewayFault, Abandon, End
<1> QED BY <1>2, <1>3, <1>4, <1>5, <1>6 DEF Step

\* The number of answers among the messages of a round.
LEMMA AnswersOf ==
  ASSUME NEW n \in Nat \ {0}
  PROVE  (2 * n) \div 2 = n /\ (2 * n - 1) \div 2 = n - 1
OBVIOUS

\* What is stored next is what the turn allows next.
LEMMA NextKind ==
  ASSUME IInv, NEW c \in Calls, Round(c), pc[c] \in Inserting
  PROVE  KindAt[pc[c]] \in T(c)!Allowed(wrote[c], Acted(c))
<1>0. CallInv(c) /\ wrote[c] \in Seq(Kinds) /\ iteration[c] \in Nat
  BY DEF IInv, TypeOK
<1>1. CASE pc[c] = "insertUser"
  <2>1. wrote[c] = <<>>
    BY <1>0, <1>1 DEF CallInv, Progress
  <2> QED BY <1>1, <2>1 DEF T!Allowed, KindAt
<1>2. CASE pc[c] \in {"insertToolUse", "insertReply"}
  <2>1. /\ iteration[c] \in Nat \ {0} /\ iteration[c] =< MaxIterations
        /\ Len(wrote[c]) = 2 * iteration[c] - 1
    BY <1>0, <1>2 DEF CallInv, Progress
  <2>2. Len(wrote[c]) \in 1..Len(wrote[c])
    BY <1>0, <2>1
  <2>3. wrote[c][Len(wrote[c])] \in {"user", "toolResult"}
    <3>1. wrote[c][Len(wrote[c])] \in Kinds
      BY <1>0, <2>2
    <3>2. wrote[c][Len(wrote[c])] # "toolUse"
      BY <1>0, <1>2 DEF CallInv, LastKind
    <3>3. wrote[c][Len(wrote[c])] # "reply"
      BY <1>0, <1>2, <2>2 DEF CallInv, NoReplyYet
    <3> QED BY <3>1, <3>2, <3>3 DEF Kinds
  <2>4. wrote[c] # <<>> /\ Len(wrote[c]) \div 2 = iteration[c] - 1 /\ iteration[c] - 1 < MaxIterations
    BY <2>1, AnswersOf
  <2>5. {"toolUse", "reply"} \subseteq T(c)!Successors[wrote[c][Len(wrote[c])]]
    BY <2>3 DEF T!Successors
  <2>6. KindAt[pc[c]] \in {"toolUse", "reply"}
    BY <1>2 DEF KindAt
  <2> QED BY <2>4, <2>5, <2>6 DEF T!Allowed, T!Answers
<1>3. CASE pc[c] = "insertResults"
  <2>1. /\ iteration[c] \in Nat \ {0} /\ Len(wrote[c]) = 2 * iteration[c]
        /\ wrote[c][Len(wrote[c])] = "toolUse" /\ Acted(c) = iteration[c]
    BY <1>0, <1>3 DEF CallInv, Progress, Round, Acted
  <2>2. wrote[c] # <<>> /\ Len(wrote[c]) \div 2 = iteration[c]
    BY <2>1, AnswersOf
  <2>3. "toolResult" \in T(c)!Successors[wrote[c][Len(wrote[c])]]
    BY <2>1 DEF T!Successors
  <2>4. KindAt[pc[c]] = "toolResult"
    BY <1>3 DEF KindAt
  <2> QED BY <2>1, <2>2, <2>3, <2>4 DEF T!Allowed, T!Answers
<1> QED BY <1>1, <1>2, <1>3 DEF Inserting

\* Every call, seen alone, is a turn, whatever the other calls do to the thread.
THEOREM EachCallIsATurn == Spec => CallsAreTurns
<1>1. Init => \A c \in Calls : T(c)!Init
  BY DEF Init, T!Init
<1>2. IInv /\ AnswerInv /\ [Next]_vars => [\A c \in Calls : [T(c)!Next]_(T(c)!vars)]_vars
  <2> SUFFICES ASSUME IInv, AnswerInv, Next, NEW c \in Calls PROVE [T(c)!Next]_(T(c)!vars)
    OBVIOUS
  <2>0. wrote \in [Calls -> Seq(Kinds)]
    BY DEF IInv, TypeOK
  <2>1. ASSUME wrote'[c] = wrote[c], ran'[c] = ran[c], outcome'[c] = outcome[c]
        PROVE  UNCHANGED T(c)!vars
    BY <2>1 DEF T!vars
  <2>2. CASE EditThread
    BY <2>1, <2>2 DEF EditThread, callVars
  <2>3. ASSUME NEW d \in Calls, d # c, Step(d) \/ Fault(d) PROVE UNCHANGED T(c)!vars
    BY <2>1, <2>3, CallStep DEF SameCall
  <2>4. ASSUME Step(c) \/ Fault(c) PROVE T(c)!Next \/ UNCHANGED T(c)!vars
    <3>1. /\ outcome[c] = "none"
          /\ outcome'[c] = "ok" => pc[c] = "insertReply" /\ Stores(c)
          /\ outcome'[c] = "none" => pc[c] # "insertReply"
      BY <2>4, OutcomeStep
    <3>2. /\ \/ ran' = ran
             \/ /\ pc[c] = "tools" /\ UNCHANGED <<messages, wrote>>
                /\ ran' = [ran EXCEPT ![c] = Append(@, NextTool(c))]
          /\ UNCHANGED <<messages, wrote>> \/ Stores(c)
          /\ Round(c)
      BY <2>4, CallStep, RoundStep DEF AnswerInv
    <3>3. CASE Stores(c)
      <4>1. /\ wrote'[c] = Append(wrote[c], KindAt[pc[c]]) /\ pc[c] \in Inserting
        BY <2>0, <3>3 DEF Stores
      <4>2. ran'[c] = ran[c]
        BY <3>2, <4>1 DEF Inserting
      <4>3. KindAt[pc[c]] \in T(c)!Allowed(wrote[c], Acted(c))
        BY <3>2, <4>1, NextKind
      <4>4. KindAt[pc[c]] = "reply" <=> pc[c] = "insertReply"
        BY <4>1 DEF KindAt, Inserting
      <4>5. CASE outcome'[c] \in {"none", "ok"}
        BY <3>1, <4>1, <4>2, <4>3, <4>4, <4>5 DEF T!Next, T!Add, Acted
      <4>6. CASE outcome'[c] \notin {"none", "ok"}
        BY <3>1, <4>1, <4>2, <4>3, <4>6 DEF T!Next, T!Fail, Acted
      <4> QED BY <4>5, <4>6
    <3>4. CASE UNCHANGED <<messages, wrote>> /\ ran' = ran
      <4>1. CASE outcome'[c] = "none"
        BY <2>1, <3>1, <3>4, <4>1
      <4>2. CASE outcome'[c] \notin {"none", "ok"}
        BY <3>1, <3>4, <4>2 DEF T!Next, T!Fail
      <4> QED BY <3>1, <3>3, <4>1, <4>2
    <3>5. CASE /\ pc[c] = "tools" /\ UNCHANGED <<messages, wrote>>
               /\ ran' = [ran EXCEPT ![c] = Append(@, NextTool(c))]
      <4>1. ran'[c] # <<>> /\ ran'[c][Len(ran'[c])][1] = iteration[c]
        BY <3>5, RanGrows
      <4>2. /\ Len(wrote[c]) = 2 * iteration[c] /\ iteration[c] \in Nat \ {0}
            /\ wrote[c][Len(wrote[c])] = "toolUse"
        BY <3>5 DEF IInv, CallInv, Progress
      <4>3. wrote[c] # <<>> /\ Len(wrote[c]) \div 2 = iteration[c]
        BY <4>2, AnswersOf
      <4>4. outcome'[c] # "ok" /\ wrote'[c] = wrote[c]
        BY <3>1, <3>5
      <4>5. CASE outcome'[c] = "none"
        BY <3>1, <4>1, <4>2, <4>3, <4>4, <4>5 DEF T!Next, T!Act, T!Answers
      <4>6. CASE outcome'[c] # "none"
        BY <3>1, <4>1, <4>2, <4>3, <4>4, <4>6 DEF T!Next, T!Fail, T!Answers
      <4> QED BY <4>5, <4>6
    <3> QED BY <3>2, <3>3, <3>4, <3>5
  <2> QED BY <2>2, <2>1, <2>3, <2>4 DEF Next, EditThread, callVars
<1> QED BY <1>1, <1>2, Inductive, AnswerInvariant, PTL DEF Spec, CallsAreTurns

=============================================================================
