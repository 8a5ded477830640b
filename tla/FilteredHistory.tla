--------------------------- MODULE FilteredHistory ---------------------------
(***************************************************************************)
(* The histories that chat calls and edits leave in a thread, and what     *)
(* ContextFilter makes of each of them under every configuration of a      *)
(* small set.  Any number of calls run on the thread at once, none waits   *)
(* for another, and the application deletes and rewrites messages          *)
(* meanwhile (crates/adk/src/agent/core.rs).                               *)
(*                                                                         *)
(* A thread is read in the order of the messages' stamps.  Only the last   *)
(* message of a call can be stamped and not stored yet, so appending in    *)
(* that order gives every history that can be read.                        *)
(***************************************************************************)
EXTENDS ContextFilter

CONSTANTS MaxMessages,  \* bound: messages that are ever stored
          MaxEdits,     \* bound: edits by the application
          ToolCalls,    \* the tool calls (name and input) the model makes
          Batches,      \* the tool calls it makes in one message
          Configs       \* the configurations

\* The fields of ContextConfig: usize, usize, Option<usize>, bool.
ASSUME ConfigsAssumption ==
  \A c \in Configs : /\ c.max \in Nat /\ c.retain \in Nat
                     /\ c.limit \in Nat \union {NoLimit} /\ c.dedup \in BOOLEAN
ASSUME BatchesAssumption == Batches \subseteq Seq(ToolCalls) \ {<<>>}

VARIABLES history,  \* the thread's messages, each with its place as `at`
          config,
          waiting,  \* how many calls wait for the model's answer
          open,     \* the tool calls, batch by batch, that a call is executing
          stored,   \* how many messages were ever stored
          edits

vars == <<history, config, waiting, open, stored, edits>>

Text == [type |-> "text", id |-> <<>>, call |-> "none"]
Message(role, blocks) == [at |-> Len(history) + 1, role |-> role, blocks |-> blocks]
Add(role, blocks) == /\ stored < MaxMessages /\ stored' = stored + 1
                     /\ history' = Append(history, Message(role, blocks))
                     /\ UNCHANGED <<config, edits>>

\* The tool uses of a request, with ids that no other request has.
Uses(calls) == [i \in DOMAIN calls |->
                  [type |-> "use", id |-> <<stored + 1, i>>, call |-> calls[i]]]

Init == /\ history = <<>> /\ config \in Configs
        /\ waiting = 0 /\ open = {} /\ stored = 0 /\ edits = 0

\* A call begins: nothing keeps it from doing so while others run.
AddUser == Add("user", <<Text>>) /\ waiting' = waiting + 1 /\ UNCHANGED open

\* The model answers a call that waits.  One that was cut short waits for ever.
Answered == waiting > 0 /\ waiting' = waiting - 1
AddReply == Answered /\ Add("assistant", <<Text>>) /\ UNCHANGED open
\* Text may come before the tool uses.
AddToolUse ==
  /\ Answered
  /\ \E calls \in Batches :
       /\ \E text \in {<<>>, <<Text>>} : Add("assistant", text \o Uses(calls))
       /\ open' = open \union {Uses(calls)}

\* The tools have run: tool_results_to_message stores one result for each tool
\* use, in order, after whatever has been stored since the request.
AddToolResult == \E uses \in open :
  /\ Add("user", [i \in DOMAIN uses |-> [uses[i] EXCEPT !.type = "result"]])
  /\ open' = open \ {uses} /\ waiting' = waiting + 1

\* delete_message, delete_messages_after, and update_message with a text: edits
\* ask nothing of the calls that run, and take nothing from them.
Renumbered(I) == LET kept == Keep(history, I)
                IN [k \in DOMAIN kept |-> [kept[k] EXCEPT !.at = k]]
DeleteMessage(i) == history' = Renumbered(DOMAIN history \ {i})
DeleteMessagesAfter(i) == history' = Renumbered(1..i)
UpdateMessage(i) == history' = [history EXCEPT ![i].blocks = <<Text>>]
EditHistory == /\ edits < MaxEdits /\ edits' = edits + 1
               /\ \E i \in DOMAIN history :
                    DeleteMessage(i) \/ DeleteMessagesAfter(i) \/ UpdateMessage(i)
               /\ UNCHANGED <<config, waiting, open, stored>>

Next == AddUser \/ AddReply \/ AddToolUse \/ AddToolResult \/ EditHistory
Spec == Init /\ [][Next]_vars

-----------------------------------------------------------------------------
(* Properties of what is sent, for every history and configuration. *)

Sent == FilterMessages(history, config)
IsSubsequence(s, t) == \E I \in SUBSET (DOMAIN t) : Keep(t, I) = s

\* Nothing is reordered or made up: the messages sent are messages of the
\* history in its order, and the blocks of each are blocks it has, in order.
IsPartOfHistory(sent) ==
  /\ \A i, j \in DOMAIN sent : i < j => sent[i].at < sent[j].at
  /\ \A i \in DOMAIN sent : /\ sent[i].role = history[sent[i].at].role
                            /\ IsSubsequence(sent[i].blocks, history[sent[i].at].blocks)

\* What filter_messages returns is part of the history, and the limits hold of
\* it after all the later steps: messages, tool blocks per message, and pairs of a
\* request and the results that the history has right behind it.  Other messages
\* that the filter alone has brought together are no pair that retain_last counts.
SentWithinLimits ==
  LET sent == Sent
      Tools(m) == {j \in DOMAIN m.blocks : IsUse(m.blocks[j]) \/ IsResult(m.blocks[j])}
  IN /\ IsPartOfHistory(sent)
     /\ Len(sent) <= config.max
     /\ config.limit # NoLimit => \A i \in DOMAIN sent : Cardinality(Tools(sent[i])) <= config.limit
     /\ Cardinality({i \in PairEnds(sent) : sent[i].at = sent[i - 1].at + 1}) <= config.retain

\* Without deduplication a request for tools that has results right behind it is
\* sent right before them, or neither of the two is sent; and if those are the
\* results it asked for, then what is sent of them answers what is sent of it.
\* Results stored further on, or after another call's request, may be parted from
\* their own.  Not so with limit_per_message 0: a result message it has emptied is
\* no longer taken for one, and is sent when max_messages cut its request off.
Ids(m, Test(_)) == LET bs == Keep(m.blocks, {j \in DOMAIN m.blocks : Test(m.blocks[j])})
                   IN [k \in DOMAIN bs |-> bs[k].id]
AnsweredBy(m, r) == Ids(m, IsUse) = Ids(r, IsResult)
PairsStayTogether ==
  LET sent == Sent
      Place(n) == {i \in DOMAIN sent : sent[i].at = n}
  IN ~ config.dedup /\ config.limit # 0 =>
       \A p \in PairEnds(history) :
         /\ Place(p) = {i + 1 : i \in Place(p - 1)}
         /\ AnsweredBy(history[p - 1], history[p]) =>
              \A i \in Place(p - 1) : AnsweredBy(sent[i], sent[i + 1])

\* The message the call was made for is sent, whatever filter_messages leaves out.
NewestIsSent ==
  LET sent == Sent
      newest == history[Len(history)]
  IN history # <<>> /\ newest.role = "user" /\ newest.blocks = <<Text>> /\ config.max > 0
       => sent # <<>> /\ sent[Len(sent)] = newest

-----------------------------------------------------------------------------
(* What the comment on filter_messages says, and the code does not do. *)

\* config.rs:139, "Starting with a user message": filter_messages drops leading
\* assistant messages before leading results, and never looks again.  Here of the
\* histories that end with what a person wrote, as those of a new call do.
StartsWithUser ==
  LET sent == Sent
      newest == history[Len(history)]
  IN history # <<>> /\ newest.role = "user" /\ newest.blocks = <<Text>> /\ sent # <<>>
       => sent[1].role = "user"

\* config.rs:140, "Not breaking tool call/result pairs": a result is sent with
\* its request.  apply_deduplicate drops a repeated request and not its result.
ResultsHaveRequests ==
  LET sent == Sent
      idsOf(bs, Test(_)) == {bs[k].id : k \in {l \in DOMAIN bs : Test(bs[l])}}
      ids(Test(_)) == UNION {idsOf(sent[i].blocks, Test) : i \in DOMAIN sent}
  IN ids(IsResult) \subseteq ids(IsUse)
=============================================================================
