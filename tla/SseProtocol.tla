----------------------------- MODULE SseProtocol -----------------------------
(***************************************************************************)
(* The order in which the reader of a streamed chat sees its events,       *)
(* written as a relation between one event and the next.  An event is a    *)
(* record with its type, the iteration n it belongs to and the content     *)
(* block b it is about (0 when it is about none).                          *)
(***************************************************************************)
EXTENDS Naturals, Sequences

CONSTANTS MaxIterations

VARIABLES events     \* what has been put on the stream

ContentTypes == {"TextDelta", "ToolUseStart", "ToolUseDelta", "ToolUseComplete"}

First(e) == \/ e.type = "IterationStart" /\ e.n = 1
            \/ e.type = "Error"

\* Content comes between the start and the end of its iteration; tools run, one
\* at a time, after it; then the next iteration, or the end.
Follows(e, f) ==
  \/ /\ e.type \in ContentTypes \union {"IterationStart"}
     /\ f.type \in ContentTypes \union {"IterationComplete", "Error"}
     /\ f.n = e.n
  \/ /\ e.type = "IterationComplete"
     /\ f.type \in {"ToolExecutionStart", "Done", "Error"}
     /\ f.n = e.n
  \/ /\ e.type = "ToolExecutionStart"
     /\ f.type = "ToolExecutionComplete"
     /\ f.n = e.n /\ f.b = e.b
  \/ /\ e.type = "ToolExecutionComplete"
     /\ \/ f.type \in {"ToolExecutionStart", "Error"} /\ f.n = e.n
        \/ f.type = "IterationStart" /\ f.n = e.n + 1 /\ f.n <= MaxIterations
        \/ f.type = "Error" /\ f.n = MaxIterations + 1
  \* A spent budget is reported by the executor and again by its task.
  \/ e.type = "Error" /\ f = e /\ e.n = MaxIterations + 1

\* The stream carries one more event: any f that may come next.
Extends(s, t) ==
  /\ Len(t) = Len(s) + 1 /\ SubSeq(t, 1, Len(s)) = s
  /\ IF s = <<>> THEN First(t[1]) ELSE Follows(s[Len(s)], t[Len(t)])

Init == events = <<>>
Next == Extends(events, events')
Spec == Init /\ [][Next]_events
=============================================================================
