-------------------------------- MODULE Turn --------------------------------
(***************************************************************************)
(* What one chat call promises, whether it is answered at once             *)
(* (Agent::chat) or streamed (Agent::chat_stream): the messages it adds to *)
(* its thread, in which order, and when the effects of its tools may       *)
(* happen.  Written from the outside: no phases, no store, no other call.  *)
(***************************************************************************)
EXTENDS Naturals, Sequences

CONSTANTS MaxIterations

VARIABLES log,      \* the kinds of message the call has added, in order
          acted,    \* the number of rounds whose tools have begun to run
          status    \* "open", "ok" or "failed"

vars == <<log, acted, status>>

\* A turn reads: user, then rounds of toolUse toolResult, then one reply.
Successors == [user       |-> {"toolUse", "reply"},
               toolUse    |-> {"toolResult"},
               toolResult |-> {"toolUse", "reply"},
               reply      |-> {}]

\* Position 2n is the answer to the n-th inference.
Answers(s) == Len(s) \div 2

\* What may be added next: tool results only of tools that ran, and an
\* assistant message only while inferences are left.
Allowed(s, a) ==
  IF s = <<>> THEN {"user"}
  ELSE {k \in Successors[s[Len(s)]] :
           IF k = "toolResult" THEN a = Answers(s)
                               ELSE Answers(s) < MaxIterations}

Init == log = <<>> /\ acted = 0 /\ status = "open"

\* Tools run only once the request for them has been added.
Act == /\ status = "open"
       /\ log # <<>> /\ log[Len(log)] = "toolUse"
       /\ acted' = Answers(log)
       /\ UNCHANGED <<log, status>>

Add == /\ status = "open"
       /\ \E k \in Allowed(log, acted) :
            /\ log' = Append(log, k)
            /\ status' = IF k = "reply" THEN "ok" ELSE "open"
       /\ UNCHANGED acted

\* A turn may fail at any point.  What it was doing when it failed, adding a
\* message or running a tool, may have taken effect nevertheless.
Fail == /\ status = "open"
        /\ status' = "failed"
        /\ \/ UNCHANGED <<log, acted>>
           \/ /\ \E k \in Allowed(log, acted) : log' = Append(log, k)
              /\ UNCHANGED acted
           \/ /\ log # <<>> /\ log[Len(log)] = "toolUse"
              /\ acted' = Answers(log)
              /\ UNCHANGED log

Next == Act \/ Add \/ Fail

Spec == Init /\ [][Next]_vars
=============================================================================
