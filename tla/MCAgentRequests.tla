---------------------------- MODULE MCAgentRequests ----------------------------
(* AgentRequests on small instances. *)
EXTENDS AgentRequests

CONSTANTS f1, f2, f3,                 \* the functions behind the tools
          secret, label, hint,        \* credentials, tags, a system prompt
          u, v                        \* two JSON values

Function == [kind |-> "function", name |-> "assistant"]
Model == [kind |-> "model", name |-> "assistant"]
Unnamed == [kind |-> "function", name |-> Blank]
AllTargets == {Function, Model, Unnamed}
OneTarget == {Model}

Context(max, loop) == [max |-> max, retain |-> 5, limit |-> NoLimit, dedup |-> FALSE,
                       loop |-> loop]
NoValues == [f \in Fields |-> {}]
AllValues == [system |-> {hint}, credentials |-> {secret}, tags |-> {label},
              choice |-> {"required"}, parallel |-> {TRUE},
              context |-> {Context(2, Context(1, None))}, buffer |-> {0}]
SystemOnly == [NoValues EXCEPT !.system = {hint}]

\* A simple tool that leaves its result to the crate, another of the same name
\* that answers for itself, and one that forgets the id.
Simple == [name |-> "n1", fn |-> f1, simple |-> TRUE, says |-> "nothing"]
Second == [name |-> "n1", fn |-> f2, simple |-> FALSE, says |-> "context"]
Forgets == [name |-> "n2", fn |-> f3, simple |-> FALSE, says |-> "nothing"]
AllTools == {Simple, Second, Forgets}
OneTool == {Simple}

\* A call validated by the gateway, one that it could not validate, and one
\* that is known by the name the model gave only.
Validated == [id |-> None, name |-> "n1", raw |-> "n1r", args |-> u, rawArgs |-> v]
Invalid == [id |-> None, name |-> None, raw |-> "n2", args |-> None, rawArgs |-> Garbage]
Plain == [id |-> None, name |-> "n1", raw |-> None, args |-> None, rawArgs |-> u]
AllShapes == {Validated, Invalid, Plain}

SaidOrNot == {<<>>, <<"said">>}
\* A text with an image, a file known by its URL, one without a type, and one
\* known by its id.
Everything == <<Text("asked"), Block("image", Blank, Blank, {}),
                Block("file", Blank, Blank, {"url", "data"}),
                Block("file", Blank, Blank, {"data"}), Block("file", Blank, Blank, {"id"})>>
AskedWithFiles == {Everything}
=============================================================================
