----------------------------- MODULE ToolRegistry -----------------------------
(***************************************************************************)
(* The tools of an agent (crates/adk/src/tools): a registry is a sequence  *)
(* of tools in the order of their registration, looked up by name.         *)
(*                                                                         *)
(* A tool is [name, fn, simple, says].  fn names the function behind it.   *)
(* simple: it was registered with register_simple_fn, so its function      *)
(* never sees the id of the call it answers.  says is what the function    *)
(* writes into the tool_call_id and tool_name of its result: "nothing",    *)
(* "context", what its context says, or "other", an id of its own.         *)
(***************************************************************************)
EXTENDS Naturals, Sequences, SequencesExt

CONSTANTS None,      \* Option::None
          Blank,     \* an empty string
          OtherId    \* an id that no call has

ASSUME AbsentAssumption == None # Blank

\* ToolRegistry::tensorzero_definitions: what is offered to the model, in order.
Definitions(registry) == [i \in DOMAIN registry |-> [name |-> registry[i].name,
                                                     fn |-> registry[i].fn]]

\* Slip: the new tool is put before the others.
RegisterFirst(registry, tool) == <<tool>> \o registry

\* ToolRegistry::register.
Register(registry, tool) == Append(registry, tool)

\* ToolRegistry::get: the place of the first tool of that name, 0 for none.
Get(registry, name) == SelectInSeq(registry, LAMBDA t : t.name = name)

\* The function of the tool is called.
Called(tool, id, name) ==
  [id |-> CASE tool.says = "nothing" -> Blank
            [] tool.says = "context" -> id
            [] tool.says = "other" -> OtherId,
   name |-> IF tool.says = "nothing" THEN Blank ELSE name,
   fn |-> tool.fn, error |-> FALSE]

\* Slip: the name alone is filled in.
FilledNameOnly(result, id, name) ==
  [result EXCEPT !.name = IF @ = Blank THEN name ELSE @]

\* FnToolExecutor::simple: what the function left empty comes from the context.
Filled(result, id, name) == [result EXCEPT !.id = IF @ = Blank THEN id ELSE @,
                                           !.name = IF @ = Blank THEN name ELSE @]

\* FnToolExecutor::execute.
Execute(tool, id, name) == IF tool.simple THEN Filled(Called(tool, id, name), id, name)
                                          ELSE Called(tool, id, name)

\* ToolResult::error for a name that no tool has.
NotFound(id, name) == [id |-> id, name |-> name, fn |-> None, error |-> TRUE]

\* One pass of the loop in execute_tools.
RunByName(registry, id, name) ==
  LET place == Get(registry, name)
  IN IF place = 0 THEN NotFound(id, name) ELSE Execute(registry[place], id, name)

\* Tools whose result does not carry the id of its call, whatever the crate does.
Careless(tool) == \/ tool.says = "other"
                  \/ tool.says = "nothing" /\ ~ tool.simple
=============================================================================
