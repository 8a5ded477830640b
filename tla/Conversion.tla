------------------------------ MODULE Conversion ------------------------------
(***************************************************************************)
(* Contents on their way between the gateway, the thread and a tool:       *)
(* context/convert.rs, the helpers at the end of agent/core.rs and of      *)
(* stream/executor.rs, and the accessors of a tool call in response.rs.    *)
(*                                                                         *)
(* A message is [role, blocks].  A block is [type, id, name, body]: type   *)
(* "text", "use" or "result" and, in a stored message only, "image" or     *)
(* "file"; body is the text, the arguments, or the function that gave the  *)
(* result.  The body of a file is the set of the parts it has, out of      *)
(* "url", "data", "mime" and "id"; an image has none.                      *)
(*                                                                         *)
(* A tool call of a response is [id, name, raw, args, rawArgs], where None *)
(* stands for an absent field.  A JSON value is named by its text, so that *)
(* parsing gives back the same name, except that Garbage is no JSON.       *)
(***************************************************************************)
EXTENDS ToolRegistry

CONSTANTS Garbage, Null, EmptyObject    \* texts: no JSON, null and {}

Block(type, id, name, body) == [type |-> type, id |-> id, name |-> name, body |-> body]
Text(body) == Block("text", Blank, Blank, body)

OrElse(a, b) == IF a # None THEN a ELSE b
Parse(text) == IF text \in {Garbage, Blank} THEN Null ELSE text

\* ToolCallBlock: tool_name with its default, parse_arguments, arguments_string.
ToolName(tc) == OrElse(OrElse(tc.name, tc.raw), "unknown")
ParseArguments(tc) == IF tc.args # None THEN tc.args
                      ELSE IF tc.rawArgs # None THEN Parse(tc.rawArgs) ELSE Null
ArgumentsString(tc) == OrElse(OrElse(tc.rawArgs, tc.args), EmptyObject)

\* Slip: the validated arguments are kept beside the raw text.
StreamedKeepingArguments(tc) ==
  LET name == OrElse(OrElse(tc.raw, tc.name), Blank)
      text == OrElse(OrElse(tc.rawArgs, tc.args), Blank)
  IN [tc EXCEPT !.name = name, !.raw = name, !.rawArgs = text]

\* A tool call that arrived as a stream (handle_content_block_start, build):
\* here the raw name comes first, and the text of the arguments is all there is.
Streamed(tc) ==
  LET name == OrElse(OrElse(tc.raw, tc.name), Blank)
      text == OrElse(OrElse(tc.rawArgs, tc.args), Blank)
  IN [tc EXCEPT !.name = name, !.raw = name, !.rawArgs = text,
                !.args = IF text \in {Garbage, Blank} THEN None ELSE text]

-----------------------------------------------------------------------------
(* A response [texts, calls] becomes a stored and a sent message. *)

\* convert_response_to_message_content, response_content_to_message_content.
\* (A lone text is unwrapped by the first and wrapped again by Message::assistant.)
StoredResponse(r) ==
  [role |-> "assistant",
   blocks |-> [i \in DOMAIN r.texts |-> Text(r.texts[i])] \o
              [i \in DOMAIN r.calls |->
                 Block("use", r.calls[i].id, ToolName(r.calls[i]), ParseArguments(r.calls[i]))]]

\* Slip: the text beside the tool calls is left out.
SentResponseWithoutText(r) ==
  [role |-> "assistant",
   blocks |-> [i \in DOMAIN r.calls |->
                 Block("use", r.calls[i].id, ToolName(r.calls[i]), ParseArguments(r.calls[i]))]]

\* response_to_input_message.
SentResponse(r) ==
  [role |-> "assistant",
   blocks |-> [i \in DOMAIN r.texts |-> Text(r.texts[i])] \o
              [i \in DOMAIN r.calls |->
                 Block("use", r.calls[i].id, ToolName(r.calls[i]), ParseArguments(r.calls[i]))]]

\* tool_results_to_message: one message, errors marked.
StoredResults(results) ==
  [role |-> "user",
   blocks |-> [i \in DOMAIN results |->
                 [type |-> "result", id |-> results[i].id, name |-> results[i].name,
                  body |-> results[i].fn, error |-> results[i].error]]]

\* InputMessage::tool_result for each result: a message of its own.
SentResults(results) ==
  [i \in DOMAIN results |->
     [role |-> "user",
      blocks |-> <<Block("result", results[i].id, results[i].name, results[i].fn)>>]]

-----------------------------------------------------------------------------
(* A stored message becomes a sent one. *)

\* A file is mentioned by its URL, else by its data if the type is known, else
\* by its id, else not at all.
FileMention(parts) ==
  CASE "url" \in parts -> <<Text("url")>>
    [] "url" \notin parts /\ {"data", "mime"} \subseteq parts -> <<Text("data")>>
    [] "url" \notin parts /\ ~ {"data", "mime"} \subseteq parts /\ "id" \in parts
         -> <<Text("id")>>
    [] OTHER -> <<>>

\* convert_content_block: images are dropped, the error mark of a result too.
ConvertContentBlock(b) ==
  CASE b.type = "image" -> <<>>
    [] b.type = "file" -> FileMention(b.body)
    [] OTHER -> <<Block(b.type, b.id, b.name, b.body)>>

ConvertMessageToInput(m) ==
  [role |-> m.role, blocks |-> FlattenSeq([i \in DOMAIN m.blocks |->
                                             ConvertContentBlock(m.blocks[i])])]
ConvertMessagesToInput(ms) == [i \in DOMAIN ms |-> ConvertMessageToInput(ms[i])]
=============================================================================
