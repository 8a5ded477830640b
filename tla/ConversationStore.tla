-------------------------- MODULE ConversationStore --------------------------
(***************************************************************************)
(* The two conversation tables of PostgresStorage: threads and messages.   *)
(* Every operation of the storage traits is one autocommit SQL statement,  *)
(* so each is one atomic operator here and nothing spans two of them.      *)
(*                                                                         *)
(* A message row is a record                                               *)
(*   [call, pos, kind, thread, at, n]                                      *)
(* where <<call, pos>> stands for its UUID (the chat call that built it    *)
(* and its place among that call's messages), kind for its role and        *)
(* content (see Kinds), n for the number of tool blocks in its content and *)
(* at for created_at, which the application stamps when it builds the      *)
(* message, before the INSERT is awaited.                                  *)
(*                                                                         *)
(* In all modules a definition marked "Slip:" is a plausible mistake in    *)
(* the definition that follows it; no specification uses it.  The README   *)
(* names the property that each of them breaks.                            *)
(***************************************************************************)
EXTENDS Naturals

CONSTANTS Threads      \* the thread ids in use

VARIABLES threads,     \* the rows of table threads
          messages     \* the rows of table messages

storeVars == <<threads, messages>>

\* user: the text of the person; toolUse: an assistant message with tool
\* calls; toolResult: the results, stored with role user; reply: an assistant
\* message without tool calls.
Kinds == {"user", "toolUse", "toolResult", "reply"}

Id(m) == <<m.call, m.pos>>

\* SELECT ... WHERE id = $1, and the rows of a thread (the caller gets them
\* ordered by at; rows with equal at come in any order).
GetThread(t) == t \in threads
GetThreadMessages(t) == {m \in messages : m.thread = t}

\* INSERT INTO messages; the foreign key rejects a row of an absent thread.
Accepts(m) == m.thread \in threads
CreateMessage(m) == /\ Accepts(m)
                    /\ messages' = messages \union {m}
                    /\ UNCHANGED threads

\* DELETE FROM threads; ON DELETE CASCADE removes the thread's messages.
DeleteThread(t) == /\ threads' = threads \ {t}
                   /\ messages' = messages \ GetThreadMessages(t)

DeleteMessage(id) == /\ messages' = {m \in messages : Id(m) # id}
                     /\ UNCHANGED threads

\* Slip: >= for >.
AfterOrAt(t, id) == {m \in GetThreadMessages(t) :
                        \E a \in messages : Id(a) = id /\ m.at >= a.at}

\* DELETE ... WHERE thread_id = $1 AND created_at > (SELECT created_at FROM
\* messages WHERE id = $2): an absent id compares with NULL and deletes
\* nothing, and the id is looked up in every thread.
After(t, id) == {m \in GetThreadMessages(t) :
                    \E a \in messages : Id(a) = id /\ m.at > a.at}
DeleteMessagesAfter(t, id) == /\ messages' = messages \ After(t, id)
                              /\ UNCHANGED threads

\* The foreign key of messages.thread_id: a row's thread is a row of threads.
\* A call that still runs when its thread is deleted must not be able to break it.
NoOrphanRows == \A m \in messages : m.thread \in threads
=============================================================================
