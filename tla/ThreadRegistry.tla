---------------------------- MODULE ThreadRegistry ----------------------------
(***************************************************************************)
(* Which thread a person talks in: Agent::get_or_create_thread over table  *)
(* threads, beside clients that edit, delete and list threads through the  *)
(* storage traits.  ConversationStore keeps only the ids of this table.    *)
(*                                                                         *)
(* Every statement is atomic; a call is a lookup and an insert, an edit is *)
(* a read and an overwrite, a listing is one query per page.  An action is *)
(* the answer to one statement, with the code up to the next one.          *)
(*                                                                         *)
(* A row is a record [id, name, at, edits]: id is the call that built it   *)
(* (its UUID), name the external_id, at the created_at, and edits stands   *)
(* for title and metadata: the set of edits they are made of.              *)
(***************************************************************************)
EXTENDS Naturals, Sequences, FiniteSets

CONSTANTS Openers,     \* the calls of get_or_create_thread
          Editors,     \* the edits of a thread by a client
          Names,       \* external ids, each a sequence of characters
          Prefixes,    \* the prefixes listings are asked for
          AnyChar,     \* the character _, a wildcard of LIKE
          AnyRun,      \* the character %, the other one
          Escape,      \* the backslash: LIKE takes the next character as it is
          PageSize,    \* the limit of a page
          ClockSteps,  \* how far the clock moves between two stamps
          MaxDeletes,  \* bound: deletions
          MaxBegun     \* bound: calls, edits and listings begun

ASSUME ClockStepsAssumption == ClockSteps \subseteq Nat
ASSUME PageAssumption == PageSize \in Nat \ {0}
ASSUME DisjointAssumption == Openers \cap Editors = {}
\* Names and prefixes are strings.
ASSUME StringsAssumption ==
  \A s \in Names \union Prefixes : s \in Seq({s[i] : i \in DOMAIN s})
ASSUME EscapeAssumption == Escape \notin {AnyChar, AnyRun}

Clients == Openers \union Editors

VARIABLES
  rows,     \* table threads
  clock,    \* Utc::now()
  pc,       \* where each client is
  asks,     \* the name and the force_new each opener was called with
  stamp,    \* created_at of the thread an opener has built
  got,      \* the id of the thread an opener returned, in a set
  target,   \* the id an editor works on, in a set
  copy,     \* the contents an editor has read
  before,   \* history: the clients that had ended when this one began
  deleted,  \* history: the ids that were deleted
  listing   \* one reader's progress through the pages of list_threads

clientVars == <<asks, stamp, got, target, copy>>
vars == <<rows, clock, pc, clientVars, before, deleted, listing>>

Ended == {"ok", "storage_error", "not_found"}
NotListing == [state |-> "idle", prefix |-> <<>>, start |-> {}, gone |-> {},
               offset |-> 0, seen |-> {}]

Init == /\ rows = {}
        /\ clock = 0
        /\ pc = [p \in Clients |-> "idle"]
        /\ asks \in [Openers -> [name : Names, force_new : BOOLEAN]]
        /\ stamp = [c \in Openers |-> 0]
        /\ got = [c \in Openers |-> {}]
        /\ target = [e \in Editors |-> {}]
        /\ copy = [e \in Editors |-> {}]
        /\ before = [p \in Clients |-> {}]
        /\ deleted = {}
        /\ listing = NotListing

-----------------------------------------------------------------------------
(* The statements. *)

\* Slip: title and metadata are not read back.
GetThreadUntitled(ids) == {[r EXCEPT !.edits = {}] : r \in {q \in rows : q.id \in ids}}

\* SELECT ... WHERE id = $1.
GetThread(ids) == {r \in rows : r.id \in ids}

\* Slip: ORDER BY created_at ASC.
OldestByExternalId(name) ==
  {r \in rows : r.name = name /\ \A q \in rows : q.name = name => q.at >= r.at}

\* SELECT ... WHERE external_id = $1 ORDER BY created_at DESC LIMIT 1: one of these.
GetThreadByExternalId(name) ==
  {r \in rows : r.name = name /\ \A q \in rows : q.name = name => q.at =< r.at}

\* UPDATE threads SET ... WHERE id = $1: whole contents, and silent when the
\* row is gone.
UpdateThread(ids, contents) ==
  rows' = {IF r.id \in ids THEN [r EXCEPT !.edits = contents] ELSE r : r \in rows}

\* LIKE: name is cut into one piece for each character of the pattern.  An escape
\* stands for nothing, and the character behind it for itself, be it a wildcard
\* or another escape.
Like(pattern, name) ==
  \E cut \in [0..Len(pattern) -> 0..Len(name)], escapes \in SUBSET (1..Len(pattern)) :
    /\ cut[0] = 0 /\ cut[Len(pattern)] = Len(name)
    /\ \A i \in 1..Len(pattern) :
         /\ i \in escapes <=> pattern[i] = Escape /\ i - 1 \notin escapes
         /\ \/ i \in escapes /\ cut[i] = cut[i-1]
            \/ i \notin escapes /\ cut[i] = cut[i-1] + 1 /\ pattern[i] = name[cut[i]]
            \/ /\ {i, i - 1} \intersect escapes = {}
               /\ \/ pattern[i] = AnyRun /\ cut[i] >= cut[i-1]
                  \/ pattern[i] = AnyChar /\ cut[i] = cut[i-1] + 1

Matching(prefix) == {r \in rows : Like(Append(prefix, AnyRun), r.name)}

\* Slip: no ORDER BY.
AnyOrder(S) == {s \in [1..Cardinality(S) -> S] : S = {s[i] : i \in DOMAIN s}}

\* ORDER BY created_at DESC: rows with equal times come in any order, and not
\* in the same one each time.
NewestFirst(S) == {s \in AnyOrder(S) :
                     \A i, j \in DOMAIN s : i < j => s[i].at >= s[j].at}

\* LIMIT and OFFSET: the rows of a page of an ordered result.
Page(s, offset) == {s[i] : i \in {j \in DOMAIN s : offset < j /\ j =< offset + PageSize}}

-----------------------------------------------------------------------------
(* get_or_create_thread. *)

\* Of the calls, edits and the listing, MaxBegun may begin.
Begun == Cardinality({p \in Clients : pc[p] # "idle"})
           + (IF listing.state = "idle" THEN 0 ELSE 1)
MayBegin == Begun < MaxBegun

End(p, outcome) == pc' = [pc EXCEPT ![p] = outcome]

BeginClient(p) ==
  /\ MayBegin
  /\ before' = [before EXCEPT ![p] = {q \in Clients : pc[q] \in Ended}]

\* Thread::new: id and created_at are fixed before the INSERT is awaited.
BuildThread(c) == /\ \E d \in ClockSteps : /\ clock' = clock + d
                                           /\ stamp' = [stamp EXCEPT ![c] = clock + d]
                  /\ End(c, "insert")

\* The thread that c has built.
NewThread(c) == [id |-> c, name |-> asks[c].name, at |-> stamp[c], edits |-> {}]

\* Slip: force_new creates, and so does everyone else.
OpenAlwaysNew(c) ==
  /\ c \in Openers /\ pc[c] = "idle"
  /\ BeginClient(c)
  /\ BuildThread(c)
  /\ UNCHANGED <<rows, asks, got, target, copy, deleted, listing>>

\* The call, up to the answer to its lookup.
Open(c) ==
  /\ c \in Openers /\ pc[c] = "idle"
  /\ BeginClient(c)
  /\ \/ /\ asks[c].force_new \/ GetThreadByExternalId(asks[c].name) = {}
        /\ BuildThread(c)
        /\ UNCHANGED got
     \/ /\ ~ asks[c].force_new
        /\ \E r \in GetThreadByExternalId(asks[c].name) :
             got' = [got EXCEPT ![c] = {r.id}]
        /\ End(c, "ok")
        /\ UNCHANGED <<clock, stamp>>
     \/ /\ ~ asks[c].force_new
        /\ End(c, "storage_error")
        /\ UNCHANGED <<clock, stamp, got>>
  /\ UNCHANGED <<rows, asks, target, copy, deleted, listing>>

\* Slip: the error of the INSERT is not propagated.
InsertIgnoringErrors(c) ==
  /\ c \in Openers /\ pc[c] = "insert"
  /\ rows' \in {rows, rows \union {NewThread(c)}}
  /\ got' = [got EXCEPT ![c] = {c}]
  /\ End(c, "ok")
  /\ UNCHANGED <<clock, asks, stamp, target, copy, before, deleted, listing>>

\* Slip: a failed INSERT is tried again with a new time, and nothing makes ids
\* unique.
InsertRetried(c) ==
  /\ c \in Openers /\ pc[c] = "insert"
  /\ rows' = rows \union {NewThread(c)}
  /\ got' = [got EXCEPT ![c] = {c}]
  /\ \/ End(c, "ok") /\ UNCHANGED <<clock, stamp>>
     \/ BuildThread(c)
  /\ UNCHANGED <<asks, target, copy, before, deleted, listing>>

\* create_thread is answered.  An error may also be a lost answer: the row is
\* there and the caller does not know.
Insert(c) ==
  /\ c \in Openers /\ pc[c] = "insert"
  /\ \/ /\ rows' = rows \union {NewThread(c)}
        /\ got' = [got EXCEPT ![c] = {c}]
        /\ End(c, "ok")
     \/ /\ rows' \in {rows, rows \union {NewThread(c)}}
        /\ End(c, "storage_error")
        /\ UNCHANGED got
  /\ UNCHANGED <<clock, asks, stamp, target, copy, before, deleted, listing>>

-----------------------------------------------------------------------------
(* A client edits a thread: get_thread, a change, update_thread. *)

ReadThread(e) ==
  /\ e \in Editors /\ pc[e] = "idle"
  /\ BeginClient(e)
  /\ \E id \in Openers :
       /\ target' = [target EXCEPT ![e] = {id}]
       /\ \/ /\ \E r \in GetThread({id}) : copy' = [copy EXCEPT ![e] = r.edits]
             /\ End(e, "write")
          \/ /\ GetThread({id}) = {}
             /\ id \in deleted
             /\ End(e, "not_found")
             /\ UNCHANGED copy
  /\ UNCHANGED <<rows, clock, asks, stamp, got, deleted, listing>>

WriteThread(e) ==
  /\ e \in Editors /\ pc[e] = "write"
  /\ \/ /\ UpdateThread(target[e], copy[e] \union {e})
        /\ pc' \in {[pc EXCEPT ![e] = o] : o \in {"ok", "storage_error"}}
     \/ UNCHANGED rows /\ End(e, "storage_error")
  /\ copy' = [copy EXCEPT ![e] = {}]
  /\ UNCHANGED <<clock, asks, stamp, got, target, before, deleted, listing>>

\* A client deletes a thread.
DeleteThread(id) ==
  /\ Cardinality(deleted) < MaxDeletes
  /\ \E r \in rows : r.id = id
  /\ rows' = {r \in rows : r.id # id}
  /\ deleted' = deleted \union {id}
  /\ UNCHANGED <<clock, pc, clientVars, before, listing>>

-----------------------------------------------------------------------------
(* A client lists threads page by page until a page is not full. *)

StartsWith(prefix, name) == /\ Len(prefix) =< Len(name)
                            /\ \A i \in DOMAIN prefix : prefix[i] = name[i]

NoEscape(prefix) == \A i \in DOMAIN prefix : prefix[i] # Escape

BeginListing ==
  /\ MayBegin
  /\ listing.state = "idle"
  /\ \E p \in Prefixes :
       listing' = [NotListing EXCEPT
         !.state = "reading", !.prefix = p, !.gone = deleted,
         !.start = {r.id : r \in {q \in rows : StartsWith(p, q.name)}}]
  /\ UNCHANGED <<rows, clock, pc, clientVars, before, deleted>>

\* list_threads is answered.
FetchPage ==
  /\ listing.state = "reading"
  /\ \E s \in NewestFirst(Matching(listing.prefix)) :
       LET page == Page(s, listing.offset)
       IN  listing' = [listing EXCEPT
             !.seen = @ \union {r.id : r \in page},
             !.offset = @ + PageSize,
             !.state = IF Cardinality(page) < PageSize THEN "ended" ELSE "reading"]
  /\ UNCHANGED <<rows, clock, pc, clientVars, before, deleted>>

Next == \/ \E c \in Openers : Open(c) \/ Insert(c)
        \/ \E e \in Editors : ReadThread(e) \/ WriteThread(e)
        \/ \E id \in Openers : DeleteThread(id)
        \/ BeginListing \/ FetchPage

Spec == Init /\ [][Next]_vars

-----------------------------------------------------------------------------
(* Properties. *)

\* Every variable has its type, no two rows of the table share an id, and a
\* thread that was deleted does not come back, though an edit that had read it
\* is still to be written.
TypeOK ==
  /\ rows \subseteq [id : Openers, name : Names, at : 0..clock, edits : SUBSET Editors]
  /\ \A r, q \in rows : r.id = q.id => r = q
  /\ \A r \in rows : r.id \notin deleted
  /\ clock \in Nat
  /\ pc \in [Clients -> {"idle", "insert", "write"} \union Ended]
  /\ asks \in [Openers -> [name : Names, force_new : BOOLEAN]]
  /\ stamp \in [Openers -> 0..clock]
  /\ got \in [Openers -> SUBSET Openers]
  /\ target \in [Editors -> SUBSET Openers]
  /\ copy \in [Editors -> SUBSET Editors]
  /\ before \in [Clients -> SUBSET Clients]
  /\ deleted \subseteq Openers
  /\ listing \in [state : {"idle", "reading", "ended"}, prefix : Prefixes \union {<<>>},
                  start : SUBSET Openers, gone : SUBSET Openers,
                  offset : Nat, seen : SUBSET Openers]

\* No constraint keeps one thread per person, and get_or_create_thread is a
\* lookup and an insert: two calls without force_new may both create.  They can
\* do so only when they overlap, so one client that retries, even after an
\* insert whose answer was lost, never splits its own conversation.
SplitOnlyByOverlap ==
  \A r, q \in rows :
    (/\ r # q /\ r.name = q.name
     /\ ~ asks[r.id].force_new /\ ~ asks[q.id].force_new) => r.id \notin before[q.id]

\* Who asks after an earlier call for the same person has returned a thread,
\* forced or not, gets that thread or a younger one, as long as it exists:
\* conversations do not fall back to an abandoned thread.
NeverBackToAnOlderThread ==
  \A c, d \in Openers : \A r, q \in rows :
    (/\ pc[c] = "ok" /\ pc[d] = "ok" /\ d \in before[c]
     /\ asks[c].name = asks[d].name
     /\ r.id \in got[c] /\ q.id \in got[d]) => r.at >= q.at

\* The thread that get_or_create_thread returns is this person's, and is in the
\* table unless somebody deleted it, whatever failed on the way.
ReturnedThreadExists ==
  \A c \in Openers : pc[c] = "ok" =>
    \/ got[c] \intersect deleted # {}
    \/ \E r \in rows : r.id \in got[c] /\ r.name = asks[c].name

\* update_thread overwrites the whole row without a version.  An acknowledged
\* edit is lost only to another edit of the same thread that had begun before
\* this one was acknowledged.
EditLostOnlyToOverlappingEdit ==
  \A e \in Editors : \A r \in rows :
    r.id \in target[e] /\ pc[e] = "ok" /\ e \notin r.edits =>
      \E f \in Editors \ {e} : /\ target[f] = target[e] /\ pc[f] \in {"ok", "storage_error"}
                               /\ e \notin before[f]

\* A listing taken page by page shows every thread that was there when it began,
\* though threads are inserted meanwhile, some of them with earlier times: it
\* can miss one only when a thread was deleted meanwhile, or when two threads
\* have the same created_at, which the query does not tell apart.  "Filtered by
\* external ID prefix" (storage/types.rs:27) is not true of a prefix with a
\* backslash, which LIKE takes for its escape character: of those it says nothing.
ListingMissesNone ==
  (/\ listing.state = "ended" /\ NoEscape(listing.prefix)
   /\ listing.gone = deleted
   /\ \A r, q \in rows : r.at = q.at => r = q) => listing.start \subseteq listing.seen
=============================================================================
