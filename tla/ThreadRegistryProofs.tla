------------------------- MODULE ThreadRegistryProofs -------------------------
(* Theorems about ThreadRegistry, for every value of its constants. *)
EXTENDS ThreadRegistry, FiniteSetTheorems, WellFoundedInduction, TLAPS

USE ClockStepsAssumption, PageAssumption, DisjointAssumption

(***************************************************************************)
(* What TypeOK needs to be inductive: the one INSERT of a call finds no    *)
(* row with its id, because a call that has not inserted has left no row   *)
(* and nobody can have deleted one.                                        *)
(***************************************************************************)
Fresh(c) == pc[c] \in {"idle", "insert"}

NothingBeforeInsert ==
  \A c \in Openers : Fresh(c) => c \notin deleted /\ \A r \in rows : r.id # c

\* A row is what the call of its id has built.
RowsAsBuilt == \A r \in rows : r.name = asks[r.id].name /\ r.at = stamp[r.id]

\* Who had ended when somebody began is still ended.
BeforeHasEnded == \A p \in Clients : \A q \in before[p] : pc[q] \in Ended

BaseInv == TypeOK /\ NothingBeforeInsert /\ RowsAsBuilt /\ BeforeHasEnded

(***************************************************************************)
(* SplitOnlyByOverlap: a lookup that found nothing still means, when the   *)
(* INSERT is answered, that no earlier call has a row for this person.     *)
(***************************************************************************)
LookupStillTrue ==
  \A c \in Openers : pc[c] = "insert" /\ ~ asks[c].force_new =>
    \A r \in rows : r.name = asks[c].name => r.id \notin before[c]

(***************************************************************************)
(* NeverBackToAnOlderThread: the thread a call holds is this person's and  *)
(* is no call's still to be inserted, and a thread being inserted is as    *)
(* young as each thread its earlier callers returned.                      *)
(***************************************************************************)
GotThisPersons ==
  \A c \in Openers : \A x \in got[c] : /\ ~ Fresh(x)
                                       /\ \A r \in rows : r.id = x => r.name = asks[c].name

BuiltYounger ==
  \A c, d \in Openers : \A q \in rows :
    (/\ pc[c] = "insert" /\ pc[d] = "ok" /\ d \in before[c]
     /\ asks[c].name = asks[d].name /\ q.id \in got[d]) => stamp[c] >= q.at

OpenersInv == /\ LookupStillTrue /\ SplitOnlyByOverlap
              /\ GotThisPersons /\ BuiltYounger /\ NeverBackToAnOlderThread
              /\ ReturnedThreadExists

(***************************************************************************)
(* EditLostOnlyToOverlappingEdit: what an editor has read holds every edit *)
(* acknowledged before it began, or one that overwrote it.                 *)
(***************************************************************************)
Overwritten(e) ==
  \E f \in Editors \ {e} : /\ target[f] = target[e] /\ pc[f] \in {"ok", "storage_error"}
                           /\ e \notin before[f]

OneTarget ==
  \A e \in Editors : /\ pc[e] # "idle" => \E id \in Openers : target[e] = {id} /\ ~ Fresh(id)
                     /\ pc[e] = "idle" => target[e] = {}

CopyHoldsEarlierEdits ==
  \A e, f \in Editors :
    (/\ pc[f] = "write" /\ pc[e] = "ok" /\ e \in before[f] /\ target[e] = target[f])
      => e \in copy[f] \/ Overwritten(e)

EditorsInv == OneTarget /\ CopyHoldsEarlierEdits /\ EditLostOnlyToOverlappingEdit

(***************************************************************************)
(* ListingMissesNone: while nothing is deleted and no two rows share a     *)
(* time, each thread of the start that is not seen yet has at least offset *)
(* matching threads above it, so inserts only push it towards later pages. *)
(***************************************************************************)
Undisturbed == /\ listing.gone = deleted
               /\ \A r, q \in rows : r.at = q.at => r = q

\* The ids of the threads listed above a row.
Above(r) == {q.id : q \in {t \in Matching(listing.prefix) : t.at > r.at}}

StartStays ==
  listing.state # "idle" =>
    /\ listing.gone \subseteq deleted
    /\ listing.gone = deleted =>
         \A id \in listing.start :
           \E r \in rows : r.id = id /\ r \in Matching(listing.prefix)

NoneSkipped ==
  listing.state = "reading" /\ Undisturbed =>
    \A r \in rows : r.id \in listing.start \ listing.seen =>
      Cardinality(Above(r)) >= listing.offset

ListingInv == /\ IsFiniteSet(rows)
              /\ NoEscape(listing.prefix) => StartStays /\ NoneSkipped /\ ListingMissesNone

-----------------------------------------------------------------------------
\* A client is an opener or an editor, and not both.
LEMMA ClientsSplit == /\ Openers \subseteq Clients /\ Editors \subseteq Clients
                      /\ \A p \in Openers : p \notin Editors
BY DEF Clients

\* Building a thread moves the clock on and stamps that thread only.
LEMMA BuildType ==
  ASSUME TypeOK, NEW c \in Openers, BuildThread(c)
  PROVE  /\ clock' \in Nat /\ clock' >= clock
         /\ stamp' = [stamp EXCEPT ![c] = clock']
         /\ stamp' \in [Openers -> 0..clock']
         /\ pc' = [pc EXCEPT ![c] = "insert"]
<1>1. PICK d \in ClockSteps : clock' = clock + d /\ stamp' = [stamp EXCEPT ![c] = clock + d]
  BY DEF BuildThread
<1>2. d \in Nat /\ clock \in Nat
  BY DEF TypeOK
<1> QED BY <1>1, <1>2 DEF TypeOK, BuildThread, End

\* Beginning keeps the history typed.
LEMMA BeginType ==
  ASSUME TypeOK, NEW p \in Clients, BeginClient(p)
  PROVE  /\ before' \in [Clients -> SUBSET Clients]
         /\ before' = [before EXCEPT ![p] = {q \in Clients : pc[q] \in Ended}]
BY DEF TypeOK, BeginClient

\* The type of a row.
Row == [id : Openers, name : Names, at : Nat, edits : SUBSET Editors]

\* An edit of the table keeps each row but for its contents, and no row is lost.
LEMMA UpdateRows ==
  ASSUME NEW ids, NEW contents \in SUBSET Editors, UpdateThread(ids, contents),
         rows \subseteq Row
  PROVE  /\ \A r \in rows' :
              \E q \in rows : /\ r \in Row
                             /\ r.id = q.id /\ r.name = q.name /\ r.at = q.at
                             /\ r.edits = IF q.id \in ids THEN contents ELSE q.edits
         /\ \A q \in rows : \E r \in rows' : r.id = q.id /\ r.name = q.name /\ r.at = q.at
<1>1. \A q \in rows : LET r == IF q.id \in ids THEN [q EXCEPT !.edits = contents] ELSE q
                     IN  /\ r \in Row
                         /\ r.id = q.id /\ r.name = q.name /\ r.at = q.at
                         /\ r.edits = IF q.id \in ids THEN contents ELSE q.edits
  BY DEF Row
<1> QED BY <1>1, ZenonT(60) DEF UpdateThread

\* The rows of a typed table are typed.
LEMMA RowsTyped == ASSUME TypeOK PROVE rows \subseteq Row
BY DEF TypeOK, Row

\* The type of a listing.
Listing == [state : {"idle", "reading", "ended"}, prefix : Prefixes \union {<<>>},
            start : SUBSET Openers, gone : SUBSET Openers,
            offset : Nat, seen : SUBSET Openers]

\* Two rows with the same fields are one.
LEMMA RowExtensional ==
  ASSUME NEW r \in Row, NEW q \in Row,
         r.id = q.id, r.name = q.name, r.at = q.at, r.edits = q.edits
  PROVE  r = q
BY DEF Row

\* The answer to an edit keeps the table typed, and one row per id.
LEMMA UpdateType ==
  ASSUME TypeOK, NEW ids, NEW contents \in SUBSET Editors, UpdateThread(ids, contents)
  PROVE  /\ rows' \subseteq [id : Openers, name : Names, at : 0..clock, edits : SUBSET Editors]
         /\ \A r, q \in rows' : r.id = q.id => r = q
         /\ \A r \in rows' : r.id \notin deleted
<1>1. \A r \in rows' :
        \E q \in rows : /\ r \in Row
                       /\ r.id = q.id /\ r.name = q.name /\ r.at = q.at
                       /\ r.edits = IF q.id \in ids THEN contents ELSE q.edits
  BY UpdateRows, RowsTyped
<1>2. \A r \in rows : r.at \in 0..clock /\ r.id \notin deleted
  BY DEF TypeOK
<1>3. \A r \in rows' : r \in [id : Openers, name : Names, at : 0..clock, edits : SUBSET Editors]
  BY <1>1, <1>2 DEF Row
<1>4. ASSUME NEW r \in rows', NEW q \in rows', r.id = q.id PROVE r = q
  <2>1. PICK s \in rows : /\ r \in Row
                         /\ r.id = s.id /\ r.name = s.name /\ r.at = s.at
                         /\ r.edits = IF s.id \in ids THEN contents ELSE s.edits
    BY <1>1
  <2>2. PICK t \in rows : /\ q \in Row
                         /\ q.id = t.id /\ q.name = t.name /\ q.at = t.at
                         /\ q.edits = IF t.id \in ids THEN contents ELSE t.edits
    BY <1>1
  <2>3. s = t
    BY <1>4, <2>1, <2>2, ZenonT(60) DEF TypeOK
  <2> QED BY <2>1, <2>2, <2>3, RowExtensional
<1> QED BY <1>1, <1>2, <1>3, <1>4

\* The row a call inserts is typed, and its id is new to the table.
LEMMA NewThreadType ==
  ASSUME TypeOK, NothingBeforeInsert, NEW c \in Openers, pc[c] = "insert"
  PROVE  /\ NewThread(c) \in [id : Openers, name : Names, at : 0..clock, edits : SUBSET Editors]
         /\ NewThread(c).id = c /\ NewThread(c).name = asks[c].name
         /\ NewThread(c).at = stamp[c] /\ NewThread(c).edits = {}
         /\ c \notin deleted /\ \A r \in rows : r.id # c
BY DEF TypeOK, NothingBeforeInsert, Fresh, NewThread

\* Every value the code can reach is of its type, no two rows share an id and
\* no deleted thread comes back; with it, what TypeOK needs to be inductive.
THEOREM BaseInvariant == Spec => []BaseInv
<1>1. Init => BaseInv
  BY DEF Init, BaseInv, TypeOK, NothingBeforeInsert, RowsAsBuilt, BeforeHasEnded, NotListing
<1>2. BaseInv /\ [Next]_vars => BaseInv'
  <2> SUFFICES ASSUME BaseInv, [Next]_vars PROVE BaseInv'
    OBVIOUS
  <2> USE ClientsSplit
  <2>1. ASSUME NEW c \in Openers, Open(c) PROVE BaseInv'
    <3>1. /\ before' \in [Clients -> SUBSET Clients]
          /\ before' = [before EXCEPT ![c] = {q \in Clients : pc[q] \in Ended}]
      BY <2>1, BeginType DEF BaseInv, Open
    <3>2. CASE BuildThread(c) /\ UNCHANGED got
      <4>1. /\ clock' \in Nat /\ clock' >= clock
            /\ stamp' = [stamp EXCEPT ![c] = clock']
            /\ stamp' \in [Openers -> 0..clock']
            /\ pc' = [pc EXCEPT ![c] = "insert"]
        BY <3>2, BuildType DEF BaseInv
      <4>2. TypeOK'
        BY <2>1, <3>1, <3>2, <4>1 DEF BaseInv, TypeOK, Open
      <4>3. NothingBeforeInsert'
        BY <2>1, <4>1 DEF BaseInv, TypeOK, Open, NothingBeforeInsert, Fresh
      <4>4. RowsAsBuilt'
        BY <2>1, <4>1 DEF BaseInv, TypeOK, Open, NothingBeforeInsert, RowsAsBuilt, Fresh
      <4>5. BeforeHasEnded'
        BY <2>1, <3>1, <4>1 DEF BaseInv, TypeOK, Open, BeforeHasEnded, Ended
      <4> QED BY <4>2, <4>3, <4>4, <4>5 DEF BaseInv
    <3>3. CASE /\ UNCHANGED <<clock, stamp>> /\ got' \in [Openers -> SUBSET Openers]
               /\ \E o \in {"ok", "storage_error"} : pc' = [pc EXCEPT ![c] = o]
      <4>1. TypeOK'
        BY <2>1, <3>1, <3>3 DEF BaseInv, TypeOK, Open, Ended
      <4>2. NothingBeforeInsert'
        BY <2>1, <3>3 DEF BaseInv, TypeOK, Open, NothingBeforeInsert, Fresh
      <4>3. RowsAsBuilt'
        BY <2>1, <3>3 DEF BaseInv, Open, RowsAsBuilt
      <4>4. BeforeHasEnded'
        BY <2>1, <3>1, <3>3 DEF BaseInv, TypeOK, Open, BeforeHasEnded, Ended
      <4> QED BY <4>1, <4>2, <4>3, <4>4 DEF BaseInv
    <3>4. ASSUME NEW r \in GetThreadByExternalId(asks[c].name),
                 got' = [got EXCEPT ![c] = {r.id}]
          PROVE  got' \in [Openers -> SUBSET Openers]
      BY <3>4 DEF GetThreadByExternalId, BaseInv, TypeOK
    <3> QED BY <2>1, <3>2, <3>3, <3>4 DEF Open, End, BaseInv, TypeOK
  <2>2. ASSUME NEW c \in Openers, Insert(c) PROVE BaseInv'
    <3> DEFINE n == NewThread(c)
    <3>1. /\ n \in [id : Openers, name : Names, at : 0..clock, edits : SUBSET Editors]
          /\ n.id = c /\ n.name = asks[c].name /\ n.at = stamp[c]
          /\ c \notin deleted /\ \A r \in rows : r.id # c
      BY <2>2, NewThreadType DEF BaseInv, Insert
    <3>2. /\ rows' \in {rows, rows \union {n}}
          /\ \E o \in {"ok", "storage_error"} : pc' = [pc EXCEPT ![c] = o]
          /\ got' \in [Openers -> SUBSET Openers]
      BY <2>2 DEF Insert, End, BaseInv, TypeOK
    <3> HIDE DEF n
    <3>3. TypeOK'
      BY <2>2, <3>1, <3>2 DEF BaseInv, TypeOK, Insert, Ended
    <3>4. NothingBeforeInsert'
      BY <2>2, <3>1, <3>2 DEF BaseInv, TypeOK, Insert, NothingBeforeInsert, Fresh
    <3>5. RowsAsBuilt'
      BY <2>2, <3>1, <3>2 DEF BaseInv, Insert, RowsAsBuilt
    <3>6. BeforeHasEnded'
      BY <2>2, <3>2 DEF BaseInv, TypeOK, Insert, BeforeHasEnded, Ended
    <3> QED BY <3>3, <3>4, <3>5, <3>6 DEF BaseInv
  <2>3. ASSUME NEW e \in Editors, ReadThread(e) PROVE BaseInv'
    <3>1. /\ before' \in [Clients -> SUBSET Clients]
          /\ before' = [before EXCEPT ![e] = {q \in Clients : pc[q] \in Ended}]
      BY <2>3, BeginType DEF BaseInv, ReadThread, Clients
    <3>2. /\ target' \in [Editors -> SUBSET Openers] /\ copy' \in [Editors -> SUBSET Editors]
          /\ \E o \in {"write", "not_found"} : pc' = [pc EXCEPT ![e] = o]
      BY <2>3, SMTT(30) DEF BaseInv, TypeOK, ReadThread, GetThread, End
    <3>3. TypeOK'
      BY <2>3, <3>1, <3>2 DEF BaseInv, TypeOK, ReadThread, Ended
    <3>4. NothingBeforeInsert'
      BY <2>3, <3>2 DEF BaseInv, TypeOK, ReadThread, NothingBeforeInsert, Fresh
    <3>5. RowsAsBuilt'
      BY <2>3 DEF BaseInv, ReadThread, RowsAsBuilt
    <3>6. BeforeHasEnded'
      BY <2>3, <3>1, <3>2 DEF BaseInv, TypeOK, ReadThread, BeforeHasEnded, Ended
    <3> QED BY <3>3, <3>4, <3>5, <3>6 DEF BaseInv
  <2>4. ASSUME NEW e \in Editors, WriteThread(e) PROVE BaseInv'
    <3>1. \E o \in {"ok", "storage_error"} : pc' = [pc EXCEPT ![e] = o]
      BY <2>4 DEF WriteThread, End
    <3>2. copy[e] \union {e} \in SUBSET Editors
      BY DEF BaseInv, TypeOK
    <3>3. /\ rows' \subseteq [id : Openers, name : Names, at : 0..clock, edits : SUBSET Editors]
          /\ \A r, q \in rows' : r.id = q.id => r = q
          /\ \A r \in rows' : r.id \notin deleted
      <4>1. CASE UpdateThread(target[e], copy[e] \union {e})
        BY <3>2, <4>1, UpdateType DEF BaseInv
      <4>2. CASE UNCHANGED rows
        BY <4>2 DEF BaseInv, TypeOK
      <4> QED BY <2>4, <4>1, <4>2 DEF WriteThread
    <3>4. \A r \in rows' : \E q \in rows : r.id = q.id /\ r.name = q.name /\ r.at = q.at
      <4>1. CASE UpdateThread(target[e], copy[e] \union {e})
        BY <3>2, <4>1, UpdateRows, RowsTyped DEF BaseInv
      <4>2. CASE UNCHANGED rows
        BY <4>2
      <4> QED BY <2>4, <4>1, <4>2 DEF WriteThread
    <3>5. TypeOK'
      BY <2>4, <3>1, <3>3 DEF BaseInv, TypeOK, WriteThread, Ended
    <3>6. NothingBeforeInsert'
      BY <2>4, <3>1, <3>4 DEF BaseInv, TypeOK, WriteThread, NothingBeforeInsert, Fresh
    <3>7. RowsAsBuilt'
      BY <2>4, <3>4 DEF BaseInv, WriteThread, RowsAsBuilt
    <3>8. BeforeHasEnded'
      BY <2>4, <3>1 DEF BaseInv, TypeOK, WriteThread, BeforeHasEnded, Ended
    <3> QED BY <3>5, <3>6, <3>7, <3>8 DEF BaseInv
  <2>5. ASSUME NEW id \in Openers, DeleteThread(id) PROVE BaseInv'
    BY <2>5 DEF BaseInv, TypeOK, DeleteThread, clientVars, NothingBeforeInsert, Fresh,
                RowsAsBuilt, BeforeHasEnded
  <2>6. CASE BeginListing
    <3>1. \A p : {r.id : r \in {q \in rows : StartsWith(p, q.name)}} \in SUBSET Openers
      BY DEF BaseInv, TypeOK
    <3>2. PICK p \in Prefixes :
            listing' = [NotListing EXCEPT
              !.state = "reading", !.prefix = p, !.gone = deleted,
              !.start = {r.id : r \in {q \in rows : StartsWith(p, q.name)}}]
      BY <2>6 DEF BeginListing
    <3>3. deleted \in SUBSET Openers
      BY DEF BaseInv, TypeOK
    <3> DEFINE st == {r.id : r \in {q \in rows : StartsWith(p, q.name)}}
    <3>4. listing' = [state |-> "reading", prefix |-> p, start |-> st, gone |-> deleted,
                      offset |-> 0, seen |-> {}]
      BY <3>2 DEF NotListing
    <3>5. st \in SUBSET Openers
      BY <3>1
    <3> HIDE DEF st
    <3>6. listing' \in Listing
      BY <3>3, <3>4, <3>5 DEF Listing
    <3> QED
      BY <2>6, <3>6 DEF Listing, BaseInv, TypeOK, BeginListing, clientVars, NothingBeforeInsert, Fresh,
                        RowsAsBuilt, BeforeHasEnded
  <2>7. CASE FetchPage
    <3>1. PICK s \in NewestFirst(Matching(listing.prefix)) :
            LET page == Page(s, listing.offset)
            IN  listing' = [listing EXCEPT
                  !.seen = @ \union {r.id : r \in page},
                  !.offset = @ + PageSize,
                  !.state = IF Cardinality(page) < PageSize THEN "ended" ELSE "reading"]
      BY <2>7 DEF FetchPage
    <3>2. Page(s, listing.offset) \subseteq rows
      BY DEF Page, NewestFirst, AnyOrder, Matching
    <3>3. {r.id : r \in Page(s, listing.offset)} \subseteq Openers
      BY <3>2 DEF BaseInv, TypeOK
    <3> DEFINE ids == {r.id : r \in Page(s, listing.offset)}
               st == IF Cardinality(Page(s, listing.offset)) < PageSize THEN "ended" ELSE "reading"
    <3>4. /\ listing' = [listing EXCEPT !.seen = @ \union ids, !.offset = @ + PageSize, !.state = st]
          /\ ids \in SUBSET Openers /\ st \in {"idle", "reading", "ended"}
      BY <3>1, <3>3
    <3> HIDE DEF ids, st
    <3>5. listing \in Listing
      BY DEF BaseInv, TypeOK, Listing
    <3>6. listing' \in Listing
      <4>1. listing' = [state |-> st, prefix |-> listing.prefix, start |-> listing.start,
                        gone |-> listing.gone, offset |-> listing.offset + PageSize,
                        seen |-> listing.seen \union ids]
        BY <3>4, <3>5 DEF Listing
      <4>2. /\ listing.offset + PageSize \in Nat /\ listing.seen \union ids \in SUBSET Openers
            /\ listing.prefix \in Prefixes \union {<<>>}
            /\ listing.start \in SUBSET Openers /\ listing.gone \in SUBSET Openers
        BY <3>4, <3>5 DEF Listing
      <4> QED BY <3>4, <4>1, <4>2 DEF Listing
    <3> QED
      BY <2>7, <3>6 DEF Listing, BaseInv, TypeOK, FetchPage, clientVars, NothingBeforeInsert, Fresh,
                        RowsAsBuilt, BeforeHasEnded
  <2>8. CASE UNCHANGED vars
    BY <2>8 DEF BaseInv, TypeOK, vars, clientVars, NothingBeforeInsert, Fresh,
                RowsAsBuilt, BeforeHasEnded
  <2> QED BY <2>1, <2>2, <2>3, <2>4, <2>5, <2>6, <2>7, <2>8 DEF Next
<1> QED BY <1>1, <1>2, PTL DEF Spec

\* A set of naturals that is not empty has a least element.
LEMMA LeastExists == ASSUME NEW T, T \subseteq Nat, T # {}
                     PROVE  \E k \in T : \A l \in T : k <= l
<1>1. PICK k \in T : \A l \in T : ~ (<<l, k>> \in OpToRel(<, Nat))
  BY WFMin, NatLessThanWellFounded
<1>2. \A l \in T : ~ (l < k)
  BY <1>1 DEF OpToRel
<1> QED BY <1>2

\* Some of the rows of a table are the youngest, when there are any.
LEMMA YoungestExists ==
  ASSUME NEW S, S # {}, NEW n \in Nat, \A r \in S : r.at \in 0..n
  PROVE  \E q \in S : \A t \in S : t.at =< q.at
<1> DEFINE T == {k \in Nat : \E r \in S : r.at = n - k}
<1>1. T # {}
  <2>1. PICK r \in S : r.at \in 0..n
    OBVIOUS
  <2>2. n - r.at \in Nat /\ r.at = n - (n - r.at)
    BY <2>1
  <2> QED BY <2>2
<1>2. PICK k \in T : \A l \in T : k <= l
  <2> HIDE DEF T
  <2>1. T \subseteq Nat
    BY DEF T
  <2> QED BY <1>1, <2>1, LeastExists
<1>3. PICK q \in S : q.at = n - k
  OBVIOUS
<1>4. ASSUME NEW t \in S PROVE t.at =< q.at
  <2>1. n - t.at \in Nat /\ t.at = n - (n - t.at) /\ t.at \in Nat
    OBVIOUS
  <2>2. k <= n - t.at
    BY <1>2, <2>1
  <2> QED BY <1>3, <2>1, <2>2
<1> QED BY <1>4

-----------------------------------------------------------------------------
\* A row still in the table, whatever an editor has written into it.
SameThread(r, q) == r.id = q.id /\ r.name = q.name /\ r.at = q.at

\* The answer to an edit leaves the same threads in the table.
LEMMA WriteKeepsThreads ==
  ASSUME BaseInv, NEW e \in Editors, WriteThread(e)
  PROVE  /\ \A r \in rows' : \E q \in rows : SameThread(r, q)
         /\ \A q \in rows : \E r \in rows' : SameThread(r, q)
<1>1. copy[e] \union {e} \in SUBSET Editors
  BY DEF BaseInv, TypeOK
<1>2. CASE UpdateThread(target[e], copy[e] \union {e})
  BY <1>1, <1>2, UpdateRows, RowsTyped DEF BaseInv, SameThread
<1>3. CASE UNCHANGED rows
  BY <1>3 DEF SameThread
<1> QED BY <1>2, <1>3 DEF WriteThread

\* A step that inserts no thread and moves no opener keeps what is said of them.
LEMMA OpenersUntouched ==
  ASSUME BaseInv, BaseInv', OpenersInv, UNCHANGED <<asks, stamp, got>>,
         \A c \in Openers : pc'[c] = pc[c] /\ before'[c] = before[c],
         \A r \in rows' : \E q \in rows : SameThread(r, q),
         \A q \in rows : q.id \in deleted' \/ \E r \in rows' : SameThread(r, q),
         deleted \subseteq deleted'
  PROVE  OpenersInv'
<1> USE DEF OpenersInv, BaseInv, SameThread
<1>1. LookupStillTrue'
  BY DEF LookupStillTrue
<1>2. SplitOnlyByOverlap'
  <2> SUFFICES ASSUME NEW r \in rows', NEW q \in rows', r # q, r.name = q.name,
                      ~ asks[r.id].force_new, ~ asks[q.id].force_new
               PROVE  r.id \notin before'[q.id]
    BY DEF SplitOnlyByOverlap
  <2>1. PICK s \in rows : SameThread(r, s)
    OBVIOUS
  <2>2. PICK t \in rows : SameThread(q, t)
    OBVIOUS
  <2>3. r.id # q.id
    BY DEF TypeOK
  <2>4. s # t /\ s.name = t.name /\ q.id \in Openers
    BY <2>1, <2>2, <2>3 DEF TypeOK
  <2>5. s.id \notin before[t.id]
    BY <2>1, <2>2, <2>4 DEF SplitOnlyByOverlap
  <2> QED BY <2>1, <2>2, <2>4, <2>5
<1>3. GotThisPersons'
  BY DEF GotThisPersons, Fresh, TypeOK
<1>4. BuiltYounger'
  BY DEF BuiltYounger
<1>5. NeverBackToAnOlderThread'
  <2> SUFFICES ASSUME NEW c \in Openers, NEW d \in Openers, NEW r \in rows', NEW q \in rows',
                      pc'[c] = "ok", pc'[d] = "ok", d \in before'[c],
                      asks[c].name = asks[d].name, r.id \in got[c], q.id \in got[d]
               PROVE  r.at >= q.at
    BY DEF NeverBackToAnOlderThread
  <2>1. PICK s \in rows : SameThread(r, s)
    OBVIOUS
  <2>2. PICK t \in rows : SameThread(q, t)
    OBVIOUS
  <2> QED BY <2>1, <2>2 DEF NeverBackToAnOlderThread
<1>6. ReturnedThreadExists'
  <2> SUFFICES ASSUME NEW c \in Openers, pc'[c] = "ok", got[c] \intersect deleted' = {}
               PROVE  \E r \in rows' : r.id \in got[c] /\ r.name = asks[c].name
    BY DEF ReturnedThreadExists
  <2>1. PICK q \in rows : q.id \in got[c] /\ q.name = asks[c].name
    BY DEF ReturnedThreadExists
  <2> QED BY <2>1
<1> QED BY <1>1, <1>2, <1>3, <1>4, <1>5, <1>6

\* A call that begins keeps it: its lookup finds the youngest thread, or none.
LEMMA OpenKeeps ==
  ASSUME BaseInv, BaseInv', OpenersInv, NEW c \in Openers, Open(c)
  PROVE  OpenersInv'
<1> USE ClientsSplit DEF OpenersInv, BaseInv
<1>1. /\ before' = [before EXCEPT ![c] = {q \in Clients : pc[q] \in Ended}]
      /\ pc[c] = "idle" /\ UNCHANGED <<rows, asks, target, copy, deleted, listing>>
      /\ \A r \in rows : r.id # c
  BY BeginType DEF Open, NothingBeforeInsert, Fresh
<1>2. \A d \in Openers : c \notin before[d] /\ c \notin before'[d]
  BY <1>1, ZenonT(60) DEF BeforeHasEnded, Ended, TypeOK
<1>3. \A d \in Openers \ {c} : before'[d] = before[d]
  BY <1>1 DEF TypeOK
<1>4. CASE /\ asks[c].force_new \/ GetThreadByExternalId(asks[c].name) = {}
           /\ BuildThread(c) /\ UNCHANGED got
  <2>1. /\ clock' \in Nat /\ clock' >= clock
        /\ stamp' = [stamp EXCEPT ![c] = clock']
        /\ pc' = [pc EXCEPT ![c] = "insert"]
    BY <1>4, BuildType
  <2>2. \A d \in Openers \ {c} : pc'[d] = pc[d] /\ stamp'[d] = stamp[d]
    BY <2>1 DEF TypeOK
  <2>3. pc'[c] = "insert" /\ stamp'[c] = clock'
    BY <2>1 DEF TypeOK
  <2>4. LookupStillTrue'
    <3> SUFFICES ASSUME NEW d \in Openers, pc'[d] = "insert", ~ asks[d].force_new,
                        NEW r \in rows, r.name = asks[d].name
                 PROVE  r.id \notin before'[d]
      BY <1>1 DEF LookupStillTrue
    <3>1. CASE d = c
      <4> DEFINE same == {q \in rows : q.name = asks[c].name}
      <4>1. same # {}
        BY <3>1
      <4>2. GetThreadByExternalId(asks[c].name) = {}
        BY <1>4, <3>1
      <4>3. \A q \in same : \E t \in same : t.at > q.at
        BY <4>2, SMTT(30) DEF GetThreadByExternalId, TypeOK
      <4>4. \A q \in same : q.at \in 0..clock
        BY DEF TypeOK
      <4>5. FALSE
        <5> HIDE DEF same
        <5>1. \E q \in same : \A t \in same : t.at =< q.at
          BY <4>1, <4>4, YoungestExists DEF TypeOK
        <5> QED BY <4>3, <4>4, <5>1
      <4> QED BY <4>5
    <3>2. CASE d # c
      BY <1>3, <2>2, <3>2 DEF LookupStillTrue
    <3> QED BY <3>1, <3>2
  <2>5. SplitOnlyByOverlap'
    BY <1>1, <1>3 DEF SplitOnlyByOverlap, TypeOK
  <2>6. GotThisPersons'
    <3> SUFFICES ASSUME NEW d \in Openers, NEW x \in got[d]
                 PROVE  /\ ~ (pc'[x] \in {"idle", "insert"})
                        /\ \A r \in rows : r.id = x => r.name = asks[d].name
      BY <1>1, <1>4 DEF GotThisPersons, Fresh
    <3>1. /\ ~ (pc[x] \in {"idle", "insert"}) /\ x \in Openers
          /\ \A r \in rows : r.id = x => r.name = asks[d].name
      BY DEF GotThisPersons, Fresh, TypeOK
    <3> QED BY <1>1, <2>2, <3>1
  <2>7. BuiltYounger'
    <3> SUFFICES ASSUME NEW a \in Openers, NEW d \in Openers, NEW q \in rows,
                        pc'[a] = "insert", pc'[d] = "ok", d \in before'[a],
                        asks[a].name = asks[d].name, q.id \in got[d]
                 PROVE  stamp'[a] >= q.at
      BY <1>1, <1>4 DEF BuiltYounger
    <3>1. CASE a = c
      BY <2>1, <2>3, <3>1 DEF TypeOK
    <3>2. CASE a # c
      BY <1>2, <1>3, <2>2, <3>2 DEF BuiltYounger
    <3> QED BY <3>1, <3>2
  <2>8. NeverBackToAnOlderThread'
    BY <1>1, <1>3, <1>4, <2>2, <2>3 DEF NeverBackToAnOlderThread
  <2>9. ReturnedThreadExists'
    BY <1>1, <1>4, <2>2, <2>3 DEF ReturnedThreadExists
  <2> QED BY <2>4, <2>5, <2>6, <2>7, <2>8, <2>9
<1>5. ASSUME NEW r \in GetThreadByExternalId(asks[c].name),
             got' = [got EXCEPT ![c] = {r.id}], End(c, "ok"), UNCHANGED <<clock, stamp>>
      PROVE  OpenersInv'
  <2>1. /\ r \in rows /\ r.name = asks[c].name
        /\ \A q \in rows : q.name = asks[c].name => q.at =< r.at
    BY <1>5 DEF GetThreadByExternalId
  <2>2. /\ pc'[c] = "ok" /\ got'[c] = {r.id}
        /\ \A d \in Openers \ {c} : pc'[d] = pc[d] /\ got'[d] = got[d]
    BY <1>5 DEF End, TypeOK
  <2>3. LookupStillTrue'
    BY <1>1, <1>3, <2>2 DEF LookupStillTrue
  <2>4. SplitOnlyByOverlap'
    BY <1>1, <1>3 DEF SplitOnlyByOverlap, TypeOK
  <2>5. GotThisPersons'
    <3> SUFFICES ASSUME NEW d \in Openers, NEW x \in got'[d]
                 PROVE  /\ ~ (pc'[x] \in {"idle", "insert"})
                        /\ \A q \in rows : q.id = x => q.name = asks[d].name
      BY <1>1 DEF GotThisPersons, Fresh
    <3>1. CASE d = c
      <4>1. x = r.id /\ r.id \in Openers /\ ~ Fresh(r.id)
        BY <2>1, <2>2, <3>1 DEF TypeOK, NothingBeforeInsert
      <4> QED BY <1>1, <2>1, <2>2, <3>1, <4>1 DEF TypeOK, Fresh
    <3>2. CASE d # c
      BY <1>1, <2>2, <3>2 DEF GotThisPersons, Fresh, TypeOK
    <3> QED BY <3>1, <3>2
  <2>6. BuiltYounger'
    BY <1>1, <1>2, <1>3, <1>5, <2>2 DEF BuiltYounger
  <2>7. NeverBackToAnOlderThread'
    <3> SUFFICES ASSUME NEW a \in Openers, NEW d \in Openers, NEW s \in rows, NEW q \in rows,
                        pc'[a] = "ok", pc'[d] = "ok", d \in before'[a],
                        asks[a].name = asks[d].name, s.id \in got'[a], q.id \in got'[d]
                 PROVE  s.at >= q.at
      BY <1>1 DEF NeverBackToAnOlderThread
    <3>1. d # c
      BY <1>2
    <3>2. CASE a = c
      <4>1. s = r
        BY <2>1, <2>2, <3>2, SMTT(30) DEF TypeOK
      <4>2. q.name = asks[d].name
        BY <2>2, <3>1 DEF GotThisPersons
      <4> QED BY <2>1, <3>2, <4>1, <4>2 DEF TypeOK
    <3>3. CASE a # c
      BY <1>3, <2>2, <3>1, <3>3 DEF NeverBackToAnOlderThread
    <3> QED BY <3>2, <3>3
  <2>8. ReturnedThreadExists'
    BY <1>1, <2>1, <2>2 DEF ReturnedThreadExists
  <2> QED BY <2>3, <2>4, <2>5, <2>6, <2>7, <2>8
<1>6. CASE End(c, "storage_error") /\ UNCHANGED <<clock, stamp, got>>
  <2>1. pc'[c] = "storage_error" /\ \A d \in Openers \ {c} : pc'[d] = pc[d]
    BY <1>6 DEF End, TypeOK
  <2>2. LookupStillTrue'
    BY <1>1, <1>3, <2>1 DEF LookupStillTrue
  <2>3. SplitOnlyByOverlap'
    BY <1>1, <1>3 DEF SplitOnlyByOverlap, TypeOK
  <2>4. GotThisPersons'
    BY <1>1, <1>6, <2>1 DEF GotThisPersons, Fresh, TypeOK
  <2>5. BuiltYounger'
    BY <1>1, <1>3, <1>6, <2>1 DEF BuiltYounger
  <2>6. NeverBackToAnOlderThread'
    BY <1>1, <1>3, <1>6, <2>1 DEF NeverBackToAnOlderThread
  <2>7. ReturnedThreadExists'
    BY <1>1, <1>6, <2>1 DEF ReturnedThreadExists
  <2> QED BY <2>2, <2>3, <2>4, <2>5, <2>6, <2>7
<1> QED BY <1>4, <1>5, <1>6 DEF Open

\* The answer to an INSERT keeps it, whatever the answer is.
LEMMA InsertKeeps ==
  ASSUME BaseInv, BaseInv', OpenersInv, NEW c \in Openers, Insert(c)
  PROVE  OpenersInv'
<1> USE ClientsSplit DEF OpenersInv, BaseInv
<1> DEFINE n == NewThread(c)
<1>1. /\ n.id = c /\ n.name = asks[c].name /\ n.at = stamp[c]
      /\ c \notin deleted /\ \A r \in rows : r.id # c
  BY NewThreadType DEF Insert
<1>2. /\ rows' \in {rows, rows \union {n}}
      /\ pc[c] = "insert" /\ pc'[c] \in {"ok", "storage_error"}
      /\ \A d \in Openers \ {c} : pc'[d] = pc[d] /\ got'[d] = got[d]
      /\ UNCHANGED <<asks, stamp, before, deleted>>
  BY DEF Insert, End, TypeOK
<1>3. \/ pc'[c] = "ok" /\ got'[c] = {c} /\ rows' = rows \union {n}
      \/ pc'[c] = "storage_error" /\ UNCHANGED got
  BY DEF Insert, End, TypeOK
<1> HIDE DEF n
<1>4. \A d \in Openers : c \notin before[d]
  BY <1>2 DEF BeforeHasEnded, Ended, TypeOK
<1>5. \A d \in Openers : c \notin got[d]
  BY <1>2 DEF GotThisPersons, Fresh
<1>6. LookupStillTrue'
  BY <1>1, <1>2, <1>4 DEF LookupStillTrue
<1>7. SplitOnlyByOverlap'
  <2> SUFFICES ASSUME NEW r \in rows', NEW q \in rows', r # q, r.name = q.name,
                      ~ asks[r.id].force_new, ~ asks[q.id].force_new
               PROVE  r.id \notin before[q.id]
    BY <1>2 DEF SplitOnlyByOverlap
  <2>1. CASE r \in rows /\ q \in rows
    BY <2>1 DEF SplitOnlyByOverlap
  <2>2. CASE r = n /\ q \in rows
    <3>1. q.id \in Openers
      BY <2>2 DEF TypeOK
    <3> QED BY <1>1, <1>4, <2>2, <3>1
  <2>3. CASE r \in rows /\ q = n
    BY <1>1, <1>2, <2>3 DEF LookupStillTrue
  <2> QED BY <1>2, <2>1, <2>2, <2>3
<1>8. GotThisPersons'
  <2> SUFFICES ASSUME NEW d \in Openers, NEW x \in got'[d]
               PROVE  /\ ~ (pc'[x] \in {"idle", "insert"})
                      /\ \A r \in rows' : r.id = x => r.name = asks[d].name
    BY <1>2 DEF GotThisPersons, Fresh
  <2>1. CASE x \in got[d]
    <3>1. x \in Openers /\ x # c
      BY <1>5, <2>1 DEF TypeOK
    <3> QED BY <1>1, <1>2, <2>1, <3>1 DEF GotThisPersons, Fresh
  <2>2. CASE d = c /\ x = c /\ pc'[c] = "ok"
    BY <1>1, <1>2, <2>2
  <2> QED BY <1>2, <1>3, <2>1, <2>2
<1>9. BuiltYounger'
  <2> SUFFICES ASSUME NEW a \in Openers, NEW d \in Openers, NEW q \in rows',
                      pc'[a] = "insert", pc'[d] = "ok", d \in before[a],
                      asks[a].name = asks[d].name, q.id \in got'[d]
               PROVE  stamp[a] >= q.at
    BY <1>2 DEF BuiltYounger
  <2>1. a # c /\ d # c
    BY <1>2, <1>4
  <2>2. q \in rows
    BY <1>1, <1>2, <1>5, <2>1
  <2> QED BY <1>2, <2>1, <2>2 DEF BuiltYounger
<1>10. NeverBackToAnOlderThread'
  <2> SUFFICES ASSUME NEW a \in Openers, NEW d \in Openers, NEW r \in rows', NEW q \in rows',
                      pc'[a] = "ok", pc'[d] = "ok", d \in before[a],
                      asks[a].name = asks[d].name, r.id \in got'[a], q.id \in got'[d]
               PROVE  r.at >= q.at
    BY <1>2 DEF NeverBackToAnOlderThread
  <2>1. d # c /\ q \in rows
    BY <1>1, <1>2, <1>4, <1>5
  <2>2. CASE a = c
    <3>1. r = n
      BY <1>1, <1>2, <1>3, <2>2
    <3> QED BY <1>1, <1>2, <2>1, <2>2, <3>1 DEF BuiltYounger
  <2>3. CASE a # c
    <3>1. r \in rows
      BY <1>1, <1>2, <1>5, <2>3
    <3> QED BY <1>2, <2>1, <2>3, <3>1 DEF NeverBackToAnOlderThread
  <2> QED BY <2>2, <2>3
<1>11. ReturnedThreadExists'
  BY <1>1, <1>2, <1>3 DEF ReturnedThreadExists
<1> QED BY <1>6, <1>7, <1>8, <1>9, <1>10, <1>11

\* What get_or_create_thread promises of the threads it returns and creates, and
\* what that needs to be inductive.
THEOREM OpenersInvariant == Spec => []OpenersInv
<1>1. Init => OpenersInv
  BY DEF Init, OpenersInv, LookupStillTrue, SplitOnlyByOverlap, GotThisPersons, BuiltYounger,
         NeverBackToAnOlderThread, ReturnedThreadExists, Clients
<1>2. BaseInv /\ BaseInv' /\ OpenersInv /\ [Next]_vars => OpenersInv'
  <2> SUFFICES ASSUME BaseInv, BaseInv', OpenersInv, [Next]_vars PROVE OpenersInv'
    OBVIOUS
  <2>1. ASSUME NEW c \in Openers, Open(c) PROVE OpenersInv'
    BY <2>1, OpenKeeps
  <2>2. ASSUME NEW c \in Openers, Insert(c) PROVE OpenersInv'
    BY <2>2, InsertKeeps
  <2>3. ASSUME NEW e \in Editors, ReadThread(e) PROVE OpenersInv'
    <3>1. /\ \A c \in Openers : pc'[c] = pc[c] /\ before'[c] = before[c]
          /\ UNCHANGED <<rows, asks, stamp, got, deleted>>
      BY <2>3, ClientsSplit, BeginType DEF BaseInv, TypeOK, ReadThread, End
    <3> QED BY <3>1, OpenersUntouched DEF SameThread
  <2>4. ASSUME NEW e \in Editors, WriteThread(e) PROVE OpenersInv'
    <3>1. /\ \A c \in Openers : pc'[c] = pc[c] /\ before'[c] = before[c]
          /\ UNCHANGED <<asks, stamp, got, deleted>>
      BY <2>4, ClientsSplit DEF BaseInv, TypeOK, WriteThread, End
    <3> QED BY <2>4, <3>1, OpenersUntouched, WriteKeepsThreads
  <2>5. ASSUME NEW id \in Openers, DeleteThread(id) PROVE OpenersInv'
    <3>1. /\ UNCHANGED <<pc, before, asks, stamp, got>>
          /\ rows' \subseteq rows /\ deleted \subseteq deleted'
          /\ \A q \in rows : q.id \in deleted' \/ q \in rows'
      BY <2>5 DEF DeleteThread, clientVars
    <3> QED BY <3>1, OpenersUntouched DEF SameThread
  <2>6. CASE BeginListing \/ FetchPage \/ UNCHANGED vars
    <3>1. UNCHANGED <<rows, pc, before, asks, stamp, got, deleted>>
      BY <2>6 DEF BeginListing, FetchPage, vars, clientVars
    <3> QED BY <3>1, OpenersUntouched DEF SameThread
  <2> QED BY <2>1, <2>2, <2>3, <2>4, <2>5, <2>6 DEF Next
<1> QED BY <1>1, <1>2, BaseInvariant, PTL DEF Spec

-----------------------------------------------------------------------------
\* Whoever has overwritten an edit still has.
LEMMA OverwrittenStays ==
  ASSUME NEW e \in Editors, Overwritten(e), target'[e] = target[e],
         \A f \in Editors : pc[f] \in Ended =>
           pc'[f] = pc[f] /\ target'[f] = target[f] /\ before'[f] = before[f]
  PROVE  Overwritten(e)'
BY DEF Overwritten, Ended

\* A step that no editor takes keeps what is said of them, when the threads it
\* inserts are new.
LEMMA EditorsUntouched ==
  ASSUME BaseInv, BaseInv', EditorsInv, UNCHANGED <<target, copy>>,
         \A e \in Editors : pc'[e] = pc[e] /\ before'[e] = before[e],
         \A id \in Openers : Fresh(id)' => Fresh(id),
         \A r \in rows' : r \in rows \/ Fresh(r.id)
  PROVE  EditorsInv'
<1>1. OneTarget'
  BY DEF EditorsInv, OneTarget
<1>2. CopyHoldsEarlierEdits'
  BY DEF EditorsInv, CopyHoldsEarlierEdits, Overwritten
<1>3. EditLostOnlyToOverlappingEdit'
  <2> SUFFICES ASSUME NEW e \in Editors, NEW r \in rows',
                      r.id \in target[e], pc[e] = "ok", e \notin r.edits
               PROVE  Overwritten(e)'
    BY DEF EditLostOnlyToOverlappingEdit, Overwritten
  <2>1. r \in rows
    BY DEF EditorsInv, OneTarget
  <2>2. Overwritten(e)
    BY <2>1 DEF EditorsInv, EditLostOnlyToOverlappingEdit, Overwritten
  <2> QED BY <2>2 DEF Overwritten
<1> QED BY <1>1, <1>2, <1>3 DEF EditorsInv

\* An editor that reads a thread reads every edit acknowledged before, or its
\* overwriting.
LEMMA ReadKeeps ==
  ASSUME BaseInv, BaseInv', EditorsInv, NEW e \in Editors, ReadThread(e)
  PROVE  EditorsInv'
<1> USE ClientsSplit
<1>1. /\ before' = [before EXCEPT ![e] = {q \in Clients : pc[q] \in Ended}]
      /\ pc[e] = "idle" /\ UNCHANGED <<rows, asks, stamp, got, deleted, listing>>
  BY BeginType DEF ReadThread, BaseInv
<1>2. PICK id \in Openers :
        /\ target' = [target EXCEPT ![e] = {id}]
        /\ \/ /\ \E r \in GetThread({id}) : copy' = [copy EXCEPT ![e] = r.edits]
              /\ End(e, "write")
           \/ /\ GetThread({id}) = {}
              /\ id \in deleted
              /\ End(e, "not_found")
              /\ UNCHANGED copy
  BY DEF ReadThread
<1>3. /\ target'[e] = {id} /\ pc'[e] \in {"write", "not_found"}
      /\ \A p \in Clients \ {e} : pc'[p] = pc[p] /\ before'[p] = before[p]
      /\ \A f \in Editors \ {e} : target'[f] = target[f] /\ copy'[f] = copy[f]
      /\ before'[e] = {q \in Clients : pc[q] \in Ended}
  BY <1>1, <1>2 DEF End, BaseInv, TypeOK
<1>4. \A f \in Editors : e \notin before[f]
  BY <1>1 DEF BaseInv, BeforeHasEnded, Ended, TypeOK
<1>5. ASSUME NEW d \in Editors, Overwritten(d), d # e PROVE Overwritten(d)'
  <2>1. \A f \in Editors : pc[f] \in Ended =>
          pc'[f] = pc[f] /\ target'[f] = target[f] /\ before'[f] = before[f]
    BY <1>1, <1>3 DEF Ended
  <2> QED BY <1>3, <1>5, <2>1, OverwrittenStays
<1>6. OneTarget'
  <2>1. ~ Fresh(id)
    BY <1>2 DEF GetThread, BaseInv, NothingBeforeInsert
  <2>2. \A i \in Openers : Fresh(i)' = Fresh(i)
    BY <1>3 DEF Fresh
  <2> QED BY <1>3, <2>1, <2>2 DEF EditorsInv, OneTarget
<1>7. CopyHoldsEarlierEdits'
  <2> SUFFICES ASSUME NEW d \in Editors, NEW f \in Editors, pc'[f] = "write", pc'[d] = "ok",
                      d \in before'[f], target'[d] = target'[f]
               PROVE  d \in copy'[f] \/ Overwritten(d)'
    BY DEF CopyHoldsEarlierEdits
  <2>1. d # e /\ pc[d] = "ok" /\ target'[d] = target[d]
    BY <1>3
  <2>2. CASE f = e
    <3>1. PICK r \in GetThread({id}) : copy' = [copy EXCEPT ![e] = r.edits]
      BY <1>2, <1>3, <2>2, ZenonT(60) DEF End, BaseInv, TypeOK
    <3>2. r \in rows /\ r.id \in target[d] /\ copy'[e] = r.edits
      <4>1. r \in rows /\ r.id = id
        BY DEF GetThread
      <4>2. target[d] = {id}
        BY <1>3, <2>1, <2>2
      <4>3. copy'[e] = r.edits
        BY <3>1 DEF BaseInv, TypeOK
      <4> QED BY <4>1, <4>2, <4>3
    <3>3. d \in r.edits \/ Overwritten(d)
      BY <2>1, <3>2 DEF EditorsInv, EditLostOnlyToOverlappingEdit, Overwritten
    <3> QED BY <1>5, <2>1, <2>2, <3>2, <3>3
  <2>3. CASE f # e
    <3>1. d \in copy[f] \/ Overwritten(d)
      BY <1>3, <2>1, <2>3 DEF EditorsInv, CopyHoldsEarlierEdits
    <3> QED BY <1>3, <1>5, <2>1, <2>3, <3>1
  <2> QED BY <2>2, <2>3
<1>8. EditLostOnlyToOverlappingEdit'
  <2> SUFFICES ASSUME NEW d \in Editors, NEW r \in rows,
                      r.id \in target'[d], pc'[d] = "ok", d \notin r.edits
               PROVE  Overwritten(d)'
    BY <1>1 DEF EditLostOnlyToOverlappingEdit, Overwritten
  <2>1. d # e
    BY <1>3
  <2>2. Overwritten(d)
    BY <1>3, <2>1 DEF EditorsInv, EditLostOnlyToOverlappingEdit, Overwritten
  <2> QED BY <1>5, <2>1, <2>2
<1> QED BY <1>6, <1>7, <1>8 DEF EditorsInv

\* An editor that writes a thread back keeps it: what it writes over either is
\* in its copy, or was overwritten already, or had not ended when it began.
LEMMA WriteKeeps ==
  ASSUME BaseInv, BaseInv', EditorsInv, NEW e \in Editors, WriteThread(e)
  PROVE  EditorsInv'
<1> USE ClientsSplit
<1>1. /\ pc[e] = "write" /\ pc'[e] \in {"ok", "storage_error"}
      /\ \A p \in Clients \ {e} : pc'[p] = pc[p]
      /\ UNCHANGED <<asks, stamp, got, target, before, deleted, listing>>
      /\ \A f \in Editors \ {e} : copy'[f] = copy[f]
  BY DEF WriteThread, End, BaseInv, TypeOK
<1>2. \/ UpdateThread(target[e], copy[e] \union {e})
      \/ UNCHANGED rows /\ pc'[e] = "storage_error"
  BY DEF WriteThread, End, BaseInv, TypeOK
<1>3. ASSUME NEW d \in Editors, Overwritten(d) PROVE Overwritten(d)'
  <2>1. \A f \in Editors : pc[f] \in Ended =>
          pc'[f] = pc[f] /\ target'[f] = target[f] /\ before'[f] = before[f]
    BY <1>1 DEF Ended
  <2> QED BY <1>1, <1>3, <2>1, OverwrittenStays
<1>4. \A f \in Editors : e \notin before[f]
  BY <1>1 DEF BaseInv, BeforeHasEnded, Ended, TypeOK
<1>5. OneTarget'
  <2>1. \A i \in Openers : Fresh(i)' = Fresh(i)
    BY <1>1 DEF Fresh
  <2> QED BY <1>1, <2>1 DEF EditorsInv, OneTarget
<1>6. CopyHoldsEarlierEdits'
  <2> SUFFICES ASSUME NEW d \in Editors, NEW f \in Editors, pc'[f] = "write", pc'[d] = "ok",
                      d \in before[f], target[d] = target[f]
               PROVE  d \in copy'[f] \/ Overwritten(d)'
    BY <1>1 DEF CopyHoldsEarlierEdits
  <2>1. f # e /\ d # e
    BY <1>1, <1>4
  <2> QED BY <1>1, <1>3, <2>1 DEF EditorsInv, CopyHoldsEarlierEdits
<1>7. EditLostOnlyToOverlappingEdit'
  <2> SUFFICES ASSUME NEW d \in Editors, NEW r \in rows',
                      r.id \in target[d], pc'[d] = "ok", d \notin r.edits
               PROVE  Overwritten(d)'
    BY <1>1 DEF EditLostOnlyToOverlappingEdit, Overwritten
  <2>1. CASE UNCHANGED rows /\ pc'[e] = "storage_error"
    <3>1. Overwritten(d)
      BY <1>1, <2>1 DEF EditorsInv, EditLostOnlyToOverlappingEdit, Overwritten
    <3> QED BY <1>3, <3>1
  <2>2. CASE UpdateThread(target[e], copy[e] \union {e})
    <3>1. copy[e] \union {e} \in SUBSET Editors
      BY DEF BaseInv, TypeOK
    <3>2. PICK q \in rows : /\ r.id = q.id
                           /\ r.edits = IF q.id \in target[e] THEN copy[e] \union {e} ELSE q.edits
      BY <2>2, <3>1, UpdateRows, RowsTyped DEF BaseInv
    <3>3. CASE q.id \in target[e]
      <4>1. d # e /\ d \notin copy[e] /\ pc[d] = "ok"
        BY <1>1, <3>2, <3>3
      <4>2. target[d] = target[e]
        BY <1>1, <3>2, <3>3, <4>1 DEF EditorsInv, OneTarget
      <4>3. CASE d \in before[e]
        <5>1. Overwritten(d)
          BY <1>1, <4>1, <4>2, <4>3 DEF EditorsInv, CopyHoldsEarlierEdits
        <5> QED BY <1>3, <5>1
      <4>4. CASE d \notin before[e]
        BY <1>1, <4>1, <4>2, <4>4 DEF Overwritten
      <4> QED BY <4>3, <4>4
    <3>4. CASE q.id \notin target[e]
      <4>1. d # e
        BY <3>2, <3>4
      <4>2. Overwritten(d)
        BY <1>1, <3>2, <3>4, <4>1 DEF EditorsInv, EditLostOnlyToOverlappingEdit, Overwritten
      <4> QED BY <1>3, <4>2
    <3> QED BY <3>3, <3>4
  <2> QED BY <1>2, <2>1, <2>2
<1> QED BY <1>5, <1>6, <1>7 DEF EditorsInv

\* What update_thread promises of acknowledged edits, and what that needs to be
\* inductive.
THEOREM EditorsInvariant == Spec => []EditorsInv
<1>1. Init => EditorsInv
  BY DEF Init, EditorsInv, OneTarget, CopyHoldsEarlierEdits, EditLostOnlyToOverlappingEdit, Clients
<1>2. BaseInv /\ BaseInv' /\ EditorsInv /\ [Next]_vars => EditorsInv'
  <2> SUFFICES ASSUME BaseInv, BaseInv', EditorsInv, [Next]_vars PROVE EditorsInv'
    OBVIOUS
  <2>1. ASSUME NEW c \in Openers, Open(c) PROVE EditorsInv'
    <3>1. /\ \A e \in Editors : pc'[e] = pc[e] /\ before'[e] = before[e]
          /\ UNCHANGED <<rows, target, copy>>
          /\ pc[c] = "idle" /\ \A d \in Openers \ {c} : pc'[d] = pc[d]
      BY <2>1, ClientsSplit, BeginType DEF BaseInv, TypeOK, Open, BuildThread, End
    <3> QED BY <3>1, EditorsUntouched DEF Fresh
  <2>2. ASSUME NEW c \in Openers, Insert(c) PROVE EditorsInv'
    <3>1. /\ \A e \in Editors : pc'[e] = pc[e] /\ before'[e] = before[e]
          /\ UNCHANGED <<target, copy>> /\ pc[c] = "insert"
          /\ rows' \subseteq rows \union {NewThread(c)} /\ NewThread(c).id = c
          /\ \A d \in Openers \ {c} : pc'[d] = pc[d]
      BY <2>2, ClientsSplit DEF BaseInv, TypeOK, Insert, End, NewThread
    <3> QED BY <3>1, EditorsUntouched DEF Fresh
  <2>3. ASSUME NEW e \in Editors, ReadThread(e) PROVE EditorsInv'
    BY <2>3, ReadKeeps
  <2>4. ASSUME NEW e \in Editors, WriteThread(e) PROVE EditorsInv'
    BY <2>4, WriteKeeps
  <2>5. ASSUME NEW id \in Openers, DeleteThread(id) PROVE EditorsInv'
    <3>1. UNCHANGED <<pc, before, target, copy>> /\ rows' \subseteq rows
      BY <2>5 DEF DeleteThread, clientVars
    <3> QED BY <3>1, EditorsUntouched DEF Fresh
  <2>6. CASE BeginListing \/ FetchPage \/ UNCHANGED vars
    <3>1. UNCHANGED <<rows, pc, before, target, copy>>
      BY <2>6 DEF BeginListing, FetchPage, vars, clientVars
    <3> QED BY <3>1, EditorsUntouched DEF Fresh
  <2> QED BY <2>1, <2>2, <2>3, <2>4, <2>5, <2>6 DEF Next
<1> QED BY <1>1, <1>2, BaseInvariant, PTL DEF Spec

-----------------------------------------------------------------------------
\* LIKE finds every name that starts with the prefix, wildcards or not, if the
\* prefix has no escape in it.
LEMMA PrefixIsLike ==
  ASSUME NEW p \in Prefixes, NEW name \in Names, StartsWith(p, name), NoEscape(p)
  PROVE  Like(Append(p, AnyRun), name)
<1> DEFINE chars == {p[i] : i \in DOMAIN p} \union {AnyRun}
           l == Len(p)
           m == Len(name)
           cut == [i \in 0..(l + 1) |-> IF i =< l THEN i ELSE m]
<1>1. p \in Seq(chars) /\ AnyRun \in chars
  <2> DEFINE own == {p[i] : i \in DOMAIN p}
  <2>1. p \in Seq(own) /\ own \subseteq chars
    BY StringsAssumption
  <2> HIDE DEF own, chars
  <2>2. l \in Nat /\ p \in [1..l -> own]
    BY <2>1
  <2>3. p \in [1..l -> chars]
    BY <2>1, <2>2
  <2>4. p \in Seq(chars)
    BY <2>2, <2>3
  <2> QED BY <2>4 DEF chars
<1>2. l \in Nat /\ m \in Nat /\ l =< m /\ \A i \in 1..l : p[i] = name[i] /\ p[i] # Escape
  <2>1. name \in Seq({name[i] : i \in DOMAIN name})
    BY StringsAssumption
  <2>2. m \in Nat /\ l \in Nat /\ DOMAIN p = 1..l
    BY <1>1, <2>1
  <2> QED BY <2>2 DEF StartsWith, NoEscape
<1> DEFINE pattern == Append(p, AnyRun)
<1>3. /\ Len(pattern) = l + 1 /\ pattern[l + 1] = AnyRun
      /\ \A i \in 1..l : pattern[i] = p[i]
  BY <1>1, <1>2
<1> HIDE DEF chars, l, m, pattern
<1>4. cut \in [0..(l + 1) -> 0..m] /\ cut[0] = 0 /\ cut[l + 1] = m
  BY <1>2
<1>5. ASSUME NEW i \in 1..(l + 1)
      PROVE  /\ pattern[i] # Escape
             /\ \/ cut[i] = cut[i-1] + 1 /\ pattern[i] = name[cut[i]]
                \/ pattern[i] = AnyRun /\ cut[i] >= cut[i-1]
  <2>1. CASE i =< l
    BY <1>2, <1>3, <2>1
  <2>2. CASE i = l + 1
    BY <1>2, <1>3, <2>2, EscapeAssumption
  <2> QED BY <1>2, <2>1, <2>2
<1> HIDE DEF cut
<1>6. ASSUME NEW i \in 1..(l + 1)
      PROVE  /\ i \in {} <=> pattern[i] = Escape /\ i - 1 \notin {}
             /\ \/ i \in {} /\ cut[i] = cut[i-1]
                \/ i \notin {} /\ cut[i] = cut[i-1] + 1 /\ pattern[i] = name[cut[i]]
                \/ /\ {i, i - 1} \intersect {} = {}
                   /\ \/ pattern[i] = AnyRun /\ cut[i] >= cut[i-1]
                      \/ pattern[i] = AnyChar /\ cut[i] = cut[i-1] + 1
  BY <1>5
<1>7. Like(pattern, name)
  BY <1>3, <1>4, <1>6, ZenonT(60) DEF Like, m
<1> QED BY <1>7 DEF pattern

\* A table stays finite.
LEMMA RowsFinite ==
  ASSUME IsFiniteSet(rows), [Next]_vars
  PROVE  IsFiniteSet(rows')
<1>1. ASSUME NEW ids, NEW contents, UpdateThread(ids, contents) PROVE IsFiniteSet(rows')
  <2> DEFINE f == [r \in rows |-> IF r.id \in ids THEN [r EXCEPT !.edits = contents] ELSE r]
  <2>1. f \in Surjection(rows, rows')
    BY <1>1 DEF UpdateThread, Surjection
  <2> QED BY <2>1, FS_Surjection
<1>2. ASSUME NEW c \in Openers, Insert(c) PROVE IsFiniteSet(rows')
  <2>1. IsFiniteSet(rows \union {NewThread(c)})
    BY FS_AddElement
  <2> QED BY <1>2, <2>1 DEF Insert
<1>3. ASSUME NEW id \in Openers, DeleteThread(id) PROVE IsFiniteSet(rows')
  <2>1. rows' \in SUBSET rows
    BY <1>3 DEF DeleteThread
  <2> QED BY <2>1, FS_Subset
<1>4. ASSUME NEW e \in Editors, WriteThread(e) PROVE IsFiniteSet(rows')
  BY <1>1, <1>4 DEF WriteThread
<1>5. ASSUME NEW c \in Openers, Open(c) PROVE IsFiniteSet(rows')
  BY <1>5 DEF Open
<1>6. ASSUME NEW e \in Editors, ReadThread(e) PROVE IsFiniteSet(rows')
  BY <1>6 DEF ReadThread
<1>7. CASE BeginListing \/ FetchPage \/ UNCHANGED vars
  BY <1>7 DEF BeginListing, FetchPage, vars
<1> QED BY <1>2, <1>3, <1>4, <1>5, <1>6, <1>7 DEF Next

\* A table has finitely many ids.
LEMMA IdsFinite ==
  ASSUME NEW S, IsFiniteSet(S), NEW I, I \subseteq {r.id : r \in S}
  PROVE  IsFiniteSet(I)
<1> DEFINE f == [r \in S |-> r.id]
<1>1. f \in Surjection(S, {r.id : r \in S})
  BY DEF Surjection
<1>2. IsFiniteSet({r.id : r \in S})
  BY <1>1, FS_Surjection
<1> QED BY <1>2, FS_Subset

\* A listing that no step of its own moves keeps what is said of it: threads are
\* only inserted, above or below, and edited.
LEMMA ListingUntouched ==
  ASSUME BaseInv, BaseInv', ListingInv, IsFiniteSet(rows'), UNCHANGED listing,
         deleted \subseteq deleted',
         deleted' = deleted => \A q \in rows : \E r \in rows' : SameThread(r, q),
         \A r \in rows' : \/ \E q \in rows : SameThread(r, q)
                         \/ Fresh(r.id)
  PROVE  ListingInv'
<1> USE DEF SameThread
<1> SUFFICES ASSUME NoEscape(listing.prefix)
             PROVE  StartStays' /\ NoneSkipped' /\ ListingMissesNone'
  BY DEF ListingInv
<1>1. StartStays'
  <2>1. StartStays
    BY DEF ListingInv
  <2> QED BY <2>1 DEF StartStays, Matching
<1>2. CASE listing.state = "idle"
  BY <1>1, <1>2 DEF ListingInv, NoneSkipped, ListingMissesNone
<1>3. CASE listing.state # "idle" /\ ~ Undisturbed'
  BY <1>1, <1>3 DEF ListingInv, NoneSkipped, ListingMissesNone, Undisturbed
<1>4. CASE listing.state # "idle" /\ Undisturbed'
  <2>1. deleted' = deleted /\ listing.gone = deleted
    BY <1>4 DEF ListingInv, StartStays, Undisturbed
  <2>2. ASSUME NEW r \in rows, NEW q \in rows, r.at = q.at PROVE r = q
    <3>1. PICK s \in rows' : SameThread(s, r)
      BY <2>1
    <3>2. PICK t \in rows' : SameThread(t, q)
      BY <2>1
    <3>3. s = t
      BY <1>4, <2>2, <3>1, <3>2 DEF Undisturbed
    <3> QED BY <3>1, <3>2, <3>3 DEF BaseInv, TypeOK
  <2>3. Undisturbed
    BY <2>1, <2>2 DEF Undisturbed
  <2>4. NoneSkipped'
    <3> SUFFICES ASSUME listing.state = "reading", NEW r \in rows',
                        r.id \in listing.start \ listing.seen
                 PROVE  Cardinality(Above(r)') >= listing.offset
      BY <1>4 DEF NoneSkipped, Above
    <3>1. PICK p \in rows : p.id = r.id
      BY <2>1 DEF ListingInv, StartStays
    <3>2. ~ Fresh(r.id)
      BY <3>1 DEF BaseInv, TypeOK, NothingBeforeInsert
    <3>3. PICK q \in rows : SameThread(r, q)
      BY <3>2
    <3>4. Cardinality(Above(q)) >= listing.offset
      BY <2>3, <3>3 DEF ListingInv, NoneSkipped
    <3>5. Above(q) \subseteq Above(r)'
      <4> SUFFICES ASSUME NEW t \in Matching(listing.prefix), t.at > q.at
                   PROVE  t.id \in Above(r)'
        BY DEF Above
      <4>1. PICK u \in rows' : SameThread(u, t)
        BY <2>1 DEF Matching
      <4>2. u \in Matching(listing.prefix)' /\ u.at > r.at
        BY <3>3, <4>1 DEF Matching
      <4> QED BY <4>1, <4>2 DEF Above
    <3>6. IsFiniteSet(Above(r)')
      <4>1. Above(r)' \subseteq {t.id : t \in rows'}
        BY DEF Above, Matching
      <4> QED BY <4>1, IdsFinite
    <3>7. /\ Cardinality(Above(q)) =< Cardinality(Above(r)')
          /\ Cardinality(Above(q)) \in Nat /\ Cardinality(Above(r)') \in Nat
      BY <3>5, <3>6, FS_Subset, FS_CardinalityType
    <3> QED BY <3>4, <3>7 DEF BaseInv, TypeOK
  <2>5. ListingMissesNone'
    BY <2>1, <2>3 DEF ListingInv, ListingMissesNone, Undisturbed
  <2> QED BY <1>1, <2>4, <2>5 DEF ListingInv
<1> QED BY <1>2, <1>3, <1>4

\* A listing that begins has everything before it.
LEMMA BeginListingKeeps ==
  ASSUME BaseInv, BaseInv', ListingInv, BeginListing
  PROVE  ListingInv'
<1>1. PICK p \in Prefixes :
        listing' = [NotListing EXCEPT
          !.state = "reading", !.prefix = p, !.gone = deleted,
          !.start = {r.id : r \in {q \in rows : StartsWith(p, q.name)}}]
  BY DEF BeginListing
<1>2. /\ listing'.state = "reading" /\ listing'.prefix = p /\ listing'.gone = deleted
      /\ listing'.start = {r.id : r \in {q \in rows : StartsWith(p, q.name)}}
      /\ listing'.offset = 0
      /\ UNCHANGED <<rows, deleted>>
  BY <1>1 DEF BeginListing, NotListing
<1> SUFFICES ASSUME NoEscape(p)
             PROVE  StartStays' /\ NoneSkipped' /\ ListingMissesNone'
  BY <1>2 DEF ListingInv
<1>3. \A id \in listing'.start : \E r \in rows : r.id = id /\ r \in Matching(listing.prefix)'
  <2> SUFFICES ASSUME NEW q \in rows, StartsWith(p, q.name)
               PROVE  \E r \in rows : r.id = q.id /\ r \in Matching(listing.prefix)'
    BY <1>2
  <2>1. q.name \in Names
    BY DEF BaseInv, TypeOK
  <2>2. Like(Append(p, AnyRun), q.name)
    BY <2>1, PrefixIsLike
  <2> QED BY <1>2, <2>2 DEF Matching
<1>4. \A r \in rows : Cardinality(Above(r)') >= 0
  <2> TAKE r \in rows
  <2>1. Above(r)' \subseteq {q.id : q \in rows}
    BY <1>2 DEF Above, Matching
  <2>2. Cardinality(Above(r)') \in Nat
    BY <2>1, IdsFinite, FS_CardinalityType DEF ListingInv
  <2> QED BY <2>2
<1>5. StartStays'
  BY <1>2, <1>3 DEF StartStays
<1>6. NoneSkipped'
  BY <1>2, <1>4 DEF NoneSkipped, Above
<1> QED BY <1>2, <1>5, <1>6 DEF ListingInv, ListingMissesNone

\* An interval of k numbers has k elements.
LEMMA IntervalSize ==
  ASSUME NEW a \in Nat, NEW k \in Nat
  PROVE  IsFiniteSet((a + 1)..(a + k)) /\ Cardinality((a + 1)..(a + k)) = k
<1> DEFINE lo == a + 1
           hi == a + k
<1>1. lo \in Int /\ hi \in Int
  OBVIOUS
<1>2. (lo > hi => k = 0) /\ (~ (lo > hi) => hi - lo + 1 = k)
  OBVIOUS
<1> HIDE DEF lo, hi
<1>3. IsFiniteSet(lo..hi) /\ Cardinality(lo..hi) = IF lo > hi THEN 0 ELSE hi - lo + 1
  BY <1>1, FS_Interval
<1>4. Cardinality(lo..hi) = k
  BY <1>2, <1>3
<1> QED BY <1>3, <1>4 DEF lo, hi

\* So has one that begins with 1.
LEMMA UpToSize ==
  ASSUME NEW n \in Nat
  PROVE  IsFiniteSet(1..n) /\ Cardinality(1..n) = n
<1>1. (0 + 1)..(0 + n) = 1..n
  OBVIOUS
<1> QED BY <1>1, IntervalSize

\* In a result ordered by distinct times, a row has as many above it as come
\* before it.
LEMMA PlaceIsRank ==
  ASSUME BaseInv, IsFiniteSet(rows), Undisturbed,
         NEW s \in NewestFirst(Matching(listing.prefix)), NEW i \in DOMAIN s
  PROVE  Cardinality(Above(s[i])) = i - 1
<1> DEFINE S == Matching(listing.prefix)
           n == Cardinality(S)
           f == [j \in 1..(i - 1) |-> s[j].id]
<1>1. /\ IsFiniteSet(S) /\ n \in Nat /\ S \subseteq rows
      /\ s \in [1..n -> S] /\ S = {s[j] : j \in 1..n} /\ i \in 1..n
      /\ \A j, k \in 1..n : j < k => s[j].at >= s[k].at
  BY FS_Subset, FS_CardinalityType DEF NewestFirst, AnyOrder, Matching
<1> HIDE DEF n, S
<1>2. s \in Injection(1..n, S)
  <2>1. s \in Surjection(1..n, S)
    BY <1>1 DEF Surjection
  <2>2. IsFiniteSet(1..n) /\ Cardinality(1..n) = n
    BY <1>1, UpToSize
  <2> QED BY <1>1, <2>1, <2>2, FS_SurjSameCardinalityImpliesInj DEF n
<1>3. \A r \in rows : r.at \in Nat
  BY DEF BaseInv, TypeOK
<1>4. \A j, k \in 1..n : j < k => s[j].at > s[k].at
  <2> SUFFICES ASSUME NEW j \in 1..n, NEW k \in 1..n, j < k PROVE s[j].at > s[k].at
    OBVIOUS
  <2>1. s[j] \in rows /\ s[k] \in rows /\ s[j].at >= s[k].at
    BY <1>1
  <2>2. s[j] # s[k]
    BY <1>1, <1>2 DEF Injection, IsInjective
  <2>3. s[j].at # s[k].at
    BY <2>1, <2>2 DEF Undisturbed
  <2>4. s[j].at \in Nat /\ s[k].at \in Nat
    BY <1>3, <2>1
  <2> QED BY <2>1, <2>3, <2>4
<1>5. Above(s[i]) = {q.id : q \in {t \in S : t.at > s[i].at}}
  BY DEF Above, S
<1>6. f \in Surjection(1..(i - 1), Above(s[i]))
  <2>1. ASSUME NEW j \in 1..(i - 1) PROVE f[j] \in Above(s[i])
    <3>1. j \in 1..n /\ j < i
      BY <1>1
    <3>2. s[j] \in S /\ s[j].at > s[i].at
      BY <1>1, <1>4, <3>1
    <3> QED BY <1>5, <3>2
  <2>2. ASSUME NEW x \in Above(s[i]) PROVE \E j \in 1..(i - 1) : f[j] = x
    <3>1. PICK q \in S : q.at > s[i].at /\ x = q.id
      BY <1>5
    <3>2. PICK j \in 1..n : q = s[j]
      BY <1>1
    <3>3. j < i
      <4>1. s[i] \in rows /\ s[j] \in rows
        BY <1>1
      <4>2. s[i].at \in Nat /\ s[j].at \in Nat /\ s[j].at > s[i].at
        BY <1>3, <3>1, <3>2, <4>1
      <4>3. j # i
        BY <4>2
      <4>4. i < j => s[i].at >= s[j].at
        BY <1>1
      <4>5. ~ (i < j)
        BY <4>2, <4>4
      <4> QED BY <1>1, <4>3, <4>5
    <3>4. j \in 1..(i - 1)
      BY <1>1, <3>3
    <3> QED BY <3>1, <3>2, <3>4
  <2> QED BY <2>1, <2>2 DEF Surjection
<1>7. f \in Injection(1..(i - 1), Above(s[i]))
  <2>1. ASSUME NEW j \in 1..(i - 1), NEW k \in 1..(i - 1), f[j] = f[k] PROVE j = k
    <3>1. j \in 1..n /\ k \in 1..n
      BY <1>1
    <3>2. s[j] \in rows /\ s[k] \in rows /\ s[j].id = s[k].id
      BY <1>1, <2>1, <3>1
    <3>3. s[j] = s[k]
      BY <3>2 DEF BaseInv, TypeOK
    <3> QED BY <1>2, <3>1, <3>3 DEF Injection, IsInjective
  <2> HIDE DEF f
  <2> QED BY <1>6, <2>1 DEF Surjection, Injection, IsInjective
<1>8. IsFiniteSet(1..(i - 1)) /\ Cardinality(1..(i - 1)) = i - 1
  <2>1. i - 1 \in Nat
    BY <1>1
  <2> QED BY <2>1, UpToSize
<1> QED BY <1>6, <1>7, <1>8, FS_Surjection

\* The next page: a row of it is seen, a row below it is still below, and a page
\* that is not full is the last.
LEMMA FetchKeeps ==
  ASSUME BaseInv, BaseInv', ListingInv, FetchPage
  PROVE  ListingInv'
<1>1. PICK s \in NewestFirst(Matching(listing.prefix)) :
        LET page == Page(s, listing.offset)
        IN  listing' = [listing EXCEPT
              !.seen = @ \union {r.id : r \in page},
              !.offset = @ + PageSize,
              !.state = IF Cardinality(page) < PageSize THEN "ended" ELSE "reading"]
  BY DEF FetchPage
<1> DEFINE page == Page(s, listing.offset)
           S == Matching(listing.prefix)
           n == Cardinality(S)
<1>2. /\ listing.state = "reading" /\ UNCHANGED <<rows, deleted>>
      /\ listing'.prefix = listing.prefix /\ listing'.gone = listing.gone
      /\ listing'.start = listing.start
      /\ listing'.seen = listing.seen \union {r.id : r \in page}
      /\ listing'.offset = listing.offset + PageSize
      /\ listing'.state = IF Cardinality(page) < PageSize THEN "ended" ELSE "reading"
      /\ listing.offset \in Nat
  BY <1>1 DEF FetchPage, BaseInv, TypeOK
<1> SUFFICES ASSUME NoEscape(listing.prefix)
             PROVE  StartStays' /\ NoneSkipped' /\ ListingMissesNone'
  BY <1>2 DEF ListingInv
<1>3. StartStays'
  BY <1>2 DEF ListingInv, StartStays, Matching
<1>4. CASE ~ Undisturbed
  BY <1>2, <1>3, <1>4 DEF ListingInv, NoneSkipped, ListingMissesNone, Undisturbed
<1>5. CASE Undisturbed
  <2>1. /\ IsFiniteSet(S) /\ n \in Nat /\ S \subseteq rows
        /\ s \in [1..n -> S] /\ S = {s[j] : j \in 1..n} /\ DOMAIN s = 1..n
    BY FS_Subset, FS_CardinalityType DEF NewestFirst, AnyOrder, Matching, ListingInv
  <2> HIDE DEF n, S
  <2>2. \A i \in 1..n : Cardinality(Above(s[i])) = i - 1
    BY <1>5, <2>1, PlaceIsRank DEF ListingInv
  <2>3. page = {s[i] : i \in {j \in 1..n : listing.offset < j /\ j =< listing.offset + PageSize}}
    BY <2>1 DEF Page
  <2> HIDE DEF page
  <2>4. ASSUME NEW r \in rows, r.id \in listing.start,
               r.id \notin listing'.seen
        PROVE  \E i \in 1..n : r = s[i] /\ i > listing.offset + PageSize
    <3>1. r \in S
      <4>1. PICK q \in rows : q.id = r.id /\ q \in S
        BY <1>2, <1>5, <2>4 DEF ListingInv, StartStays, Undisturbed, S
      <4> QED BY <4>1 DEF BaseInv, TypeOK
    <3>2. PICK i \in 1..n : r = s[i]
      BY <2>1, <3>1
    <3>3. Cardinality(Above(r)) >= listing.offset
      BY <1>2, <1>5, <2>4 DEF ListingInv, NoneSkipped
    <3>4. i - 1 >= listing.offset
      BY <2>2, <3>2, <3>3
    <3>5. r \notin page
      BY <1>2, <2>4
    <3>6. ~ (listing.offset < i /\ i =< listing.offset + PageSize)
      BY <2>3, <3>2, <3>5
    <3> QED BY <1>2, <2>1, <3>2, <3>4, <3>6
  <2>5. NoneSkipped'
    <3> SUFFICES ASSUME NEW r \in rows, r.id \in listing.start, r.id \notin listing'.seen
                 PROVE  Cardinality(Above(r)) >= listing.offset + PageSize
      BY <1>2 DEF NoneSkipped, Above, Matching
    <3>1. PICK i \in 1..n : r = s[i] /\ i > listing.offset + PageSize
      BY <2>4
    <3> QED BY <1>2, <2>1, <2>2, <3>1
  <2>6. ASSUME listing'.state = "ended" PROVE n < listing.offset + PageSize
    <3> SUFFICES ASSUME n >= listing.offset + PageSize
                 PROVE  Cardinality(page) = PageSize
      BY <1>2, <2>1, <2>6
    <3> DEFINE I == (listing.offset + 1)..(listing.offset + PageSize)
               f == [i \in I |-> s[i]]
    <3>1. I \subseteq 1..n /\ page = {s[i] : i \in I}
      BY <1>2, <2>1, <2>3, SMTT(30)
    <3>2. IsFiniteSet(I) /\ Cardinality(I) = PageSize
      BY <1>2, IntervalSize
    <3> HIDE DEF I
    <3>3. f \in Surjection(I, page)
      BY <3>1 DEF Surjection
    <3>4. \A i, j \in I : s[i] = s[j] => i = j
      <4> TAKE i, j \in I
      <4> HAVE s[i] = s[j]
      <4>1. i - 1 = j - 1 /\ i \in Int /\ j \in Int
        BY <2>2, <3>1
      <4> QED BY <4>1
    <3>5. f \in Injection(I, page)
      <4>1. \A i, j \in I : f[i] = f[j] => i = j
        BY <3>4
      <4> HIDE DEF f
      <4> QED BY <3>3, <4>1 DEF Surjection, Injection, IsInjective
    <3> QED BY <3>2, <3>3, <3>5, FS_Surjection
  <2>7. ListingMissesNone'
    <3> SUFFICES ASSUME listing'.state = "ended", NEW id \in listing.start
                 PROVE  id \in listing'.seen
      BY <1>2 DEF ListingMissesNone
    <3>1. PICK r \in rows : r.id = id
      BY <1>2, <1>5 DEF ListingInv, StartStays, Undisturbed
    <3>2. n < listing.offset + PageSize
      BY <2>6
    <3>3. ~ \E i \in 1..n : r = s[i] /\ i > listing.offset + PageSize
      BY <1>2, <2>1, <3>2
    <3> QED BY <2>4, <3>1, <3>3
  <2> QED BY <1>2, <1>3, <2>5, <2>7 DEF ListingInv
<1> QED BY <1>4, <1>5

\* What a listing shows, and what that needs to be inductive.
THEOREM ListingInvariant == Spec => []ListingInv
<1>1. Init => ListingInv
  BY FS_EmptySet DEF Init, ListingInv, StartStays, NoneSkipped, ListingMissesNone, NotListing
<1>2. BaseInv /\ BaseInv' /\ ListingInv /\ [Next]_vars => ListingInv'
  <2> SUFFICES ASSUME BaseInv, BaseInv', ListingInv, [Next]_vars PROVE ListingInv'
    OBVIOUS
  <2>1. IsFiniteSet(rows')
    BY RowsFinite DEF ListingInv
  <2>2. ASSUME NEW c \in Openers, Open(c) PROVE ListingInv'
    BY <2>1, <2>2, ListingUntouched DEF Open, SameThread
  <2>3. ASSUME NEW c \in Openers, Insert(c) PROVE ListingInv'
    <3>1. /\ UNCHANGED <<listing, deleted>>
          /\ rows \subseteq rows' /\ rows' \subseteq rows \union {NewThread(c)}
          /\ NewThread(c).id = c /\ Fresh(c)
      BY <2>3 DEF Insert, NewThread, Fresh
    <3> QED BY <2>1, <3>1, ListingUntouched DEF SameThread
  <2>4. ASSUME NEW e \in Editors, ReadThread(e) PROVE ListingInv'
    BY <2>1, <2>4, ListingUntouched DEF ReadThread, SameThread
  <2>5. ASSUME NEW e \in Editors, WriteThread(e) PROVE ListingInv'
    <3>1. UNCHANGED <<listing, deleted>>
      BY <2>5 DEF WriteThread
    <3> QED BY <2>1, <2>5, <3>1, ListingUntouched, WriteKeepsThreads
  <2>6. ASSUME NEW id \in Openers, DeleteThread(id) PROVE ListingInv'
    <3>1. /\ UNCHANGED listing /\ rows' \subseteq rows
          /\ deleted \subseteq deleted' /\ deleted' # deleted
      BY <2>6 DEF DeleteThread, BaseInv, TypeOK
    <3> QED BY <2>1, <3>1, ListingUntouched DEF SameThread
  <2>7. CASE BeginListing
    BY <2>7, BeginListingKeeps
  <2>8. CASE FetchPage
    BY <2>8, FetchKeeps
  <2>9. CASE UNCHANGED vars
    BY <2>1, <2>9, ListingUntouched DEF vars, SameThread
  <2> QED BY <2>2, <2>3, <2>4, <2>5, <2>6, <2>7, <2>8, <2>9 DEF Next
<1> QED BY <1>1, <1>2, BaseInvariant, PTL DEF Spec

-----------------------------------------------------------------------------
(* What the run checks, for every value of the constants. *)

\* The table and the variables keep their types, no two rows share an id, and a
\* deleted thread does not come back.
THEOREM TypeCorrect == Spec => []TypeOK
<1>1. BaseInv => TypeOK
  BY DEF BaseInv
<1> QED BY <1>1, BaseInvariant, PTL

\* Only two calls that overlap can split a conversation.
THEOREM SplitsOverlap == Spec => []SplitOnlyByOverlap
<1>1. OpenersInv => SplitOnlyByOverlap
  BY DEF OpenersInv
<1> QED BY <1>1, OpenersInvariant, PTL

\* Who asks later never gets an older thread.
THEOREM NeverOlder == Spec => []NeverBackToAnOlderThread
<1>1. OpenersInv => NeverBackToAnOlderThread
  BY DEF OpenersInv
<1> QED BY <1>1, OpenersInvariant, PTL

\* A thread that was returned is in the table until somebody deletes it.
THEOREM ReturnedExists == Spec => []ReturnedThreadExists
<1>1. OpenersInv => ReturnedThreadExists
  BY DEF OpenersInv
<1> QED BY <1>1, OpenersInvariant, PTL

\* An acknowledged edit is lost only to an edit that overlaps it.
THEOREM EditsLostToOverlap == Spec => []EditLostOnlyToOverlappingEdit
<1>1. EditorsInv => EditLostOnlyToOverlappingEdit
  BY DEF EditorsInv
<1> QED BY <1>1, EditorsInvariant, PTL

\* A listing shows every thread that was there when it began, for every prefix
\* without a backslash.
THEOREM ListingComplete == Spec => []ListingMissesNone
<1>1. ListingInv => ListingMissesNone
  BY DEF ListingInv, ListingMissesNone
<1> QED BY <1>1, ListingInvariant, PTL

=============================================================================
