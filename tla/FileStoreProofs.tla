--------------------------- MODULE FileStoreProofs ---------------------------
(* Theorems about FileStore, for every value of its constants. *)
EXTENDS FileStore, TLAPS

USE ExpiryAssumption, BoundsAssumption

(***************************************************************************)
(* What TypeOK needs to be inductive.  Rows in the table and rows in the   *)
(* hands of a remover or a viewer are the ones their uploads have built;   *)
(* an upload that has not inserted its row has left none anywhere.         *)
(***************************************************************************)
Messages == {{}} \union {{Id(m)} : m \in Stored}

WantsTyped ==
  wants \in [Uploads -> [thread : Threads, message : Messages, name : Names, data : Contents]]

HandsTyped == hand \in [Removers \union Viewers -> SUBSET FileRows]

AsBuilt(f) == /\ f.thread = wants[f.id].thread
              /\ f.checksum = wants[f.id].data
              /\ f.key = Key(f.id)

RowsAsBuilt == /\ \A f \in files : AsBuilt(f)
               /\ \A p \in Removers \union Viewers : \A f \in hand[p] : AsBuilt(f)

RowsUnique == \A f, g \in files : f.id = g.id => f = g

NoRowYet ==
  \A u \in Uploads : pc[u] \in {"idle", "find", "drop", "create"} =>
    /\ u \notin removed
    /\ \A f \in files : f.id # u
    /\ \A p \in Removers \union Viewers : \A f \in hand[p] : f.id # u

BeforeHasEnded == \A u \in Uploads : \A v \in before[u] : pc[v] \in Ended

BaseInv == /\ TypeOK /\ WantsTyped /\ HandsTyped
           /\ RowsAsBuilt /\ RowsUnique /\ NoRowYet /\ BeforeHasEnded

(***************************************************************************)
(* RowHasObject and OrphanObjectIsExplained: who is about to insert a row  *)
(* still has its object, keys of two uploads differ, and an object is      *)
(* deleted only when its row can never be there again.                     *)
(***************************************************************************)
CopyIsThere ==
  \A u \in Uploads : pc[u] \in {"find", "create"} =>
    [key |-> Key(u), data |-> wants[u].data] \in objects

NoObjectYet ==
  \A u \in Uploads : pc[u] \notin {"find", "drop", "create", "ok", "failed"} =>
    \A o \in objects : o.key # Key(u)

RemovedIsGone ==
  /\ \A f \in files : f.id \notin removed
  /\ \A r \in Removers : pc[r] = "object" => \A f \in hand[r] : f.id \in removed

BucketInv == /\ CopyIsThere /\ NoObjectYet /\ RemovedIsGone
             /\ RowHasObject /\ OrphanObjectIsExplained

(***************************************************************************)
(* DuplicateOnlyByOverlap: a search that found nothing still means, when   *)
(* the INSERT is answered, that no earlier upload has an equal row.        *)
(***************************************************************************)
SearchStillTrue ==
  \A u \in Uploads : pc[u] = "create" =>
    \A f \in FindByChecksum(u) : f.id \notin before[u]

ShareInv == SearchStillTrue /\ DuplicateOnlyByOverlap

(***************************************************************************)
(* CachedUrlWorks: no row and no hand about to be saved outlives its URL.  *)
(***************************************************************************)
HonouredAsLong ==
  /\ \A f \in files : f.until =< f.url
  /\ \A w \in Viewers : \A f \in hand[w] :
       /\ pc[w] = "sign" => f.until =< clock + Expiry
       /\ pc[w] = "save" => f.until =< f.url

-----------------------------------------------------------------------------
(* The rows. *)

\* The same file, whatever became of its message and its URL.
SameFile(f, g) == f.id = g.id /\ f.thread = g.thread /\ f.checksum = g.checksum /\ f.key = g.key

\* The fields of a row, and of the row with another message or another URL.
LEMMA RowFields ==
  ASSUME NEW f \in FileRows
  PROVE  /\ f.id \in Uploads /\ f.thread \in Threads /\ f.checksum \in Contents
         /\ f.message \in SUBSET {Id(m) : m \in Stored}
         /\ f.key \in {Key(u) : u \in Uploads}
         /\ f.url \in 0..(MaxClock + Expiry) /\ f.until \in 0..(MaxClock + Expiry)
BY DEF FileRows

\* The row that create_file inserts.
LEMMA NewRow ==
  ASSUME WantsTyped, NEW u \in Uploads
  PROVE  /\ NewFile(u) \in FileRows /\ AsBuilt(NewFile(u)) /\ NewFile(u).id = u
         /\ NewFile(u).url = 0 /\ NewFile(u).until = 0
BY DEF WantsTyped, Messages, NewFile, FileRows, AsBuilt, Key

\* The keys of two uploads differ.
LEMMA KeysDiffer == ASSUME NEW u, NEW v, Key(u) = Key(v) PROVE u = v
BY DEF Key

\* update_file_url keeps each row but for its URL, and no row is lost.
LEMMA UpdateRows ==
  ASSUME NEW f \in FileRows, UpdateFileUrl(f), files \subseteq FileRows
  PROVE  /\ \A g \in files' : /\ g \in FileRows
                              /\ \E h \in files : /\ SameFile(g, h) /\ g.message = h.message
                                                  /\ \/ g.url = f.url /\ g.until = f.until
                                                     \/ g.url = h.url /\ g.until = h.until
         /\ \A h \in files : \E g \in files' : SameFile(g, h)
         /\ RowsUnique => RowsUnique'
<1> DEFINE M(g) == IF g.id = f.id THEN [g EXCEPT !.url = f.url, !.until = f.until] ELSE g
<1>1. files' = {M(g) : g \in files}
  BY DEF UpdateFileUrl
<1>2. ASSUME NEW h \in files
      PROVE  /\ M(h) \in FileRows /\ SameFile(M(h), h) /\ M(h).message = h.message
             /\ \/ M(h).url = f.url /\ M(h).until = f.until
                \/ M(h).url = h.url /\ M(h).until = h.until
  <2>1. CASE h.id = f.id
    <3>1. h \in FileRows
      OBVIOUS
    <3> QED BY <2>1, <3>1, RowFields DEF FileRows, SameFile
  <2>2. CASE h.id # f.id
    BY <2>2 DEF SameFile
  <2> QED BY <2>1, <2>2
<1> HIDE DEF M
<1>3. \A g \in files' : /\ g \in FileRows
                        /\ \E h \in files : /\ SameFile(g, h) /\ g.message = h.message
                                            /\ \/ g.url = f.url /\ g.until = f.until
                                               \/ g.url = h.url /\ g.until = h.until
  BY <1>1, <1>2
<1>4. \A h \in files : \E g \in files' : SameFile(g, h)
  BY <1>1, <1>2
<1>5. RowsUnique => RowsUnique'
  BY <1>1, <1>2 DEF RowsUnique, SameFile
<1> QED BY <1>3, <1>4, <1>5

\* CASCADE and SET NULL keep each row of a thread still there, but for its message.
LEMMA CascadeRows ==
  ASSUME files \subseteq FileRows, NEW ts, NEW ms, files' = Cascade(ts, ms)
  PROVE  /\ \A g \in files' : /\ g \in FileRows /\ g.thread \in ts
                              /\ g.message \subseteq {Id(m) : m \in ms}
                              /\ \E h \in files : /\ SameFile(g, h)
                                                  /\ g.url = h.url /\ g.until = h.until
         /\ \A h \in files : h.thread \in ts => \E g \in files' : SameFile(g, h)
         /\ RowsUnique => RowsUnique'
<1> DEFINE M(g) == [g EXCEPT !.message = @ \intersect {Id(m) : m \in ms}]
<1>1. files' = {M(g) : g \in {h \in files : h.thread \in ts}}
  BY DEF Cascade
<1>2. ASSUME NEW h \in files
      PROVE  /\ M(h) \in FileRows /\ SameFile(M(h), h)
             /\ M(h).message \subseteq {Id(m) : m \in ms}
             /\ M(h).url = h.url /\ M(h).until = h.until
  <2>1. h \in FileRows
    OBVIOUS
  <2>2. h.message \intersect {Id(m) : m \in ms} \in SUBSET {Id(x) : x \in Stored}
    BY <2>1, RowFields
  <2> QED BY <2>1, <2>2 DEF FileRows, SameFile
<1> HIDE DEF M
<1>3. \A g \in files' : /\ g \in FileRows /\ g.thread \in ts
                        /\ g.message \subseteq {Id(m) : m \in ms}
                        /\ \E h \in files : SameFile(g, h) /\ g.url = h.url /\ g.until = h.until
  BY <1>1, <1>2 DEF SameFile
<1>4. \A h \in files : h.thread \in ts => \E g \in files' : SameFile(g, h)
  BY <1>1, <1>2
<1>5. RowsUnique => RowsUnique'
  BY <1>1, <1>2 DEF RowsUnique, SameFile
<1> QED BY <1>3, <1>4, <1>5

-----------------------------------------------------------------------------
(* Types, and rows as they were built. *)

Parts == TypeOK /\ WantsTyped /\ HandsTyped /\ RowsAsBuilt

\* The bucket keeps its type whatever is put into it and taken out of it.
LEMMA BucketType ==
  ASSUME TypeOK, WantsTyped, NEW u \in Uploads
  PROVE  /\ PutObject(Key(u), wants[u].data) \subseteq
              [key : {Key(v) : v \in Uploads}, data : Contents]
         /\ \A k : DeleteObject(k) \subseteq [key : {Key(v) : v \in Uploads}, data : Contents]
BY DEF TypeOK, WantsTyped, PutObject, DeleteObject

\* A row in a hand is typed, and as it was built.
LEMMA HandRow ==
  ASSUME Parts, NEW p \in Removers \union Viewers, NEW f \in hand[p]
  PROVE  f \in FileRows /\ AsBuilt(f) /\ f.id \in Uploads
BY RowFields DEF Parts, HandsTyped, RowsAsBuilt

\* The foreign keys of files after a deletion of a thread or a message.
LEMMA DeleteType ==
  ASSUME TypeOK, Delete
  PROVE  /\ threads' \subseteq threads /\ messages' \subseteq messages
         /\ files' = Cascade(threads', messages')
BY DEF Delete, DeleteThread, DeleteMessage, GetThreadMessages

Stages == {"idle", "find", "drop", "create", "row", "object", "sign", "save"} \union Ended

\* A client is always at one of the stages.
LEMMA PcType == ASSUME TypeOK, [Next]_vars PROVE pc' \in [Clients -> Stages]
<1> DEFINE Moved == \E p \in Clients : \E l \in Stages : pc' = [pc EXCEPT ![p] = l]
<1>1. Moved \/ UNCHANGED pc => pc' \in [Clients -> Stages]
  BY DEF TypeOK, Stages
<1>2. ASSUME NEW p \in Clients, NEW l \in Stages, Goto(p, l) PROVE Moved
  BY <1>2 DEF Goto
<1> HIDE DEF Moved
<1>3. ASSUME NEW u \in Uploads, Put(u) \/ Find(u) \/ DropCopy(u) \/ Create(u) PROVE Moved
  <2>1. \E l \in {"find", "drop", "create", "ok", "failed"} : Goto(u, l)
    BY <1>3 DEF Put, Find, DropCopy, Create
  <2> QED BY <1>2, <2>1 DEF Clients, Stages, Ended
<1>4. ASSUME NEW r \in Removers, PickFile(r) \/ RemoveRow(r) \/ RemoveObject(r) PROVE Moved
  <2>1. \E l \in {"row", "object", "ok", "failed"} : Goto(r, l)
    BY <1>4 DEF PickFile, RemoveRow, RemoveObject, Goto
  <2> QED BY <1>2, <2>1 DEF Clients, Stages, Ended
<1>5. ASSUME NEW w \in Viewers, ReadFile(w) \/ Presign(w) \/ SaveUrl(w) PROVE Moved
  <2>1. \E l \in {"sign", "save", "ok", "failed"} : Goto(w, l)
    BY <1>5 DEF ReadFile, Presign, SaveUrl, Goto, Ended
  <2> QED BY <1>2, <2>1 DEF Clients, Stages, Ended
<1>6. Delete \/ Tick \/ UNCHANGED vars => UNCHANGED pc
  BY DEF Delete, Tick, vars
<1> QED BY <1>1, <1>3, <1>4, <1>5, <1>6 DEF Next

\* The row a viewer makes of the one it read, and of the one it signs for.
LEMMA HandMade ==
  ASSUME Parts, NEW f \in FileRows, AsBuilt(f)
  PROVE  /\ LET g == [f EXCEPT !.until = clock + Expiry]
            IN  g \in FileRows /\ AsBuilt(g) /\ g.id = f.id /\ g.until = clock + Expiry
         /\ LET g == [f EXCEPT !.url = clock + (Expiry % Width)]
            IN  /\ g \in FileRows /\ AsBuilt(g) /\ g.id = f.id
                /\ g.url = clock + Expiry /\ g.until = f.until
<1>1. Expiry % Width = Expiry
  OBVIOUS
<1>2. clock + Expiry \in 0..(MaxClock + Expiry)
  BY DEF Parts, TypeOK
<1>3. f.id \in Uploads
  BY RowFields
<1> QED BY <1>1, <1>2, <1>3 DEF FileRows, AsBuilt, Key

\* Types and rows as built are kept by every step.
LEMMA PartsKept == ASSUME Parts, [Next]_vars PROVE Parts'
<1> DEFINE Hands == Removers \union Viewers
<1> USE DEF Parts
<1>0. pc' \in [Clients -> Stages]
  BY PcType
<1>1. ASSUME NEW u \in Uploads, Put(u) PROVE Parts'
  <2>1. pc' \in [Clients -> Stages]
    BY <1>0
  <2>2. /\ before' \in [Uploads -> SUBSET Uploads]
        /\ objects' \subseteq [key : {Key(v) : v \in Uploads}, data : Contents]
    BY <1>1, BucketType DEF Put, TypeOK
  <2>3. UNCHANGED <<threads, messages, files, clock, wants, hand, removed, deletes>>
    BY <1>1 DEF Put, storeVars
  <2> QED BY <2>1, <2>2, <2>3 DEF TypeOK, WantsTyped, HandsTyped, RowsAsBuilt, AsBuilt, Key,
                                  FileRows, ValidFile, Stages
<1>2. ASSUME NEW u \in Uploads, Find(u) PROVE Parts'
  <2>1. pc' \in [Clients -> Stages]
    BY <1>0
  <2>2. UNCHANGED <<threads, messages, files, objects, clock, wants, hand, before, removed, deletes>>
    BY <1>2 DEF Find, storeVars, fileVars, callVars
  <2> QED BY <2>1, <2>2 DEF TypeOK, WantsTyped, HandsTyped, RowsAsBuilt, AsBuilt, Key,
                            FileRows, ValidFile, Stages
<1>3. ASSUME NEW u \in Uploads, DropCopy(u) PROVE Parts'
  <2>1. pc' \in [Clients -> Stages]
    BY <1>0
  <2>2. objects' \subseteq [key : {Key(v) : v \in Uploads}, data : Contents]
    BY <1>3, BucketType DEF DropCopy, TypeOK
  <2>3. UNCHANGED <<threads, messages, files, clock, wants, hand, before, removed, deletes>>
    BY <1>3 DEF DropCopy, storeVars, callVars
  <2> QED BY <2>1, <2>2, <2>3 DEF TypeOK, WantsTyped, HandsTyped, RowsAsBuilt, AsBuilt, Key,
                                  FileRows, ValidFile, Stages
<1>4. ASSUME NEW u \in Uploads, Create(u) PROVE Parts'
  <2>1. pc' \in [Clients -> Stages]
    BY <1>0
  <2>2. \A f \in files' : f \in FileRows /\ ValidFile(f) /\ AsBuilt(f)
    BY <1>4, NewRow DEF Create, TypeOK, RowsAsBuilt
  <2>3. UNCHANGED <<threads, messages, objects, clock, wants, hand, before, removed, deletes>>
    BY <1>4 DEF Create, storeVars, callVars
  <2> QED BY <2>1, <2>2, <2>3 DEF TypeOK, WantsTyped, HandsTyped, RowsAsBuilt, AsBuilt, Key,
                                  FileRows, ValidFile, Stages
<1>5. ASSUME NEW r \in Removers, PickFile(r) PROVE Parts'
  <2>1. pc' \in [Clients -> Stages]
    BY <1>0
  <2>2. PICK f \in files : hand' = [hand EXCEPT ![r] = {f}]
    BY <1>5 DEF PickFile
  <2>3. f \in FileRows /\ AsBuilt(f)
    BY DEF TypeOK, RowsAsBuilt
  <2>4. /\ hand' \in [Hands -> SUBSET FileRows]
        /\ \A p \in Hands : \A g \in hand'[p] : AsBuilt(g)
    BY <2>2, <2>3 DEF HandsTyped, RowsAsBuilt
  <2>5. UNCHANGED <<threads, messages, files, objects, clock, wants, before, removed, deletes>>
    BY <1>5 DEF PickFile, storeVars, fileVars
  <2> QED BY <2>1, <2>4, <2>5 DEF TypeOK, WantsTyped, HandsTyped, RowsAsBuilt, AsBuilt, Key,
                                  FileRows, ValidFile, Stages
<1>6. ASSUME NEW r \in Removers, RemoveRow(r) PROVE Parts'
  <2>1. pc' \in [Clients -> Stages]
    BY <1>0
  <2>2. {f.id : f \in hand[r]} \subseteq Uploads
    BY HandRow
  <2>3. files' \subseteq files /\ removed' \subseteq Uploads
    BY <1>6, <2>2 DEF RemoveRow, TypeOK
  <2>4. /\ hand' \in [Hands -> SUBSET FileRows]
        /\ \A p \in Hands : hand'[p] \subseteq hand[p]
    BY <1>6 DEF RemoveRow, HandsTyped
  <2>5. UNCHANGED <<threads, messages, objects, clock, wants, before, deletes>>
    BY <1>6 DEF RemoveRow, storeVars
  <2> QED BY <2>1, <2>3, <2>4, <2>5 DEF TypeOK, WantsTyped, HandsTyped, RowsAsBuilt, AsBuilt, Key,
                                        FileRows, ValidFile, Stages
<1>7. ASSUME NEW r \in Removers, RemoveObject(r) PROVE Parts'
  <2>1. pc' \in [Clients -> Stages]
    BY <1>0
  <2>2. objects' \subseteq objects
    BY <1>7 DEF RemoveObject, DeleteObject
  <2>3. /\ hand' \in [Hands -> SUBSET FileRows]
        /\ \A p \in Hands : hand'[p] \subseteq hand[p]
    BY <1>7 DEF RemoveObject, HandsTyped
  <2>4. UNCHANGED <<threads, messages, files, clock, wants, before, removed, deletes>>
    BY <1>7 DEF RemoveObject, storeVars
  <2> QED BY <2>1, <2>2, <2>3, <2>4 DEF TypeOK, WantsTyped, HandsTyped, RowsAsBuilt, AsBuilt, Key,
                                        FileRows, ValidFile, Stages
<1>8. ASSUME NEW w \in Viewers, ReadFile(w) PROVE Parts'
  <2>1. pc' \in [Clients -> Stages]
    BY <1>0
  <2>2. /\ hand' \in [Hands -> SUBSET FileRows]
        /\ \A p \in Hands : \A g \in hand'[p] : AsBuilt(g)
    <3>1. CASE UNCHANGED hand
      BY <3>1 DEF HandsTyped, RowsAsBuilt
    <3>2. ASSUME NEW f \in files, hand' = [hand EXCEPT ![w] = {[f EXCEPT !.until = clock + Expiry]}]
          PROVE  /\ hand' \in [Hands -> SUBSET FileRows]
                 /\ \A p \in Hands : \A g \in hand'[p] : AsBuilt(g)
      <4> DEFINE h == [f EXCEPT !.until = clock + Expiry]
      <4>1. f \in FileRows /\ AsBuilt(f)
        BY DEF TypeOK, RowsAsBuilt
      <4>2. h \in FileRows /\ AsBuilt(h)
        BY <4>1, HandMade
      <4>3. hand' = [hand EXCEPT ![w] = {h}]
        BY <3>2
      <4> HIDE DEF h
      <4> QED BY <4>2, <4>3 DEF HandsTyped, RowsAsBuilt
    <3> QED BY <1>8, <3>1, <3>2 DEF ReadFile
  <2>3. UNCHANGED <<threads, messages, files, objects, clock, wants, before, removed, deletes>>
    BY <1>8 DEF ReadFile, storeVars, fileVars
  <2> QED BY <2>1, <2>2, <2>3 DEF TypeOK, WantsTyped, HandsTyped, RowsAsBuilt, AsBuilt, Key,
                                  FileRows, ValidFile, Stages
<1>9. ASSUME NEW w \in Viewers, Presign(w) PROVE Parts'
  <2>1. pc' \in [Clients -> Stages]
    BY <1>0
  <2> DEFINE signed == {[f EXCEPT !.url = clock + (Expiry % Width)] : f \in hand[w]}
  <2>2. \A g \in signed : g \in FileRows /\ AsBuilt(g)
    <3> SUFFICES ASSUME NEW f \in hand[w]
                 PROVE  LET g == [f EXCEPT !.url = clock + (Expiry % Width)]
                        IN  g \in FileRows /\ AsBuilt(g)
      OBVIOUS
    <3>1. f \in FileRows /\ AsBuilt(f)
      BY HandRow
    <3> QED BY <3>1, HandMade
  <2>3. hand' = [hand EXCEPT ![w] = signed]
    BY <1>9 DEF Presign, HandsTyped
  <2> HIDE DEF signed
  <2>4. /\ hand' \in [Hands -> SUBSET FileRows]
        /\ \A p \in Hands : \A g \in hand'[p] : AsBuilt(g)
    BY <2>2, <2>3 DEF HandsTyped, RowsAsBuilt
  <2>5. UNCHANGED <<threads, messages, files, objects, clock, wants, before, removed, deletes>>
    BY <1>9 DEF Presign, storeVars, fileVars
  <2> QED BY <2>1, <2>4, <2>5 DEF TypeOK, WantsTyped, HandsTyped, RowsAsBuilt, AsBuilt, Key,
                                  FileRows, ValidFile, Stages
<1>10. ASSUME NEW w \in Viewers, SaveUrl(w) PROVE Parts'
  <2>1. pc' \in [Clients -> Stages]
    BY <1>0
  <2>2. UNCHANGED <<threads, messages, objects, clock, wants, before, removed, deletes>>
    BY <1>10 DEF SaveUrl, storeVars
  <2>3. /\ hand' \in [Hands -> SUBSET FileRows]
        /\ \A p \in Hands : hand'[p] \subseteq hand[p]
    BY <1>10 DEF SaveUrl, HandsTyped
  <2>4. \A g \in files' : g \in FileRows /\ ValidFile(g) /\ AsBuilt(g)
    <3>1. CASE UNCHANGED files
      BY <3>1 DEF TypeOK, RowsAsBuilt
    <3>2. ASSUME NEW f \in hand[w], UpdateFileUrl(f)
          PROVE  \A g \in files' : g \in FileRows /\ ValidFile(g) /\ AsBuilt(g)
      <4>1. f \in FileRows
        BY HandRow
      <4>2. \A g \in files' : /\ g \in FileRows
                              /\ \E h \in files : SameFile(g, h) /\ g.message = h.message
        BY <3>2, <4>1, UpdateRows DEF TypeOK
      <4> QED BY <4>2 DEF TypeOK, RowsAsBuilt, AsBuilt, ValidFile, SameFile
    <3> QED BY <1>10, <3>1, <3>2 DEF SaveUrl
  <2> QED BY <2>1, <2>2, <2>3, <2>4 DEF TypeOK, WantsTyped, HandsTyped, RowsAsBuilt, AsBuilt, Key,
                                        FileRows, ValidFile, Stages
<1>11. CASE Delete
  <2>1. UNCHANGED <<objects, clock, pc, wants, hand, before, removed>>
    BY <1>11 DEF Delete, callVars
  <2>2. deletes' \in 0..MaxDeletes
    BY <1>11 DEF Delete, TypeOK
  <2>3. threads' \subseteq Threads /\ messages' \subseteq Stored
    BY <1>11, DeleteType DEF TypeOK
  <2>4. \A g \in files' : /\ g \in FileRows /\ g.thread \in threads'
                          /\ g.message \subseteq {Id(m) : m \in messages'}
                          /\ \E h \in files : SameFile(g, h)
    BY <1>11, DeleteType, CascadeRows DEF TypeOK
  <2>5. \A g \in files' : ValidFile(g)' /\ AsBuilt(g)
    BY <2>4 DEF ValidFile, RowsAsBuilt, AsBuilt, SameFile
  <2> QED BY <2>1, <2>2, <2>3, <2>4, <2>5 DEF TypeOK, WantsTyped, HandsTyped, RowsAsBuilt, AsBuilt,
                                              Key, FileRows, ValidFile
<1>12. CASE Tick
  <2>1. clock' \in 1..MaxClock
    BY <1>12 DEF Tick, TypeOK
  <2>2. UNCHANGED <<threads, messages, files, objects, pc, wants, hand, before, removed, deletes>>
    BY <1>12 DEF Tick, storeVars, fileVars, callVars
  <2> QED BY <2>1, <2>2 DEF TypeOK, WantsTyped, HandsTyped, RowsAsBuilt, AsBuilt, Key,
                            FileRows, ValidFile
<1>13. CASE UNCHANGED vars
  BY <1>13 DEF vars, storeVars, fileVars, callVars, TypeOK, WantsTyped, HandsTyped, RowsAsBuilt,
               AsBuilt, Key, FileRows, ValidFile
<1> QED BY <1>1, <1>2, <1>3, <1>4, <1>5, <1>6, <1>7, <1>8, <1>9, <1>10, <1>11, <1>12, <1>13 DEF Next

-----------------------------------------------------------------------------
(* What each action does, in the terms of the proofs. *)

Hands == Removers \union Viewers

\* Nobody else moves.
Only(p) == \A q \in Clients \ {p} : pc'[q] = pc[q]

\* upload_file is answered: the object is there, or may be.
LEMMA PutStep ==
  ASSUME TypeOK, NEW u \in Uploads, Put(u)
  PROVE  /\ pc[u] = "idle" /\ Only(u)
         /\ before' = [before EXCEPT ![u] = {v \in Uploads : pc[v] \in Ended}]
         /\ \/ pc'[u] = "find" /\ objects' = PutObject(Key(u), wants[u].data)
            \/ pc'[u] = "failed" /\ objects' \in {objects, PutObject(Key(u), wants[u].data)}
         /\ UNCHANGED <<threads, messages, files, clock, wants, hand, removed, deletes>>
BY DEF TypeOK, Put, MayBegin, Goto, Clients, Only, storeVars

\* find_by_checksum is answered: create only when nothing was found.
LEMMA FindStep ==
  ASSUME TypeOK, NEW u \in Uploads, Find(u)
  PROVE  /\ pc[u] = "find" /\ Only(u)
         /\ \/ pc'[u] \in {"drop", "failed"}
            \/ pc'[u] = "create" /\ FindByChecksum(u) = {}
         /\ UNCHANGED <<threads, messages, files, objects, clock, wants, hand, before, removed,
                        deletes>>
BY DEF TypeOK, Find, Goto, Clients, Only, storeVars, fileVars, callVars

\* The copy that is not needed is deleted, or may be.
LEMMA DropCopyStep ==
  ASSUME TypeOK, NEW u \in Uploads, DropCopy(u)
  PROVE  /\ pc[u] = "drop" /\ Only(u)
         /\ \/ pc'[u] = "ok" /\ objects' = DeleteObject(Key(u))
            \/ pc'[u] = "failed" /\ objects' \in {objects, DeleteObject(Key(u))}
         /\ UNCHANGED <<threads, messages, files, clock, wants, hand, before, removed, deletes>>
BY DEF TypeOK, DropCopy, Goto, Clients, Only, storeVars, callVars

\* create_file is answered: the row is there unless the call failed.
LEMMA CreateStep ==
  ASSUME TypeOK, NEW u \in Uploads, Create(u)
  PROVE  /\ pc[u] = "create" /\ Only(u)
         /\ \/ pc'[u] \in Ended /\ files' = files \union {NewFile(u)}
            \/ pc'[u] = "failed" /\ files' = files
         /\ UNCHANGED <<threads, messages, objects, clock, wants, hand, before, removed, deletes>>
BY DEF TypeOK, Create, Goto, Clients, Only, storeVars, callVars, Ended

\* A remover takes a row of the table into its hand.
LEMMA PickFileStep ==
  ASSUME TypeOK, HandsTyped, NEW r \in Removers, PickFile(r)
  PROVE  /\ pc[r] = "idle" /\ Only(r) /\ pc'[r] = "row"
         /\ \E f \in files : hand'[r] = {f}
         /\ \A p \in Hands \ {r} : hand'[p] = hand[p]
         /\ UNCHANGED <<threads, messages, files, objects, clock, wants, before, removed, deletes>>
BY DEF TypeOK, HandsTyped, Hands, PickFile, MayBegin, Goto, Clients, Only, storeVars, fileVars

\* The row goes first, and only with it the right to delete the object.
LEMMA RemoveRowStep ==
  ASSUME TypeOK, HandsTyped, NEW r \in Removers, RemoveRow(r)
  PROVE  /\ pc[r] = "row" /\ Only(r)
         /\ \/ /\ files' = {f \in files : f.id \notin {h.id : h \in hand[r]}}
               /\ removed' = removed \union {h.id : h \in hand[r]}
               /\ \/ pc'[r] = "object" /\ hand'[r] = hand[r]
                  \/ pc'[r] = "failed" /\ hand'[r] = {}
            \/ UNCHANGED <<files, removed>> /\ pc'[r] = "failed" /\ hand'[r] = {}
         /\ \A p \in Hands \ {r} : hand'[p] = hand[p]
         /\ UNCHANGED <<threads, messages, objects, clock, wants, before, deletes>>
<1>1. files \ GetFile({h.id : h \in hand[r]}) = {f \in files : f.id \notin {h.id : h \in hand[r]}}
  BY DEF GetFile
<1>2. \/ pc' = [pc EXCEPT ![r] = "object"]
      \/ pc' = [pc EXCEPT ![r] = "failed"]
  BY DEF RemoveRow, Goto
<1>3. /\ pc[r] = "row" /\ Only(r) /\ pc'[r] \in {"object", "failed"}
      /\ \A p \in Hands \ {r} : hand'[p] = hand[p]
      /\ hand'[r] = IF pc'[r] = "failed" THEN {} ELSE hand[r]
      /\ UNCHANGED <<threads, messages, objects, clock, wants, before, deletes>>
  BY <1>2 DEF TypeOK, HandsTyped, Hands, RemoveRow, Clients, Only, storeVars
<1>4. \/ /\ files' = files \ GetFile({h.id : h \in hand[r]})
         /\ removed' = removed \union {h.id : h \in hand[r]}
      \/ UNCHANGED <<files, removed>> /\ pc'[r] = "failed"
  BY <1>3 DEF RemoveRow, Goto, TypeOK, Clients
<1> QED BY <1>1, <1>3, <1>4

\* The object of the row in hand goes, or may.
LEMMA RemoveObjectStep ==
  ASSUME TypeOK, HandsTyped, NEW r \in Removers, RemoveObject(r)
  PROVE  /\ pc[r] = "object" /\ Only(r) /\ pc'[r] \in Ended
         /\ \E f \in hand[r] : objects' \in {objects, DeleteObject(f.key)}
         /\ hand'[r] = {} /\ \A p \in Hands \ {r} : hand'[p] = hand[p]
         /\ UNCHANGED <<threads, messages, files, clock, wants, before, removed, deletes>>
BY DEF TypeOK, HandsTyped, Hands, RemoveObject, Goto, Clients, Only, storeVars, Ended

\* A viewer whose URL is not valid takes the row with its new time of expiry.
LEMMA ReadFileStep ==
  ASSUME Parts, NEW w \in Viewers, ReadFile(w)
  PROVE  /\ pc[w] = "idle" /\ Only(w)
         /\ \/ pc'[w] = "ok" /\ hand'[w] = hand[w]
            \/ /\ pc'[w] = "sign"
               /\ \E f \in files : \A g \in hand'[w] : g.id = f.id /\ g.until = clock + Expiry
         /\ \A p \in Hands \ {w} : hand'[p] = hand[p]
         /\ UNCHANGED <<threads, messages, files, objects, clock, wants, before, removed, deletes>>
<1>1. /\ pc[w] = "idle" /\ Only(w) /\ \A p \in Hands \ {w} : hand'[p] = hand[p]
      /\ UNCHANGED <<threads, messages, files, objects, clock, wants, before, removed, deletes>>
  BY DEF Parts, TypeOK, HandsTyped, Hands, ReadFile, MayBegin, Goto, Clients, Only, storeVars,
         fileVars
<1>2. CASE Goto(w, "ok") /\ UNCHANGED hand
  BY <1>1, <1>2 DEF Goto, Parts, TypeOK, Clients
<1>3. ASSUME NEW f \in files, Goto(w, "sign"),
             hand' = [hand EXCEPT ![w] = {[f EXCEPT !.until = clock + Expiry]}]
      PROVE  /\ pc'[w] = "sign"
             /\ \A g \in hand'[w] : g.id = f.id /\ g.until = clock + Expiry
  <2> DEFINE h == [f EXCEPT !.until = clock + Expiry]
  <2>1. f \in FileRows /\ AsBuilt(f)
    BY DEF Parts, TypeOK, RowsAsBuilt
  <2>2. h.id = f.id /\ h.until = clock + Expiry
    BY <2>1, HandMade
  <2>3. hand'[w] = {h}
    BY <1>3 DEF Parts, HandsTyped
  <2>4. pc'[w] = "sign"
    BY <1>3 DEF Goto, Parts, TypeOK, Clients
  <2> HIDE DEF h
  <2> QED BY <2>2, <2>3, <2>4
<1> QED BY <1>1, <1>2, <1>3 DEF ReadFile

\* The URL is signed: it is honoured for Expiry from now on.
LEMMA PresignStep ==
  ASSUME Parts, NEW w \in Viewers, Presign(w)
  PROVE  /\ pc[w] = "sign" /\ Only(w) /\ pc'[w] = "save"
         /\ \A g \in hand'[w] : \E f \in hand[w] : /\ g.id = f.id /\ g.until = f.until
                                                   /\ g.url = clock + Expiry
         /\ \A p \in Hands \ {w} : hand'[p] = hand[p]
         /\ UNCHANGED <<threads, messages, files, objects, clock, wants, before, removed, deletes>>
<1>1. /\ pc[w] = "sign" /\ Only(w) /\ pc'[w] = "save"
      /\ \A p \in Hands \ {w} : hand'[p] = hand[p]
      /\ UNCHANGED <<threads, messages, files, objects, clock, wants, before, removed, deletes>>
  BY DEF Parts, TypeOK, HandsTyped, Hands, Presign, Goto, Clients, Only, storeVars, fileVars
<1>2. hand'[w] = {[f EXCEPT !.url = clock + (Expiry % Width)] : f \in hand[w]}
  BY DEF Parts, HandsTyped, Presign
<1>3. ASSUME NEW f \in hand[w]
      PROVE  LET g == [f EXCEPT !.url = clock + (Expiry % Width)]
             IN  g.id = f.id /\ g.until = f.until /\ g.url = clock + Expiry
  BY HandRow, HandMade
<1> QED BY <1>1, <1>2, <1>3

\* update_file_url is answered.
LEMMA SaveUrlStep ==
  ASSUME TypeOK, HandsTyped, NEW w \in Viewers, SaveUrl(w)
  PROVE  /\ pc[w] = "save" /\ Only(w) /\ pc'[w] \in Ended
         /\ UNCHANGED files \/ \E f \in hand[w] : UpdateFileUrl(f)
         /\ hand'[w] = {} /\ \A p \in Hands \ {w} : hand'[p] = hand[p]
         /\ UNCHANGED <<threads, messages, objects, clock, wants, before, removed, deletes>>
BY DEF TypeOK, HandsTyped, Hands, SaveUrl, Goto, Clients, Only, storeVars, Ended

\* A thread or a message is deleted, and its rows follow.
LEMMA DeleteStep ==
  ASSUME TypeOK, Delete
  PROVE  /\ files' = Cascade(threads', messages') /\ threads' \subseteq threads
         /\ UNCHANGED <<objects, clock, pc, wants, hand, before, removed>>
BY DeleteType DEF Delete, callVars

\* Time passes, or nothing.
LEMMA OtherStep ==
  ASSUME TypeOK, Tick \/ UNCHANGED vars
  PROVE  /\ UNCHANGED <<threads, messages, files, objects, pc, wants, hand, before, removed, deletes>>
         /\ clock' \in Nat /\ clock' >= clock
BY DEF Tick, TypeOK, vars, storeVars, fileVars, callVars

-----------------------------------------------------------------------------
(* What one step may do to rows, hands and calls. *)

Early == {"idle", "find", "drop", "create"}

\* A call that ended stays where it ended, one that has begun to insert is not
\* early any more, and the ids in the table, in the hands and in the history come
\* from there, but for the id of the row that is inserted.
EndedStay == \A p \in Clients : pc[p] \in Ended => pc'[p] = pc[p]
EarlyWasEarly == \A u \in Uploads : pc'[u] \in Early => pc[u] \in Early
RowsFromRows ==
  \A f \in files' :
    \/ \E g \in files : SameFile(f, g)
    \/ f = NewFile(f.id) /\ pc[f.id] = "create" /\ pc'[f.id] \in Ended
HandsFromRows ==
  \A p \in Hands : \A f \in hand'[p] : \E g \in files \union hand[p] : g.id = f.id
RemovedFromHands == \A x \in removed' \ removed : \E p \in Hands : \E f \in hand[p] : f.id = x

IdsMove == EndedStay /\ EarlyWasEarly /\ RowsFromRows /\ HandsFromRows /\ RemovedFromHands

\* One client moves, from where it had not ended.
LEMMA MovesStages ==
  ASSUME NEW p \in Clients, pc[p] \notin Ended, Only(p), Uploads \subseteq Clients,
         pc[p] \in Early \/ pc'[p] \notin Early
  PROVE  EndedStay /\ EarlyWasEarly
BY DEF Only, EndedStay, EarlyWasEarly

\* A table and hands that stay as they are.
LEMMA NothingNew ==
  /\ files' \subseteq files => RowsFromRows
  /\ UNCHANGED hand => HandsFromRows
  /\ UNCHANGED removed => RemovedFromHands
BY DEF RowsFromRows, HandsFromRows, RemovedFromHands, SameFile

\* Every step moves ids that way.
LEMMA StepMovesIds == ASSUME Parts, [Next]_vars PROVE IdsMove
<1> USE DEF Parts
<1>0. Uploads \subseteq Clients /\ Removers \subseteq Clients /\ Viewers \subseteq Clients
  BY DEF Clients
<1>1. ASSUME NEW u \in Uploads, Put(u) \/ Find(u) \/ DropCopy(u) PROVE IdsMove
  <2>1. /\ pc[u] \in {"idle", "find", "drop"} /\ Only(u)
        /\ UNCHANGED <<files, hand, removed>>
    BY <1>1, PutStep, FindStep, DropCopyStep
  <2>2. pc[u] \notin Ended /\ pc[u] \in Early
    BY <2>1 DEF Ended, Early
  <2> QED BY <1>0, <2>1, <2>2, MovesStages, NothingNew DEF IdsMove
<1>2. ASSUME NEW u \in Uploads, Create(u) PROVE IdsMove
  <2>1. /\ pc[u] = "create" /\ Only(u) /\ UNCHANGED <<hand, removed>>
        /\ \/ pc'[u] \in Ended /\ files' = files \union {NewFile(u)}
           \/ files' = files
    BY <1>2, CreateStep
  <2>2. pc[u] \notin Ended /\ pc[u] \in Early
    BY <2>1 DEF Ended, Early
  <2>3. RowsFromRows
    BY <2>1, NewRow DEF RowsFromRows, SameFile
  <2> QED BY <1>0, <2>1, <2>2, <2>3, MovesStages, NothingNew DEF IdsMove
<1>3. ASSUME NEW r \in Removers, PickFile(r) \/ RemoveRow(r) \/ RemoveObject(r) PROVE IdsMove
  <2>1. /\ pc[r] \in {"idle", "row", "object"} /\ Only(r) /\ files' \subseteq files
        /\ pc'[r] \in {"row", "object"} \union Ended
    BY <1>3, PickFileStep, RemoveRowStep, RemoveObjectStep DEF Ended
  <2>2. pc[r] \notin Ended /\ pc'[r] \notin Early
    BY <2>1 DEF Ended, Early
  <2>3. /\ \A p \in Hands \ {r} : hand'[p] = hand[p]
        /\ (\E f \in files : hand'[r] = {f}) \/ hand'[r] \subseteq hand[r]
    BY <1>3, PickFileStep, RemoveRowStep, RemoveObjectStep
  <2>4. HandsFromRows
    BY <2>3 DEF HandsFromRows
  <2>5. r \in Hands /\ (UNCHANGED removed \/ removed' = removed \union {h.id : h \in hand[r]})
    BY <1>3, PickFileStep, RemoveRowStep, RemoveObjectStep DEF Hands
  <2>6. RemovedFromHands
    BY <2>5 DEF RemovedFromHands
  <2> QED BY <1>0, <2>1, <2>2, <2>4, <2>6, MovesStages, NothingNew DEF IdsMove
<1>4. ASSUME NEW w \in Viewers, ReadFile(w) \/ Presign(w) PROVE IdsMove
  <2>1. /\ pc[w] \in {"idle", "sign"} /\ Only(w) /\ pc'[w] \in {"ok", "sign", "save"}
        /\ UNCHANGED <<files, removed>>
    BY <1>4, ReadFileStep, PresignStep
  <2>2. pc[w] \notin Ended /\ pc'[w] \notin Early
    BY <2>1 DEF Ended, Early
  <2>3. /\ \A p \in Hands \ {w} : hand'[p] = hand[p]
        /\ \A g \in hand'[w] : \E f \in files \union hand[w] : g.id = f.id
    BY <1>4, ReadFileStep, PresignStep
  <2>4. HandsFromRows
    BY <2>3 DEF HandsFromRows
  <2> QED BY <1>0, <2>1, <2>2, <2>4, MovesStages, NothingNew DEF IdsMove
<1>5. ASSUME NEW w \in Viewers, SaveUrl(w) PROVE IdsMove
  <2>1. /\ pc[w] = "save" /\ Only(w) /\ pc'[w] \in Ended /\ UNCHANGED removed
        /\ UNCHANGED files \/ \E f \in hand[w] : UpdateFileUrl(f)
        /\ hand'[w] = {} /\ \A p \in Hands \ {w} : hand'[p] = hand[p]
    BY <1>5, SaveUrlStep
  <2>2. pc[w] \notin Ended /\ pc'[w] \notin Early
    BY <2>1 DEF Ended, Early
  <2>3. HandsFromRows
    BY <2>1 DEF HandsFromRows
  <2>4. ASSUME NEW f \in hand[w], UpdateFileUrl(f) PROVE RowsFromRows
    <3>1. f \in FileRows
      BY HandRow
    <3>2. \A g \in files' : \E h \in files : SameFile(g, h)
      BY <2>4, <3>1, UpdateRows DEF TypeOK
    <3> QED BY <3>2 DEF RowsFromRows
  <2> QED BY <1>0, <2>1, <2>2, <2>3, <2>4, MovesStages, NothingNew DEF IdsMove
<1>6. CASE Delete
  <2>1. \A g \in files' : \E h \in files : SameFile(g, h)
    BY <1>6, DeleteStep, CascadeRows DEF TypeOK
  <2>2. RowsFromRows
    BY <2>1 DEF RowsFromRows
  <2> QED BY <1>6, <2>2, DeleteStep, NothingNew DEF IdsMove, EndedStay, EarlyWasEarly
<1>7. CASE Tick \/ UNCHANGED vars
  BY <1>7, OtherStep, NothingNew DEF IdsMove, EndedStay, EarlyWasEarly
<1> QED BY <1>1, <1>2, <1>3, <1>4, <1>5, <1>6, <1>7 DEF Next

\* The rows stay unique: the one INSERT of an upload finds no row of its own.
LEMMA RowsStayUnique == ASSUME BaseInv, [Next]_vars PROVE RowsUnique'
<1> USE DEF BaseInv
<1>0. Parts
  BY DEF Parts
<1>1. ASSUME files' \subseteq files PROVE RowsUnique'
  BY <1>1 DEF RowsUnique
<1>2. ASSUME NEW u \in Uploads, Create(u) PROVE RowsUnique'
  <2>1. NewFile(u).id = u /\ \A f \in files : f.id # u
    BY <1>2, CreateStep, NewRow DEF NoRowYet
  <2>2. files' = files \union {NewFile(u)} \/ files' = files
    BY <1>2, CreateStep
  <2> QED BY <2>1, <2>2 DEF RowsUnique
<1>3. ASSUME NEW w \in Viewers, SaveUrl(w) PROVE RowsUnique'
  <2>1. ASSUME NEW f \in hand[w], UpdateFileUrl(f) PROVE RowsUnique'
    <3>1. f \in FileRows
      BY <1>0, HandRow
    <3> QED BY <2>1, <3>1, UpdateRows DEF TypeOK
  <2> QED BY <1>1, <1>3, <2>1, SaveUrlStep
<1>4. CASE Delete
  BY <1>4, DeleteStep, CascadeRows DEF TypeOK
<1>5. ASSUME NEW u \in Uploads, Put(u) \/ Find(u) \/ DropCopy(u) PROVE files' \subseteq files
  BY <1>5, PutStep, FindStep, DropCopyStep
<1>6. ASSUME NEW r \in Removers, PickFile(r) \/ RemoveRow(r) \/ RemoveObject(r)
      PROVE  files' \subseteq files
  BY <1>6, PickFileStep, RemoveRowStep, RemoveObjectStep
<1>7. ASSUME NEW w \in Viewers, ReadFile(w) \/ Presign(w) PROVE files' \subseteq files
  BY <1>0, <1>7, ReadFileStep, PresignStep
<1>8. Tick \/ UNCHANGED vars => files' \subseteq files
  BY OtherStep
<1> QED BY <1>1, <1>2, <1>3, <1>4, <1>5, <1>6, <1>7, <1>8 DEF Next

\* Who had ended when an upload began is still ended.
LEMMA BeforeStaysEnded == ASSUME BaseInv, [Next]_vars PROVE BeforeHasEnded'
<1> USE DEF BaseInv
<1>0. Parts /\ Uploads \subseteq Clients
  BY DEF Parts, Clients
<1>1. \A p \in Clients : pc[p] \in Ended => pc'[p] = pc[p]
  BY <1>0, StepMovesIds DEF IdsMove, EndedStay
<1>2. CASE UNCHANGED before
  BY <1>0, <1>1, <1>2 DEF BeforeHasEnded, TypeOK
<1>3. ASSUME NEW u \in Uploads, Put(u) PROVE BeforeHasEnded'
  <2>1. before' = [before EXCEPT ![u] = {v \in Uploads : pc[v] \in Ended}]
    BY <1>3, PutStep
  <2> QED BY <1>0, <1>1, <2>1 DEF BeforeHasEnded, TypeOK
<1>4. ASSUME NEW u \in Uploads, Find(u) \/ DropCopy(u) \/ Create(u) PROVE UNCHANGED before
  BY <1>4, FindStep, DropCopyStep, CreateStep
<1>5. ASSUME NEW r \in Removers, PickFile(r) \/ RemoveRow(r) \/ RemoveObject(r)
      PROVE  UNCHANGED before
  BY <1>5, PickFileStep, RemoveRowStep, RemoveObjectStep
<1>6. ASSUME NEW w \in Viewers, ReadFile(w) \/ Presign(w) \/ SaveUrl(w) PROVE UNCHANGED before
  BY <1>0, <1>6, ReadFileStep, PresignStep, SaveUrlStep
<1>7. Delete \/ Tick \/ UNCHANGED vars => UNCHANGED before
  BY DeleteStep, OtherStep
<1> QED BY <1>2, <1>3, <1>4, <1>5, <1>6, <1>7 DEF Next

\* Every value the code can reach is of its type, the foreign keys hold, and what
\* TypeOK needs to be inductive.
THEOREM BaseInvariant == Spec => []BaseInv
<1>1. Init => BaseInv
  BY DEF Init, BaseInv, TypeOK, WantsTyped, Messages, HandsTyped, RowsAsBuilt, RowsUnique, NoRowYet,
         BeforeHasEnded, FileRows
<1>2. BaseInv /\ [Next]_vars => BaseInv'
  <2> SUFFICES ASSUME BaseInv, [Next]_vars PROVE BaseInv'
    OBVIOUS
  <2>1. Parts /\ Parts'
    BY PartsKept DEF Parts, BaseInv
  <2>2. NoRowYet'
    <3> SUFFICES ASSUME NEW u \in Uploads, pc'[u] \in Early
                 PROVE  /\ u \notin removed'
                        /\ \A f \in files' : f.id # u
                        /\ \A p \in Hands : \A f \in hand'[p] : f.id # u
      BY DEF NoRowYet, Early, Hands
    <3>1. /\ pc[u] \in Early /\ u \notin removed
          /\ \A f \in files : f.id # u
          /\ \A p \in Hands : \A f \in hand[p] : f.id # u
      BY <2>1, StepMovesIds DEF IdsMove, EarlyWasEarly, BaseInv, NoRowYet, Early, Hands
    <3>2. IdsMove
      BY <2>1, StepMovesIds
    <3>3. \A f \in files' : f.id # u
      BY <3>1, <3>2 DEF IdsMove, RowsFromRows, SameFile, Early, Ended
    <3> QED BY <3>1, <3>2, <3>3 DEF IdsMove, HandsFromRows, RemovedFromHands
  <2> QED BY <2>1, <2>2, RowsStayUnique, BeforeStaysEnded DEF Parts, BaseInv
<1> QED BY <1>1, <1>2, PTL DEF Spec

-----------------------------------------------------------------------------
(* Rows and objects. *)

\* Where a client is that has nothing to do with an upload of its own.
Elsewhere == {"idle", "row", "object", "sign", "save"}

\* A step that leaves the bucket alone keeps what is said of it, when rows only
\* go with their thread or into the history of removals.
LEMMA BucketUntouched ==
  ASSUME BaseInv, BucketInv, RemovedIsGone', UNCHANGED <<objects, wants>>,
         \A u \in Uploads : \/ pc'[u] = pc[u]
                            \/ pc[u] = "find" /\ pc'[u] \in {"drop", "create", "failed"}
                            \/ pc[u] \in Elsewhere /\ pc'[u] \in Elsewhere \union Ended,
         \A f \in files' : \E g \in files : SameFile(f, g),
         \A g \in files : \/ \E f \in files' : SameFile(f, g)
                          \/ g.id \in removed' \/ g.thread \notin threads',
         removed \subseteq removed', threads' \subseteq threads
  PROVE  BucketInv'
<1> USE DEF BucketInv
<1>0. \A u \in Uploads : Key(u)' = Key(u)
  BY DEF Key
<1>1. CopyIsThere'
  BY <1>0 DEF CopyIsThere, Elsewhere, Ended
<1>2. NoObjectYet'
  BY <1>0 DEF NoObjectYet, Elsewhere, Ended
<1>3. RowHasObject'
  BY DEF RowHasObject, SameFile
<1>4. OrphanObjectIsExplained'
  <2> SUFFICES ASSUME NEW u \in Uploads, NEW o \in objects, o.key = Key(u),
                      \A f \in files' : f.id # u
               PROVE  \/ pc'[u] \in {"find", "drop", "create", "failed"}
                      \/ u \in removed'
                      \/ wants[u].thread \notin threads'
    BY <1>0 DEF OrphanObjectIsExplained, GetFile
  <2>1. CASE \A f \in files : f.id # u
    <3>1. \/ pc[u] \in {"find", "drop", "create", "failed"}
          \/ u \in removed
          \/ wants[u].thread \notin threads
      BY <2>1 DEF OrphanObjectIsExplained, GetFile
    <3>2. pc[u] \notin Elsewhere
      BY DEF NoObjectYet, Elsewhere
    <3> QED BY <3>1, <3>2
  <2>2. ASSUME NEW g \in files, g.id = u
        PROVE  u \in removed' \/ wants[u].thread \notin threads'
    BY <2>2 DEF SameFile, BaseInv, RowsAsBuilt, AsBuilt
  <2> QED BY <2>1, <2>2
<1> QED BY <1>1, <1>2, <1>3, <1>4

\* The object of a row, of another upload, is not touched by what happens to the
\* key of this one.
LEMMA OtherKeys ==
  ASSUME BaseInv, NEW u \in Uploads, NEW d, NEW o, o.key # Key(u)
  PROVE  /\ o \in PutObject(Key(u), d) <=> o \in objects
         /\ o \in DeleteObject(Key(u)) <=> o \in objects
<1>1. [key |-> Key(u), data |-> d].key = Key(u)
  OBVIOUS
<1> QED BY <1>1 DEF PutObject, DeleteObject

\* A step that touches one key of the bucket, one that no row has and no call is
\* about to insert, keeps what is said of the other keys.
LEMMA OneKey ==
  ASSUME BaseInv, BucketInv, NEW u \in Uploads, NEW d,
         objects' \in {objects, PutObject(Key(u), d), DeleteObject(Key(u))},
         UNCHANGED <<wants, files, removed, threads>>, \A f \in files : f.id # u,
         \A v \in Uploads \ {u} : \/ pc'[v] = pc[v]
                                  \/ pc[v] \in Elsewhere /\ pc'[v] \in Elsewhere \union Ended,
         RemovedIsGone',
         pc'[u] \in {"find", "create"} => [key |-> Key(u), data |-> wants[u].data] \in objects',
         pc'[u] \in Elsewhere \union {"ok"} =>
           (\A o \in objects' : o.key # Key(u)) \/ (pc'[u] = "ok" /\ u \in removed),
         pc'[u] \in Stages
  PROVE  BucketInv'
<1> USE DEF BucketInv
<1>0. \A v \in Uploads : Key(v)' = Key(v)
  BY DEF Key
<1>1. \A o : o.key # Key(u) => (o \in objects' <=> o \in objects)
  BY OtherKeys
<1>2. \A v \in Uploads \ {u} : Key(v) # Key(u)
  BY KeysDiffer
<1>3. CopyIsThere'
  <2> SUFFICES ASSUME NEW v \in Uploads, pc'[v] \in {"find", "create"}
               PROVE  [key |-> Key(v), data |-> wants[v].data] \in objects'
    BY <1>0 DEF CopyIsThere
  <2>1. CASE v # u
    <3>1. pc[v] = pc'[v]
      BY <2>1 DEF Elsewhere, Ended
    <3>2. [key |-> Key(v), data |-> wants[v].data] \in objects
      BY <3>1 DEF CopyIsThere
    <3>3. [key |-> Key(v), data |-> wants[v].data].key = Key(v)
      OBVIOUS
    <3> QED BY <1>1, <1>2, <2>1, <3>2, <3>3
  <2> QED BY <2>1
<1>4. NoObjectYet'
  <2> SUFFICES ASSUME NEW v \in Uploads, pc'[v] \notin {"find", "drop", "create", "ok", "failed"},
                      NEW o \in objects', o.key = Key(v)
               PROVE  FALSE
    BY <1>0 DEF NoObjectYet
  <2>1. CASE v # u
    <3>1. o \in objects
      BY <1>1, <1>2, <2>1
    <3>2. pc[v] \notin {"find", "drop", "create", "ok", "failed"}
      BY <2>1 DEF Elsewhere, Ended
    <3> QED BY <3>1, <3>2 DEF NoObjectYet
  <2>2. CASE v = u
    BY <2>2 DEF Elsewhere, Stages, Ended
  <2> QED BY <2>1, <2>2
<1>5. RowHasObject'
  <2> SUFFICES ASSUME NEW f \in files PROVE [key |-> f.key, data |-> f.checksum] \in objects'
    BY DEF RowHasObject
  <2>1. f.key = Key(f.id) /\ f.id \in Uploads \ {u}
    BY RowFields DEF BaseInv, RowsAsBuilt, AsBuilt, TypeOK
  <2>2. [key |-> f.key, data |-> f.checksum].key # Key(u)
    BY <1>2, <2>1
  <2>3. [key |-> f.key, data |-> f.checksum] \in objects
    BY DEF RowHasObject
  <2> QED BY <1>1, <2>2, <2>3
<1>6. OrphanObjectIsExplained'
  <2> SUFFICES ASSUME NEW v \in Uploads, NEW o \in objects', o.key = Key(v),
                      \A f \in files : f.id # v
               PROVE  \/ pc'[v] \in {"find", "drop", "create", "failed"}
                      \/ v \in removed \/ wants[v].thread \notin threads
    BY <1>0 DEF OrphanObjectIsExplained, GetFile
  <2>1. CASE v # u
    <3>1. o \in objects
      BY <1>1, <1>2, <2>1
    <3>2. pc[v] \notin Elsewhere
      BY <3>1 DEF NoObjectYet, Elsewhere
    <3>3. pc'[v] = pc[v]
      BY <2>1, <3>2
    <3> QED BY <3>1, <3>3 DEF OrphanObjectIsExplained, GetFile
  <2>2. CASE v = u
    BY <2>2 DEF Elsewhere, Stages, Ended
  <2> QED BY <2>1, <2>2
<1> QED BY <1>3, <1>4, <1>5, <1>6

\* The new row has its object, and the old ones keep theirs.
LEMMA CreateKeeps ==
  ASSUME BaseInv, BucketInv, NEW u \in Uploads, Create(u)
  PROVE  BucketInv'
<1> USE DEF BucketInv
<1>1. /\ pc[u] = "create" /\ Only(u)
      /\ \/ pc'[u] \in Ended /\ files' = files \union {NewFile(u)}
         \/ pc'[u] = "failed" /\ files' = files
      /\ UNCHANGED <<threads, objects, wants, hand, removed>>
  BY CreateStep DEF BaseInv
<1>2. /\ NewFile(u).id = u /\ NewFile(u).key = Key(u) /\ NewFile(u).checksum = wants[u].data
      /\ u \notin removed /\ Uploads \subseteq Clients /\ Removers \subseteq Clients
  BY <1>1 DEF NewFile, BaseInv, NoRowYet, Clients
<1>3. \A v \in Uploads : Key(v)' = Key(v)
  BY <1>1 DEF Key
<1>4. \A q \in Clients \ {u} : pc'[q] = pc[q]
  BY <1>1 DEF Only
<1>5. CopyIsThere'
  BY <1>1, <1>2, <1>3, <1>4 DEF CopyIsThere, Ended
<1>6. NoObjectYet'
  BY <1>1, <1>2, <1>3, <1>4 DEF NoObjectYet, Ended
<1>7. RemovedIsGone'
  BY <1>1, <1>2, <1>4 DEF RemovedIsGone, Ended
<1>8. RowHasObject'
  <2>1. [key |-> Key(u), data |-> wants[u].data] \in objects
    BY <1>1 DEF CopyIsThere
  <2> QED BY <1>1, <1>2, <2>1 DEF RowHasObject
<1>9. OrphanObjectIsExplained'
  <2> SUFFICES ASSUME NEW v \in Uploads, NEW o \in objects, o.key = Key(v),
                      \A f \in files' : f.id # v
               PROVE  \/ pc'[v] \in {"find", "drop", "create", "failed"}
                      \/ v \in removed \/ wants[v].thread \notin threads
    BY <1>1, <1>3 DEF OrphanObjectIsExplained, GetFile
  <2>1. CASE v = u
    BY <1>1, <1>2, <2>1
  <2>2. CASE v # u
    <3>1. pc'[v] = pc[v] /\ \A f \in files : f.id # v
      BY <1>1, <1>2, <1>4, <2>2
    <3> QED BY <3>1 DEF OrphanObjectIsExplained, GetFile
  <2> QED BY <2>1, <2>2
<1> QED BY <1>5, <1>6, <1>7, <1>8, <1>9

\* Rows and objects: what the bucket and the table say of each other, and what
\* that needs to be inductive.
THEOREM BucketInvariant == Spec => []BucketInv
<1>1. Init => BucketInv
  BY DEF Init, BucketInv, CopyIsThere, NoObjectYet, RemovedIsGone, RowHasObject,
         OrphanObjectIsExplained, Clients
<1>2. BaseInv /\ BaseInv' /\ BucketInv /\ [Next]_vars => BucketInv'
  <2> SUFFICES ASSUME BaseInv, BaseInv', BucketInv, [Next]_vars PROVE BucketInv'
    OBVIOUS
  <2> USE DEF Only
  <2>0. /\ Parts /\ TypeOK /\ HandsTyped
        /\ Uploads \subseteq Clients /\ Removers \subseteq Clients /\ Viewers \subseteq Clients
        /\ Removers \subseteq Hands /\ Viewers \subseteq Hands
        /\ \A p \in Clients : pc[p] \in Stages /\ pc'[p] \in Stages
    BY DEF BaseInv, Parts, Clients, Hands, TypeOK, Stages
  <2>a. \A f : SameFile(f, f)
    BY DEF SameFile
  <2>1. ASSUME NEW u \in Uploads, Put(u) PROVE BucketInv'
    <3>1. /\ pc[u] = "idle" /\ \A q \in Clients \ {u} : pc'[q] = pc[q]
          /\ \/ pc'[u] = "find" /\ objects' = PutObject(Key(u), wants[u].data)
             \/ pc'[u] = "failed" /\ objects' \in {objects, PutObject(Key(u), wants[u].data)}
          /\ UNCHANGED <<threads, files, wants, hand, removed>>
      BY <2>0, <2>1, PutStep
    <3>2. \A f \in files : f.id # u
      BY <3>1 DEF BaseInv, NoRowYet
    <3>3. RemovedIsGone'
      BY <2>0, <3>1 DEF BucketInv, RemovedIsGone
    <3>4. [key |-> Key(u), data |-> wants[u].data] \in PutObject(Key(u), wants[u].data)
      BY DEF PutObject
    <3>5. \A v \in Uploads \ {u} : pc'[v] = pc[v]
      BY <2>0, <3>1
    <3>6. /\ pc'[u] \in {"find", "create"} =>
                [key |-> Key(u), data |-> wants[u].data] \in objects'
          /\ pc'[u] \notin Elsewhere \union {"ok"} /\ pc'[u] \in Stages
      BY <3>1, <3>4 DEF Elsewhere, Stages, Ended
    <3> QED BY <3>1, <3>2, <3>3, <3>5, <3>6, OneKey
  <2>2. ASSUME NEW u \in Uploads, Find(u) PROVE BucketInv'
    <3>1. /\ pc[u] = "find" /\ \A q \in Clients \ {u} : pc'[q] = pc[q]
          /\ pc'[u] \in {"drop", "create", "failed"}
          /\ UNCHANGED <<threads, files, objects, wants, hand, removed>>
      BY <2>0, <2>2, FindStep
    <3>2. RemovedIsGone'
      BY <2>0, <3>1 DEF BucketInv, RemovedIsGone
    <3> QED BY <2>0, <2>a, <3>1, <3>2, BucketUntouched
  <2>3. ASSUME NEW u \in Uploads, DropCopy(u) PROVE BucketInv'
    <3>1. /\ pc[u] = "drop" /\ \A q \in Clients \ {u} : pc'[q] = pc[q]
          /\ \/ pc'[u] = "ok" /\ objects' = DeleteObject(Key(u))
             \/ pc'[u] = "failed" /\ objects' \in {objects, DeleteObject(Key(u))}
          /\ UNCHANGED <<threads, files, wants, hand, removed>>
      BY <2>0, <2>3, DropCopyStep
    <3>2. \A f \in files : f.id # u
      BY <3>1 DEF BaseInv, NoRowYet
    <3>3. RemovedIsGone'
      BY <2>0, <3>1 DEF BucketInv, RemovedIsGone
    <3>4. \A v \in Uploads \ {u} : pc'[v] = pc[v]
      BY <2>0, <3>1
    <3>5. \A o \in DeleteObject(Key(u)) : o.key # Key(u)
      BY DEF DeleteObject
    <3>6. /\ pc'[u] \notin {"find", "create"}
          /\ pc'[u] \in Elsewhere \union {"ok"} => \A o \in objects' : o.key # Key(u)
          /\ pc'[u] \in Stages
      BY <3>1, <3>5 DEF Elsewhere, Stages, Ended
    <3> QED BY <3>1, <3>2, <3>3, <3>4, <3>6, OneKey
  <2>4. ASSUME NEW u \in Uploads, Create(u) PROVE BucketInv'
    BY <2>4, CreateKeeps
  <2>5. ASSUME NEW r \in Removers, PickFile(r) PROVE BucketInv'
    <3>1. /\ pc[r] = "idle" /\ pc'[r] = "row" /\ \A q \in Clients \ {r} : pc'[q] = pc[q]
          /\ \A p \in Hands \ {r} : hand'[p] = hand[p]
          /\ UNCHANGED <<threads, files, objects, wants, removed>>
      BY <2>0, <2>5, PickFileStep
    <3>2. RemovedIsGone'
      BY <2>0, <3>1 DEF BucketInv, RemovedIsGone
    <3>3. pc[r] \in Elsewhere /\ pc'[r] \in Elsewhere
      BY <3>1 DEF Elsewhere
    <3> QED BY <2>0, <2>a, <3>1, <3>2, <3>3, BucketUntouched
  <2>6. ASSUME NEW r \in Removers, RemoveRow(r) PROVE BucketInv'
    <3> DEFINE ids == {h.id : h \in hand[r]}
    <3>1. /\ pc[r] = "row" /\ \A q \in Clients \ {r} : pc'[q] = pc[q]
          /\ \/ /\ files' = {f \in files : f.id \notin ids}
                /\ removed' = removed \union ids
                /\ (pc'[r] = "object" /\ hand'[r] = hand[r]) \/ pc'[r] = "failed"
             \/ UNCHANGED <<files, removed>> /\ pc'[r] = "failed"
          /\ \A p \in Hands \ {r} : hand'[p] = hand[p]
          /\ UNCHANGED <<threads, objects, wants>>
      BY <2>0, <2>6, RemoveRowStep
    <3>2. \A h \in hand[r] : h.id \in ids
      OBVIOUS
    <3> HIDE DEF ids
    <3>3. RemovedIsGone'
      BY <2>0, <3>1, <3>2 DEF BucketInv, RemovedIsGone
    <3>4. pc[r] \in Elsewhere /\ pc'[r] \in Elsewhere \union Ended
      BY <3>1 DEF Elsewhere, Ended
    <3>5. /\ \A f \in files' : \E g \in files : SameFile(f, g)
          /\ \A g \in files : (\E f \in files' : SameFile(f, g)) \/ g.id \in removed'
          /\ removed \subseteq removed'
      BY <2>a, <3>1
    <3> QED BY <2>0, <3>1, <3>3, <3>4, <3>5, BucketUntouched
  <2>7. ASSUME NEW r \in Removers, RemoveObject(r) PROVE BucketInv'
    <3>1. /\ pc[r] = "object" /\ pc'[r] \in Ended
          /\ \A q \in Clients \ {r} : pc'[q] = pc[q]
          /\ hand'[r] = {} /\ \A p \in Hands \ {r} : hand'[p] = hand[p]
          /\ UNCHANGED <<threads, files, wants, removed>>
      BY <2>0, <2>7, RemoveObjectStep
    <3>2. PICK f \in hand[r] : objects' \in {objects, DeleteObject(f.key)}
      BY <2>0, <2>7, RemoveObjectStep
    <3>3. f.id \in Uploads /\ f.key = Key(f.id) /\ f.id \in removed
      BY <2>0, <3>1, HandRow DEF AsBuilt, BucketInv, RemovedIsGone, Hands
    <3>4. \A g \in files : g.id # f.id
      BY <3>3 DEF BucketInv, RemovedIsGone
    <3>5. RemovedIsGone'
      BY <2>0, <3>1 DEF BucketInv, RemovedIsGone
    <3>6. pc[r] \in Elsewhere /\ pc'[r] \in Elsewhere \union Ended
      BY <3>1 DEF Elsewhere
    <3>7. \A v \in Uploads : \/ pc'[v] = pc[v]
                             \/ pc[v] \in Elsewhere /\ pc'[v] \in Elsewhere \union Ended
      BY <2>0, <3>1, <3>6
    <3>8. pc[f.id] \notin Early
      BY <3>3 DEF BaseInv, NoRowYet, Early
    <3>9. pc'[f.id] \notin {"find", "create"} /\ pc'[f.id] \in Stages
      BY <2>0, <3>3, <3>7, <3>8 DEF Elsewhere, Ended, Early
    <3>10. pc'[f.id] \in Elsewhere \union {"ok"} =>
             (\A o \in objects' : o.key # Key(f.id)) \/ (pc'[f.id] = "ok" /\ f.id \in removed)
      <4> SUFFICES ASSUME pc'[f.id] \in Elsewhere PROVE \A o \in objects' : o.key # Key(f.id)
        BY <3>3
      <4>1. pc[f.id] \in Elsewhere
        BY <3>3, <3>7
      <4>2. \A o \in objects : o.key # Key(f.id)
        BY <3>3, <4>1 DEF BucketInv, NoObjectYet, Elsewhere
      <4> QED BY <3>2, <4>2 DEF DeleteObject
    <3> QED BY <3>1, <3>2, <3>3, <3>4, <3>5, <3>7, <3>9, <3>10, OneKey
  <2>8. ASSUME NEW w \in Viewers, ReadFile(w) \/ Presign(w) PROVE BucketInv'
    <3>1. /\ pc[w] \in {"idle", "sign"} /\ pc'[w] \in {"ok", "sign", "save"}
          /\ \A q \in Clients \ {w} : pc'[q] = pc[q]
          /\ \A p \in Hands \ {w} : hand'[p] = hand[p]
          /\ UNCHANGED <<threads, files, objects, wants, removed>>
      BY <2>0, <2>8, ReadFileStep, PresignStep
    <3>2. RemovedIsGone'
      BY <2>0, <3>1 DEF BucketInv, RemovedIsGone
    <3>3. pc[w] \in Elsewhere /\ pc'[w] \in Elsewhere \union Ended
      BY <3>1 DEF Elsewhere, Ended
    <3> QED BY <2>0, <2>a, <3>1, <3>2, <3>3, BucketUntouched
  <2>9. ASSUME NEW w \in Viewers, SaveUrl(w) PROVE BucketInv'
    <3>1. /\ pc[w] = "save" /\ pc'[w] \in Ended /\ \A q \in Clients \ {w} : pc'[q] = pc[q]
          /\ UNCHANGED files \/ \E f \in hand[w] : UpdateFileUrl(f)
          /\ hand'[w] = {} /\ \A p \in Hands \ {w} : hand'[p] = hand[p]
          /\ UNCHANGED <<threads, objects, wants, removed>>
      BY <2>0, <2>9, SaveUrlStep
    <3>2. /\ \A g \in files' : \E h \in files : SameFile(g, h)
          /\ \A h \in files : \E g \in files' : SameFile(g, h)
      <4>1. CASE UNCHANGED files
        BY <2>a, <4>1
      <4>2. ASSUME NEW f \in hand[w], UpdateFileUrl(f)
            PROVE  /\ \A g \in files' : \E h \in files : SameFile(g, h)
                   /\ \A h \in files : \E g \in files' : SameFile(g, h)
        <5>1. f \in FileRows
          BY <2>0, HandRow DEF Hands
        <5> QED BY <2>0, <4>2, <5>1, UpdateRows DEF TypeOK
      <4> QED BY <3>1, <4>1, <4>2
    <3>3. RemovedIsGone'
      <4>1. \A g \in files' : g.id \notin removed
        BY <3>2 DEF BucketInv, RemovedIsGone, SameFile
      <4>2. \A r \in Removers : pc'[r] = "object" => pc[r] = "object" /\ hand'[r] \subseteq hand[r]
        <5>1. pc'[w] # "object"
          BY <3>1 DEF Ended
        <5> QED BY <2>0, <3>1, <5>1
      <4> QED BY <3>1, <4>1, <4>2 DEF BucketInv, RemovedIsGone
    <3>4. pc[w] \in Elsewhere
      BY <3>1 DEF Elsewhere
    <3> QED BY <2>0, <3>1, <3>2, <3>3, <3>4, BucketUntouched
  <2>10. CASE Delete
    <3>1. /\ files' = Cascade(threads', messages') /\ threads' \subseteq threads
          /\ UNCHANGED <<objects, pc, wants, hand, removed>>
      BY <2>0, <2>10, DeleteStep
    <3>2. /\ \A g \in files' : \E h \in files : SameFile(g, h)
          /\ \A h \in files : h.thread \in threads' => \E g \in files' : SameFile(g, h)
      BY <2>0, <3>1, CascadeRows DEF TypeOK
    <3>3. RemovedIsGone'
      BY <3>1, <3>2 DEF BucketInv, RemovedIsGone, SameFile
    <3> QED BY <3>1, <3>2, <3>3, BucketUntouched
  <2>11. CASE Tick \/ UNCHANGED vars
    <3>1. UNCHANGED <<threads, files, objects, pc, wants, hand, removed>>
      BY <2>0, <2>11, OtherStep
    <3>2. RemovedIsGone'
      BY <3>1 DEF BucketInv, RemovedIsGone
    <3> QED BY <2>a, <3>1, <3>2, BucketUntouched
  <2> QED BY <2>1, <2>2, <2>3, <2>4, <2>5, <2>6, <2>7, <2>8, <2>9, <2>10, <2>11 DEF Next
<1> QED BY <1>1, <1>2, BaseInvariant, PTL DEF Spec

-----------------------------------------------------------------------------
(* Equal contents in one thread. *)

\* A step under which the search of an upload stays true, and two rows of the
\* same contents stay the work of overlapping uploads.
LEMMA ShareKept == ASSUME BaseInv, BaseInv', ShareInv, IdsMove, UNCHANGED wants,
                          \A u \in Uploads : pc'[u] = "create" =>
                            /\ before'[u] = before[u]
                            /\ pc[u] = "create" \/ FindByChecksum(u) = {},
                          \A u \in Uploads : before'[u] = before[u] \/ pc[u] = "idle"
                   PROVE  ShareInv'
<1> USE DEF ShareInv
<1>0. /\ \A u \in Uploads : \A v \in before[u] : v \in Uploads /\ pc[v] \in Ended
      /\ \A f \in files : f.id \in Uploads
      /\ \A f \in files' : f.id \in Uploads
      /\ Uploads \subseteq Clients
  BY RowFields DEF BaseInv, BeforeHasEnded, TypeOK, FileRows, Clients
<1>1. RowsFromRows
  BY DEF IdsMove
<1>2. SearchStillTrue'
  <2> SUFFICES ASSUME NEW u \in Uploads, pc'[u] = "create", NEW f \in files',
                      f.thread = wants[u].thread, f.checksum = wants[u].data
               PROVE  f.id \notin before[u]
    BY DEF SearchStillTrue, FindByChecksum
  <2>1. ASSUME NEW g \in files, SameFile(f, g) PROVE f.id \notin before[u]
    <3>1. g \in FindByChecksum(u) /\ g.id = f.id
      BY <2>1 DEF FindByChecksum, SameFile
    <3> QED BY <3>1 DEF SearchStillTrue
  <2>2. CASE pc[f.id] = "create"
    BY <1>0, <2>2 DEF Ended
  <2> QED BY <1>1, <2>1, <2>2 DEF RowsFromRows
<1>3. DuplicateOnlyByOverlap'
  <2> SUFFICES ASSUME NEW f \in files', NEW g \in files', f # g,
                      f.thread = g.thread, f.checksum = g.checksum
               PROVE  f.id \notin before'[g.id]
    BY DEF DuplicateOnlyByOverlap
  <2>0. f.id \in Uploads /\ g.id \in Uploads /\ f.id # g.id /\ pc[g.id] # "idle"
    <3>1. f.id # g.id
      BY DEF BaseInv, RowsUnique
    <3>2. pc'[g.id] # "idle" /\ pc'[g.id] \notin {"find", "drop", "create"}
      BY <1>0 DEF BaseInv, NoRowYet
    <3>3. pc[g.id] # "idle"
      BY <1>0, <1>1, <3>2 DEF BaseInv, NoRowYet, RowsFromRows, SameFile
    <3> QED BY <1>0, <3>1, <3>3
  <2>1. before'[g.id] = before[g.id]
    BY <2>0
  <2>2. CASE pc[f.id] = "create"
    BY <1>0, <2>0, <2>1, <2>2 DEF Ended
  <2>3. ASSUME NEW h \in files, SameFile(f, h) PROVE f.id \notin before[g.id]
    <3>1. ASSUME NEW k \in files, SameFile(g, k) PROVE f.id \notin before[g.id]
      BY <2>0, <2>3, <3>1, ZenonT(60) DEF DuplicateOnlyByOverlap, SameFile
    <3>2. CASE g = NewFile(g.id) /\ pc[g.id] = "create"
      <4>1. g.thread = wants[g.id].thread /\ g.checksum = wants[g.id].data
        BY <3>2 DEF NewFile
      <4>2. h \in FindByChecksum(g.id) /\ h.id = f.id
        BY <2>3, <4>1 DEF FindByChecksum, SameFile
      <4> QED BY <2>0, <3>2, <4>2 DEF SearchStillTrue
    <3> QED BY <1>1, <3>1, <3>2 DEF RowsFromRows
  <2> QED BY <1>1, <2>1, <2>2, <2>3 DEF RowsFromRows
<1> QED BY <1>2, <1>3

\* Equal contents in one thread come of overlapping attachments: no row appears
\* in the thread between the search of an upload and its INSERT but the row of
\* an upload that had not ended when this one began.
THEOREM ShareInvariant == Spec => []ShareInv
<1>1. Init => ShareInv
  BY DEF Init, ShareInv, SearchStillTrue, DuplicateOnlyByOverlap, Clients
<1>2. BaseInv /\ BaseInv' /\ ShareInv /\ [Next]_vars => ShareInv'
  <2> SUFFICES ASSUME BaseInv, BaseInv', ShareInv, [Next]_vars PROVE ShareInv'
    OBVIOUS
  <2>0. /\ Parts /\ TypeOK /\ HandsTyped /\ IdsMove
        /\ Uploads \subseteq Clients /\ Removers \subseteq Clients /\ Viewers \subseteq Clients
    BY StepMovesIds DEF BaseInv, Parts, Clients
  <2>1. ASSUME NEW u \in Uploads, Put(u)
        PROVE  /\ UNCHANGED wants
               /\ \A v \in Uploads : pc'[v] = "create" => before'[v] = before[v] /\ pc[v] = "create"
               /\ \A v \in Uploads : before'[v] = before[v] \/ pc[v] = "idle"
    BY <2>0, <2>1, PutStep DEF Only, TypeOK
  <2>2. ASSUME NEW u \in Uploads, Find(u)
        PROVE  /\ UNCHANGED <<wants, before>>
               /\ \A v \in Uploads : pc'[v] = "create" => pc[v] = "create" \/ FindByChecksum(v) = {}
    BY <2>0, <2>2, FindStep DEF Only
  <2>3. ASSUME NEW u \in Uploads, DropCopy(u) \/ Create(u)
        PROVE  /\ UNCHANGED <<wants, before>>
               /\ \A v \in Uploads : pc'[v] = "create" => pc[v] = "create"
    BY <2>0, <2>3, DropCopyStep, CreateStep DEF Only, Ended
  <2>4. ASSUME NEW r \in Removers, PickFile(r) \/ RemoveRow(r) \/ RemoveObject(r)
        PROVE  /\ UNCHANGED <<wants, before>>
               /\ \A v \in Uploads : pc'[v] = "create" => pc[v] = "create"
    BY <2>0, <2>4, PickFileStep, RemoveRowStep, RemoveObjectStep DEF Only, Ended
  <2>5. ASSUME NEW w \in Viewers, ReadFile(w) \/ Presign(w) \/ SaveUrl(w)
        PROVE  /\ UNCHANGED <<wants, before>>
               /\ \A v \in Uploads : pc'[v] = "create" => pc[v] = "create"
    BY <2>0, <2>5, ReadFileStep, PresignStep, SaveUrlStep DEF Only, Ended
  <2>6. Delete \/ Tick \/ UNCHANGED vars => UNCHANGED <<pc, wants, before>>
    BY <2>0, DeleteStep, OtherStep
  <2>7. /\ UNCHANGED wants
        /\ \A v \in Uploads : pc'[v] = "create" =>
             before'[v] = before[v] /\ (pc[v] = "create" \/ FindByChecksum(v) = {})
        /\ \A v \in Uploads : before'[v] = before[v] \/ pc[v] = "idle"
    BY <2>1, <2>2, <2>3, <2>4, <2>5, <2>6 DEF Next
  <2> QED BY <2>0, <2>7, ShareKept
<1> QED BY <1>1, <1>2, BaseInvariant, PTL DEF Spec

-----------------------------------------------------------------------------
(* Presigned URLs. *)

\* The URL of a row is honoured as long as the row says, through two viewers that
\* renew it at once, since both fields are saved together and the clock between
\* them only makes the URL the younger.
THEOREM UrlInvariant == Spec => []HonouredAsLong
<1>1. Init => HonouredAsLong
  BY DEF Init, HonouredAsLong
<1>2. BaseInv /\ BaseInv' /\ HonouredAsLong /\ [Next]_vars => HonouredAsLong'
  <2> SUFFICES ASSUME BaseInv, BaseInv', HonouredAsLong, [Next]_vars PROVE HonouredAsLong'
    OBVIOUS
  <2>0. /\ Parts /\ TypeOK /\ HandsTyped /\ clock \in Nat
        /\ Uploads \subseteq Clients /\ Removers \subseteq Clients /\ Viewers \subseteq Clients
        /\ \A w \in Viewers : w \in Hands
        /\ \A w \in Viewers : \A f \in hand[w] : f.until \in Nat /\ f.url \in Nat
    BY HandRow, RowFields DEF BaseInv, Parts, Clients, Hands, TypeOK
  <2> DEFINE HandOK(w) == \A f \in hand[w] : /\ pc[w] = "sign" => f.until =< clock + Expiry
                                             /\ pc[w] = "save" => f.until =< f.url
  <2>a. \A w \in Viewers : HandOK(w)
    BY DEF HonouredAsLong
  <2>b. ASSUME NEW p \in Clients, Only(p), \A q \in Hands \ {p} : hand'[q] = hand[q],
               p \in Viewers => HandOK(p)', UNCHANGED clock,
               \A f \in files' : f.until =< f.url
        PROVE  HonouredAsLong'
    BY <2>0, <2>a, <2>b DEF Only, HonouredAsLong
  <2>c. ASSUME UNCHANGED <<pc, hand>>, clock' \in Nat, clock' >= clock,
               \A f \in files' : f.until =< f.url
        PROVE  HonouredAsLong'
    BY <2>0, <2>a, <2>c DEF HonouredAsLong
  <2>1. ASSUME NEW u \in Uploads, Put(u) \/ Find(u) \/ DropCopy(u) PROVE HonouredAsLong'
    <3>1. /\ Only(u) /\ UNCHANGED <<files, hand, clock>>
          /\ pc'[u] \notin {"sign", "save"}
      BY <2>0, <2>1, PutStep, FindStep, DropCopyStep
    <3>2. u \in Viewers => HandOK(u)'
      BY <3>1
    <3> QED BY <2>0, <2>b, <3>1, <3>2 DEF HonouredAsLong
  <2>2. ASSUME NEW u \in Uploads, Create(u) PROVE HonouredAsLong'
    <3>1. /\ Only(u) /\ UNCHANGED <<hand, clock>>
          /\ files' = files \union {NewFile(u)} \/ files' = files
          /\ pc'[u] \notin {"sign", "save"}
      BY <2>0, <2>2, CreateStep DEF Ended
    <3>2. u \in Viewers => HandOK(u)'
      BY <3>1
    <3>3. NewFile(u).url = 0 /\ NewFile(u).until = 0
      BY DEF NewFile
    <3> QED BY <2>0, <2>b, <3>1, <3>2, <3>3 DEF HonouredAsLong
  <2>3. ASSUME NEW r \in Removers, PickFile(r) \/ RemoveRow(r) \/ RemoveObject(r)
        PROVE  HonouredAsLong'
    <3>1. /\ Only(r) /\ UNCHANGED clock /\ files' \subseteq files
          /\ \A p \in Hands \ {r} : hand'[p] = hand[p]
          /\ pc'[r] \notin {"sign", "save"}
      BY <2>0, <2>3, PickFileStep, RemoveRowStep, RemoveObjectStep DEF Ended
    <3>2. r \in Viewers => HandOK(r)'
      BY <3>1
    <3> QED BY <2>0, <2>b, <3>1, <3>2 DEF HonouredAsLong
  <2>4. ASSUME NEW w \in Viewers, ReadFile(w) PROVE HonouredAsLong'
    <3>1. /\ Only(w) /\ UNCHANGED <<clock, files>>
          /\ \A p \in Hands \ {w} : hand'[p] = hand[p]
          /\ \/ pc'[w] = "ok"
             \/ pc'[w] = "sign" /\ \A g \in hand'[w] : g.until = clock + Expiry
      BY <2>0, <2>4, ReadFileStep
    <3>2. HandOK(w)'
      BY <2>0, <3>1
    <3> QED BY <2>0, <2>b, <3>1, <3>2 DEF HonouredAsLong
  <2>5. ASSUME NEW w \in Viewers, Presign(w) PROVE HonouredAsLong'
    <3>1. /\ pc[w] = "sign" /\ Only(w) /\ pc'[w] = "save" /\ UNCHANGED <<clock, files>>
          /\ \A p \in Hands \ {w} : hand'[p] = hand[p]
          /\ \A g \in hand'[w] : \E f \in hand[w] : g.until = f.until /\ g.url = clock + Expiry
      BY <2>0, <2>5, PresignStep
    <3>2. HandOK(w)'
      BY <2>a, <3>1
    <3> QED BY <2>0, <2>b, <3>1, <3>2 DEF HonouredAsLong
  <2>6. ASSUME NEW w \in Viewers, SaveUrl(w) PROVE HonouredAsLong'
    <3>1. /\ pc[w] = "save" /\ Only(w) /\ pc'[w] \in Ended /\ UNCHANGED clock
          /\ UNCHANGED files \/ \E f \in hand[w] : UpdateFileUrl(f)
          /\ \A p \in Hands \ {w} : hand'[p] = hand[p]
      BY <2>0, <2>6, SaveUrlStep
    <3>2. HandOK(w)'
      BY <3>1 DEF Ended
    <3>3. ASSUME NEW f \in hand[w], UpdateFileUrl(f), NEW g \in files' PROVE g.until =< g.url
      <4>1. f \in FileRows /\ f.until =< f.url
        BY <2>0, <2>a, <3>1, HandRow DEF Hands
      <4>2. \E h \in files : \/ g.url = f.url /\ g.until = f.until
                             \/ g.url = h.url /\ g.until = h.until
        BY <2>0, <3>3, <4>1, UpdateRows DEF TypeOK
      <4> QED BY <4>1, <4>2 DEF HonouredAsLong
    <3>4. \A f \in files' : f.until =< f.url
      BY <3>1, <3>3 DEF HonouredAsLong
    <3> QED BY <2>0, <2>b, <3>1, <3>2, <3>4
  <2>7. CASE Delete
    <3>1. UNCHANGED <<pc, hand, clock>> /\ files' = Cascade(threads', messages')
      BY <2>0, <2>7, DeleteStep
    <3>2. \A g \in files' : \E h \in files : g.url = h.url /\ g.until = h.until
      BY <2>0, <3>1, CascadeRows DEF TypeOK
    <3> QED BY <2>0, <2>c, <3>1, <3>2 DEF HonouredAsLong
  <2>8. CASE Tick \/ UNCHANGED vars
    BY <2>0, <2>8, <2>c, OtherStep DEF HonouredAsLong
  <2> QED BY <2>1, <2>2, <2>3, <2>4, <2>5, <2>6, <2>7, <2>8 DEF Next
<1> QED BY <1>1, <1>2, BaseInvariant, PTL DEF Spec

-----------------------------------------------------------------------------
(* The properties of the runs. *)

\* Every variable has its type and the rows obey the foreign keys, whatever is
\* deleted while an attachment is under way.
THEOREM TypeCorrect == Spec => []TypeOK
<1>1. BaseInv => TypeOK
  BY DEF BaseInv
<1> QED BY <1>1, BaseInvariant, PTL

\* No row of files is without its object, of the contents it names: upload_file,
\* create_file and the two delete_file keep to an order that allows it.
THEOREM RowsHaveObjects == Spec => []RowHasObject
<1>1. BucketInv => RowHasObject
  BY DEF BucketInv
<1> QED BY <1>1, BucketInvariant, PTL

\* Every object no row names is accounted for: an attachment under way or
\* failed, a removal, or a deleted thread.
THEOREM OrphansExplained == Spec => []OrphanObjectIsExplained
<1>1. BucketInv => OrphanObjectIsExplained
  BY DEF BucketInv
<1> QED BY <1>1, BucketInvariant, PTL

\* find_by_checksum keeps one row of equal contents in a thread, but for
\* attachments that overlap.
THEOREM DuplicatesOverlap == Spec => []DuplicateOnlyByOverlap
<1>1. ShareInv => DuplicateOnlyByOverlap
  BY DEF ShareInv
<1> QED BY <1>1, ShareInvariant, PTL

\* A URL that is_url_valid accepts is one the store still honours.
THEOREM CachedUrlsWork == Spec => []CachedUrlWorks
<1>1. BaseInv /\ HonouredAsLong => CachedUrlWorks
  <2> SUFFICES ASSUME BaseInv, HonouredAsLong, NEW f \in files, clock < f.until
               PROVE  clock < f.url
    BY DEF CachedUrlWorks, IsUrlValid
  <2>1. f.until \in Nat /\ f.url \in Nat /\ clock \in Nat /\ f.until =< f.url
    BY RowFields DEF BaseInv, TypeOK, HonouredAsLong
  <2> QED BY <2>1
<1> QED BY <1>1, BaseInvariant, UrlInvariant, PTL
=============================================================================
