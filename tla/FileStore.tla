------------------------------ MODULE FileStore ------------------------------
(***************************************************************************)
(* Files: an object in MinIO (MinioClient) and a row of table files        *)
(* (FileMetadataStorage), which no transaction joins.  The rows refer to   *)
(* the threads and messages of ConversationStore.                          *)
(*                                                                         *)
(* The crate has the operations and no caller of them; a caller attaches,  *)
(* removes and presents files.  The order of its calls is the one their    *)
(* types leave: the row needs the key and the checksum, only upload_file   *)
(* gives the checksum, and find_by_checksum needs it.                      *)
(*                                                                         *)
(* An object is [key, data]; a row is [id, thread, message, checksum, key, *)
(* url, until]: id is the upload that built it, data and checksum stand    *)
(* for each other, message is a set of at most one id, url is the time up  *)
(* to which the store honours presigned_url, and until is url_expires_at   *)
(* (both 0 when there is none).                                            *)
(***************************************************************************)
EXTENDS ConversationStore, FiniteSets

CONSTANTS Uploads,     \* the attachments of files
          Removers,    \* the removals of a file
          Viewers,     \* the presentations of a file by URL
          Contents,    \* what is in a file
          Names,       \* file names
          Stored,      \* the messages in the tables at the start
          Expiry,      \* presigned_url_expiry, in clock ticks
          Width,       \* 2^32, the range of the u32 expiry
          MaxClock,    \* bound: the clock
          MaxDeletes,  \* bound: deletions of a thread or message
          MaxBegun     \* bound: uploads, removals and presentations begun

ASSUME ExpiryAssumption == Expiry \in Nat /\ Width \in Nat /\ Expiry < Width
ASSUME BoundsAssumption == MaxClock \in Nat \ {0} /\ MaxDeletes \in Nat

Clients == Uploads \union Removers \union Viewers

VARIABLES
  files,    \* table files
  objects,  \* the bucket
  clock,    \* Utc::now()
  pc,       \* the await each client is suspended at
  wants,    \* what each upload attaches: [thread, message, name, data]
  hand,     \* the row a remover or a viewer works with, in a set
  before,   \* history: the uploads that had ended when this one began
  removed,  \* history: ids of the rows that delete_file removed
  deletes   \* the number of deletions so far

fileVars == <<files, objects>>
callVars == <<wants, hand, before>>
vars == <<storeVars, fileVars, clock, pc, callVars, removed, deletes>>

Ended == {"ok", "failed"}

Init == /\ threads = Threads
        /\ messages = Stored
        /\ files = {}
        /\ objects = {}
        /\ clock = 1
        /\ pc = [p \in Clients |-> "idle"]
        /\ wants \in [Uploads -> [thread : Threads,
                                  message : {{}} \union {{Id(m)} : m \in Stored},
                                  name : Names, data : Contents]]
        /\ hand = [p \in Removers \union Viewers |-> {}]
        /\ before = [u \in Uploads |-> {}]
        /\ removed = {}
        /\ deletes = 0

-----------------------------------------------------------------------------
(* The bucket. *)

\* Slip: {thread_id}/{filename}.
KeyWithoutId(u) == <<wants[u].thread, wants[u].name>>

\* generate_key: {thread_id}/{file_id}/{filename}.
Key(u) == <<wants[u].thread, u, wants[u].name>>

\* PUT replaces an object of the same key; DELETE of an absent key succeeds.
PutObject(key, data) == {o \in objects : o.key # key} \union {[key |-> key, data |-> data]}
DeleteObject(key) == {o \in objects : o.key # key}

(* Table files. *)

\* The foreign keys: a row's thread is there, and so is its message if it has one.
ValidFile(f) == /\ f.thread \in threads
                /\ f.message \subseteq {Id(m) : m \in messages}

\* Slip: message_id has no ON DELETE SET NULL, and no foreign key.
CascadeThreadOnly(ts, ms) == {f \in files : f.thread \in ts}

\* What the deletion of threads and messages leaves of the table: CASCADE for
\* the thread, SET NULL for the message.
Cascade(ts, ms) == {[f EXCEPT !.message = @ \intersect {Id(m) : m \in ms}] :
                      f \in {g \in files : g.thread \in ts}}

GetFile(ids) == {f \in files : f.id \in ids}

\* Slip: WHERE checksum = ... AND message_id = ...
FindByMessageAndChecksum(u) ==
  {f \in files : f.message = wants[u].message /\ f.checksum = wants[u].data}

\* SELECT ... WHERE thread_id = $1 AND checksum = $2 LIMIT 1: one of these.
FindByChecksum(u) == {f \in files : f.thread = wants[u].thread /\ f.checksum = wants[u].data}

\* Slip: the URL column is left out of the UPDATE.
UpdateExpiryOnly(f) == files' = {IF g.id = f.id THEN [g EXCEPT !.until = f.until] ELSE g :
                                   g \in files}

\* UPDATE files SET presigned_url, url_expires_at WHERE id = $1.
UpdateFileUrl(f) == files' = {IF g.id = f.id THEN [g EXCEPT !.url = f.url, !.until = f.until]
                                             ELSE g : g \in files}

\* is_url_valid.
IsUrlValid(f) == clock < f.until

-----------------------------------------------------------------------------
(* A file is attached: upload_file, find_by_checksum, create_file. *)

MayBegin(p) == /\ pc[p] = "idle"
               /\ Cardinality({q \in Clients : pc[q] # "idle"}) < MaxBegun
Goto(p, l) == pc' = [pc EXCEPT ![p] = l]

\* upload_base64 and upload_file: a bad encoding stores nothing, a lost answer
\* may have stored the object.
Put(u) ==
  /\ u \in Uploads /\ MayBegin(u)
  /\ before' = [before EXCEPT ![u] = {v \in Uploads : pc[v] \in Ended}]
  /\ \/ objects' = PutObject(Key(u), wants[u].data) /\ Goto(u, "find")
     \/ objects' \in {objects, PutObject(Key(u), wants[u].data)} /\ Goto(u, "failed")
  /\ UNCHANGED <<storeVars, files, clock, wants, hand, removed, deletes>>

\* find_by_checksum is answered: an equal file is used again, and the copy
\* just uploaded is to go.
Find(u) ==
  /\ u \in Uploads /\ pc[u] = "find"
  /\ \/ FindByChecksum(u) # {} /\ Goto(u, "drop")
     \/ FindByChecksum(u) = {} /\ Goto(u, "create")
     \/ Goto(u, "failed")
  /\ UNCHANGED <<storeVars, fileVars, clock, callVars, removed, deletes>>

DropCopy(u) ==
  /\ u \in Uploads /\ pc[u] = "drop"
  /\ \/ objects' = DeleteObject(Key(u)) /\ Goto(u, "ok")
     \/ objects' \in {objects, DeleteObject(Key(u))} /\ Goto(u, "failed")
  /\ UNCHANGED <<storeVars, files, clock, callVars, removed, deletes>>

\* FileMetadata::new, with_message_id.
NewFile(u) == [id |-> u, thread |-> wants[u].thread, message |-> wants[u].message,
               checksum |-> wants[u].data, key |-> Key(u), url |-> 0, until |-> 0]

\* Slip: the error of the INSERT is not propagated.
CreateIgnoringErrors(u) ==
  /\ u \in Uploads /\ pc[u] = "create"
  /\ files' = files \union {f \in {NewFile(u)} : ValidFile(f)}
  /\ Goto(u, "ok")
  /\ UNCHANGED <<storeVars, objects, clock, callVars, removed, deletes>>

\* create_file is answered; an answer may be lost.
Create(u) ==
  /\ u \in Uploads /\ pc[u] = "create"
  /\ \/ ValidFile(NewFile(u)) /\ files' = files \union {NewFile(u)} /\ Goto(u, "ok")
     \/ ValidFile(NewFile(u)) /\ files' = files \union {NewFile(u)} /\ Goto(u, "failed")
     \/ UNCHANGED files /\ Goto(u, "failed")
  /\ UNCHANGED <<storeVars, objects, clock, callVars, removed, deletes>>

-----------------------------------------------------------------------------
(* A file is removed: get_file, the row, the object. *)

PickFile(r) ==
  /\ r \in Removers /\ MayBegin(r)
  /\ \E f \in files : hand' = [hand EXCEPT ![r] = {f}]
  /\ Goto(r, "row")
  /\ UNCHANGED <<storeVars, fileVars, clock, wants, before, removed, deletes>>

\* delete_file of the storage is answered.
RemoveRow(r) ==
  /\ r \in Removers /\ pc[r] = "row"
  /\ \/ /\ files' = files \ GetFile({f.id : f \in hand[r]})
        /\ removed' = removed \union {f.id : f \in hand[r]}
        /\ pc' \in {[pc EXCEPT ![r] = l] : l \in {"object", "failed"}}
     \/ UNCHANGED <<files, removed>> /\ Goto(r, "failed")
  /\ hand' = [hand EXCEPT ![r] = IF pc'[r] = "failed" THEN {} ELSE @]
  /\ UNCHANGED <<storeVars, objects, clock, wants, before, deletes>>

\* delete_file of the bucket is answered.
RemoveObject(r) ==
  /\ r \in Removers /\ pc[r] = "object"
  /\ \E f \in hand[r] :
       \/ objects' = DeleteObject(f.key) /\ Goto(r, "ok")
       \/ objects' \in {objects, DeleteObject(f.key)} /\ Goto(r, "failed")
  /\ hand' = [hand EXCEPT ![r] = {}]
  /\ UNCHANGED <<storeVars, files, clock, wants, before, removed, deletes>>

-----------------------------------------------------------------------------
(* A file is presented: get_file, is_url_valid, generate_presigned_url,     *)
(* update_file_url.  The caller takes the time of expiry before it signs.   *)

ReadFile(w) ==
  /\ w \in Viewers /\ MayBegin(w)
  /\ \E f \in files :
       \/ IsUrlValid(f) /\ Goto(w, "ok") /\ UNCHANGED hand
       \/ /\ ~ IsUrlValid(f)
          /\ hand' = [hand EXCEPT ![w] = {[f EXCEPT !.until = clock + Expiry]}]
          /\ Goto(w, "sign")
  /\ UNCHANGED <<storeVars, fileVars, clock, wants, before, removed, deletes>>

\* The expiry is narrowed to u32.
Presign(w) ==
  /\ w \in Viewers /\ pc[w] = "sign"
  /\ hand' = [hand EXCEPT ![w] = {[f EXCEPT !.url = clock + (Expiry % Width)] : f \in @}]
  /\ Goto(w, "save")
  /\ UNCHANGED <<storeVars, fileVars, clock, wants, before, removed, deletes>>

SaveUrl(w) ==
  /\ w \in Viewers /\ pc[w] = "save"
  /\ \/ /\ \E f \in hand[w] : UpdateFileUrl(f)
        /\ pc' \in {[pc EXCEPT ![w] = l] : l \in Ended}
     \/ UNCHANGED files /\ Goto(w, "failed")
  /\ hand' = [hand EXCEPT ![w] = {}]
  /\ UNCHANGED <<storeVars, objects, clock, wants, before, removed, deletes>>

-----------------------------------------------------------------------------
(* The rest of the application: threads and messages go (delete_messages_after
   is delete_message for several rows), time passes. *)

Delete ==
  /\ deletes < MaxDeletes
  /\ deletes' = deletes + 1
  /\ \/ \E t \in threads : DeleteThread(t)
     \/ \E m \in messages : DeleteMessage(Id(m))
  /\ files' = Cascade(threads', messages')
  /\ UNCHANGED <<objects, clock, pc, callVars, removed>>

Tick == /\ clock < MaxClock
        /\ clock' = clock + 1
        /\ UNCHANGED <<storeVars, fileVars, pc, callVars, removed, deletes>>

Next == \/ \E u \in Uploads : Put(u) \/ Find(u) \/ DropCopy(u) \/ Create(u)
        \/ \E r \in Removers : PickFile(r) \/ RemoveRow(r) \/ RemoveObject(r)
        \/ \E w \in Viewers : ReadFile(w) \/ Presign(w) \/ SaveUrl(w)
        \/ Delete \/ Tick

Spec == Init /\ [][Next]_vars

-----------------------------------------------------------------------------
(* Properties. *)

FileRows == [id : Uploads, thread : Threads, message : SUBSET {Id(m) : m \in Stored},
             checksum : Contents, key : {Key(u) : u \in Uploads},
             url : 0..(MaxClock + Expiry), until : 0..(MaxClock + Expiry)]

\* Every variable has its type, and the rows obey the foreign keys, whatever is
\* deleted while an attachment is under way.
TypeOK ==
  /\ threads \subseteq Threads /\ messages \subseteq Stored
  /\ files \subseteq FileRows
  /\ \A f \in files : ValidFile(f)
  /\ objects \subseteq [key : {Key(u) : u \in Uploads}, data : Contents]
  /\ clock \in 1..MaxClock
  /\ pc \in [Clients -> {"idle", "find", "drop", "create", "row", "object", "sign", "save"}
                        \union Ended]
  /\ \A p \in Removers \union Viewers : hand[p] \subseteq FileRows
  /\ before \in [Uploads -> SUBSET Uploads]
  /\ removed \subseteq Uploads
  /\ deletes \in 0..MaxDeletes

\* A row of files always has its object, with the contents of its checksum,
\* though equal names, equal contents, a copy that is dropped and a removal all
\* work on the same bucket.
RowHasObject ==
  \A f \in files : [key |-> f.key, data |-> f.checksum] \in objects

\* An object that no row names is what an attachment under way or failed, a
\* removal not finished, or the deletion of a thread has left; the last of these
\* deletes rows behind the caller's back, and nothing deletes the object.
OrphanObjectIsExplained ==
  \A u \in Uploads :
    (\E o \in objects : o.key = Key(u)) /\ GetFile({u}) = {} =>
      \/ pc[u] \in {"find", "drop", "create", "failed"}
      \/ u \in removed
      \/ wants[u].thread \notin threads

\* Nothing makes (thread, checksum) unique: the same contents are kept twice in
\* one thread only when two attachments overlapped.
DuplicateOnlyByOverlap ==
  \A f, g \in files : f # g /\ f.thread = g.thread /\ f.checksum = g.checksum =>
    f.id \notin before[g.id]

\* A cached URL that is_url_valid accepts is one the store still honours, though
\* it was signed at another time than its expiry was taken, and two callers may
\* have renewed it at once.  (It needs an expiry that fits 32 bits.)
CachedUrlWorks == \A f \in files : IsUrlValid(f) => clock < f.url
=============================================================================
