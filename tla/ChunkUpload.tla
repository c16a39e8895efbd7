---------------------------- MODULE ChunkUpload ----------------------------
(***************************************************************************)
(* Resumable page upload of one invoice job in the Local Connector:        *)
(* InvoiceWorkflowService.UploadChunkAsync with FinalizePageAsync and      *)
(* RecoverCompletedPageAsync, over the rows of the SQLite sidecar and the  *)
(* encrypted objects on disk, which no transaction spans.                  *)
(*                                                                         *)
(* Several requests run at once: the client repeats a chunk it got no      *)
(* answer for while its first request is still at work. A request may end  *)
(* anywhere (an exception, a disconnected client, a stop of the process).  *)
(* The retention worker deletes objects that are three days old and leaves *)
(* their rows.                                                             *)
(*                                                                         *)
(* Every store transaction and every object operation is one step, except  *)
(* where noted. An object is only its reference: a new one is one nobody   *)
(* mentions, which is what a GUID is.                                      *)
(*                                                                         *)
(* Sources: Connector.Application/InvoiceWorkflowService.cs,               *)
(* Connector.Infrastructure/SqliteSidecarStore.cs,                         *)
(* Connector.Infrastructure/EncryptedDocumentObjectStore.cs and            *)
(* Connector.LocalApi/ConnectorBackgroundServices.cs.                      *)
(***************************************************************************)
EXTENDS Naturals, FiniteSets, FiniteSetsExt

CONSTANTS
  Pages,             \* the pages of the invoice (expected_page_count of them)
  ChunkCount,        \* how many chunks each page is sent in
  Versions,          \* the contents a page may be declared with (its SHA-256)
  Length,            \* the length of a chunk of each version
  MaximumPageBytes,  \* 20 MiB
  Uploads,           \* the chunk requests a client may send
  Requests,          \* requests handled at the same time
  Refs,              \* bound of the model: references in use at the same time
  MaxFaults,         \* bound of the model: requests that end early
  Retention          \* whether objects get old enough to be deleted

\* A chunk request: the page, the index in it, the declared page content and the
\* content the chunk really belongs to.
ChunkRequest ==
  {u \in [page : Pages, index : Nat, version : Versions, data : Versions] :
     u.index < ChunkCount[u.page]}

ASSUME PagesAssumption == IsFiniteSet(Pages)
ASSUME ChunkCountAssumption == ChunkCount \in [Pages -> Nat \ {0}]
ASSUME LengthAssumption == Length \in [Versions -> Nat \ {0}]
ASSUME MaximumPageBytesAssumption == MaximumPageBytes \in Nat
ASSUME UploadsAssumption == Uploads \subseteq ChunkRequest /\ Uploads # {}
ASSUME RefsAssumption == Refs \subseteq Nat \ {0}
ASSUME MaxFaultsAssumption == MaxFaults \in Nat
ASSUME RetentionAssumption == Retention \in BOOLEAN
ASSUME VersionsAssumption == "none" \notin Versions

VARIABLES
  captured,  \* whether invoice_jobs.state is Captured; else LocallyValidated
  uploaded,  \* invoice_jobs.uploaded_page_count
  chunks,    \* the upload_chunks rows
  pages,     \* the document_pages rows, NoPage where there is none
  objects,   \* the objects on disk
  old,       \* those past the retention time
  lost,      \* history: references the retention worker deleted
  requests,  \* the requests being handled
  faults     \* requests that may still end early

rows == <<captured, uploaded, chunks, pages>>
disk == <<objects, old, lost>>
vars == <<rows, disk, requests, faults>>

NoRef == 0
NoPage == [version |-> "none", ref |-> NoRef]
PageRow == [version : Versions \cup {"none"}, ref : Refs \cup {NoRef}]
ChunkRow == [upload : Uploads, ref : Refs]

RequestPc ==
  {"idle", "save", "discard", "list", "assemble", "finalize", "recover", "refinalize", "delete"}

\* pc and upload; ref: the object this request wrote last; next: the step after
\* its candidate is discarded; list: the chunk rows it read; todo: objects it is
\* still to delete.
Request ==
  [pc : RequestPc, upload : Uploads, ref : Refs \cup {NoRef}, next : RequestPc,
   list : SUBSET ChunkRow, todo : SUBSET Refs]

IdleRequest ==
  [pc |-> "idle", upload |-> CHOOSE u \in Uploads : TRUE, ref |-> NoRef, next |-> "idle",
   list |-> {}, todo |-> {}]

TypeOK ==
  /\ captured \in BOOLEAN
  /\ uploaded \in Nat
  /\ chunks \subseteq ChunkRow
  /\ pages \in [Pages -> PageRow]
  /\ objects \subseteq Refs
  /\ old \subseteq objects
  /\ lost \subseteq Refs
  /\ \A r \in Requests :
       /\ requests[r].pc \in RequestPc /\ requests[r].next \in RequestPc
       /\ requests[r].upload \in Uploads
       /\ requests[r].ref \in Refs \cup {NoRef}
       /\ requests[r].list \subseteq ChunkRow
       /\ requests[r].todo \subseteq Refs
  /\ faults \in 0..MaxFaults

Init ==
  /\ captured = TRUE
  /\ uploaded = 0
  /\ chunks = {}
  /\ pages = [p \in Pages |-> NoPage]
  /\ objects = {} /\ old = {} /\ lost = {}
  /\ requests = [r \in Requests |-> IdleRequest]
  /\ faults = MaxFaults

-----------------------------------------------------------------------------
(* Objects on disk.                                                        *)

\* A reference is free when nothing mentions it any more.
Mentioned ==
  objects \cup {c.ref : c \in chunks} \cup {pages[p].ref : p \in Pages}
    \cup UNION {{requests[r].ref} \cup requests[r].todo \cup {c.ref : c \in requests[r].list} :
                 r \in Requests}

\* WriteAsync: a new object under a reference of its own.
Write(o) ==
  /\ o \in Refs \ Mentioned
  /\ \A q \in Refs : q < o => q \in Mentioned
  /\ objects' = objects \cup {o}
  /\ lost' = lost \ {o}
  /\ UNCHANGED old

\* DeleteAsync: deleting an object that is gone does nothing.
Delete(refs) ==
  /\ objects' = objects \ refs
  /\ old' = old \ refs
  /\ UNCHANGED lost

-----------------------------------------------------------------------------
(* The store.                                                              *)

Of(r) == requests[r].upload
ChunksOf(p) == {c \in chunks : c.upload.page = p}
ChunkLength(c) == Length[c.upload.data]
PageBytes(p) == MapThenSumSet(ChunkLength, ChunksOf(p))

\* Seeded fault: the chunk alone is compared with the limit, not the page.
DispositionOfSize(u) ==
  IF pages[u.page] # NoPage
    THEN IF pages[u.page].version = u.version THEN "PageAlreadyComplete" ELSE "PageConflict"
  ELSE IF ~captured
    THEN "JobNotCaptured"
  ELSE IF \E c \in ChunksOf(u.page) : c.upload = u
    THEN "Replay"
  ELSE IF \E c \in ChunksOf(u.page) : c.upload.index = u.index \/ c.upload.version # u.version
    THEN "Conflict"
  ELSE IF Length[u.data] > MaximumPageBytes
    THEN "PageSizeExceeded"
  ELSE "Stored"

\* SaveChunkAsync decides what becomes of a chunk, in this order.
Disposition(u) ==
  IF pages[u.page] # NoPage
    THEN IF pages[u.page].version = u.version THEN "PageAlreadyComplete" ELSE "PageConflict"
  ELSE IF ~captured
    THEN "JobNotCaptured"
  ELSE IF \E c \in ChunksOf(u.page) : c.upload = u
    THEN "Replay"
  ELSE IF \E c \in ChunksOf(u.page) : c.upload.index = u.index \/ c.upload.version # u.version
    THEN "Conflict"
  ELSE IF PageBytes(u.page) + Length[u.data] > MaximumPageBytes
    THEN "PageSizeExceeded"
  ELSE "Stored"

\* Seeded faults: the chunk rows stay; the pages are counted before the insert.
PageFinalizedKeepingChunks(p, rowsOfPages) ==
  LET count == Cardinality({q \in Pages : rowsOfPages[q] # NoPage}) IN
  /\ pages' = rowsOfPages
  /\ UNCHANGED chunks
  /\ IF captured
       THEN uploaded' = count /\ captured' = (count # Cardinality(Pages))
       ELSE UNCHANGED <<uploaded, captured>>

PageFinalizedCountedFirst(p, rowsOfPages) ==
  LET count == Cardinality({q \in Pages : pages[q] # NoPage}) IN
  /\ pages' = rowsOfPages
  /\ chunks' = chunks \ ChunksOf(p)
  /\ IF captured
       THEN uploaded' = count /\ captured' = (count # Cardinality(Pages))
       ELSE UNCHANGED <<uploaded, captured>>

\* The page count and the job state FinalizePageUploadAsync derives from the rows
\* it leaves, in the same transaction. It deletes the chunk rows of the page.
PageFinalized(p, rowsOfPages) ==
  LET count == Cardinality({q \in Pages : rowsOfPages[q] # NoPage}) IN
  /\ pages' = rowsOfPages
  /\ chunks' = chunks \ ChunksOf(p)
  /\ IF captured
       THEN uploaded' = count /\ captured' = (count # Cardinality(Pages))
       ELSE UNCHANGED <<uploaded, captured>>

-----------------------------------------------------------------------------
(* UploadChunkAsync.                                                       *)

Set(r, request) == requests' = [requests EXCEPT ![r] = request]
GoTo(r, pc) == requests' = [requests EXCEPT ![r].pc = pc]
Answered(r) == Set(r, IdleRequest)

\* The job takes uploads and the chunk is well formed: its object is written
\* before any row. (Nobody looks at the object before the row: one step.)
Arrive(r, u) ==
  /\ requests[r].pc = "idle"
  /\ captured
  /\ \E o \in Refs :
       /\ Write(o)
       /\ Set(r, [IdleRequest EXCEPT !.pc = "save", !.upload = u, !.ref = o])
  /\ UNCHANGED <<rows, faults>>

\* Seeded fault: a replayed chunk is answered without looking at the page.
AfterDiscardOfReplay(disposition) ==
  IF disposition = "PageAlreadyComplete" THEN "recover" ELSE "idle"

\* Where a request goes after its own chunk object was discarded.
AfterDiscard(disposition) ==
  CASE disposition = "Replay"              -> "list"
    [] disposition = "PageAlreadyComplete" -> "recover"
    [] OTHER                               -> "idle"

\* Seeded faults: the row does not name the object; a chunk replaces the stored
\* one of its index, whatever it contains.
SaveWithoutReference(r) ==
  /\ requests[r].pc = "save"
  /\ Disposition(Of(r)) = "Stored"
  /\ chunks' = chunks \cup {[upload |-> Of(r), ref |-> NoRef]}
  /\ GoTo(r, "list")
  /\ UNCHANGED <<captured, uploaded, pages, disk, faults>>

SaveReplacing(r) ==
  /\ requests[r].pc = "save"
  /\ pages[Of(r).page] = NoPage
  /\ chunks' = {c \in chunks : c.upload.page # Of(r).page \/ c.upload.index # Of(r).index}
                \cup {[upload |-> Of(r), ref |-> requests[r].ref]}
  /\ GoTo(r, "list")
  /\ UNCHANGED <<captured, uploaded, pages, disk, faults>>

Save(r) ==
  /\ requests[r].pc = "save"
  /\ IF Disposition(Of(r)) = "Stored"
       THEN /\ chunks' = chunks \cup {[upload |-> Of(r), ref |-> requests[r].ref]}
            /\ Set(r, [requests[r] EXCEPT !.pc = "list", !.ref = NoRef])
       ELSE /\ UNCHANGED chunks
            /\ Set(r, [requests[r] EXCEPT !.pc = "discard",
                                          !.next = AfterDiscard(Disposition(Of(r)))])
  /\ UNCHANGED <<captured, uploaded, pages, disk, faults>>

\* Only the object named by the row that was kept stays.
Discard(r) ==
  /\ requests[r].pc = "discard"
  /\ Delete({requests[r].ref})
  /\ IF requests[r].next = "idle"
       THEN Answered(r)
       ELSE Set(r, [requests[r] EXCEPT !.pc = requests[r].next, !.ref = NoRef, !.next = "idle"])
  /\ UNCHANGED <<rows, faults>>

\* GetChunksAsync: when the page is complete this request finalizes it.
List(r) ==
  /\ requests[r].pc = "list"
  /\ IF Cardinality(ChunksOf(Of(r).page)) = ChunkCount[Of(r).page]
       THEN Set(r, [requests[r] EXCEPT !.pc = "assemble", !.list = ChunksOf(Of(r).page)])
       ELSE Answered(r)
  /\ UNCHANGED <<rows, disk, faults>>

-----------------------------------------------------------------------------
(* FinalizePageAsync.                                                      *)

ListedRefs(r) == {c.ref : c \in requests[r].list}
Declared(r) == (CHOOSE c \in requests[r].list : c.upload.index = 0).upload.version

\* All chunk objects are read and make up the declared page; the page object is
\* written. (Objects only ever disappear, so reading them one after the other
\* gives what reading them at the last read gives: one step.)
Assemble(r) ==
  /\ requests[r].pc = "assemble"
  /\ ListedRefs(r) \subseteq objects
  /\ \A c \in requests[r].list : c.upload.data = Declared(r)
  /\ \E o \in Refs :
       /\ Write(o)
       /\ Set(r, [requests[r] EXCEPT !.pc = "finalize", !.ref = o])
  /\ UNCHANGED <<rows, faults>>

\* The assembled page does not have the declared hash: the request fails.
HashMismatch(r) ==
  /\ requests[r].pc = "assemble"
  /\ ListedRefs(r) \subseteq objects
  /\ \E c \in requests[r].list : c.upload.data # Declared(r)
  /\ Answered(r)
  /\ UNCHANGED <<rows, disk, faults>>

\* A chunk object is gone. TryRecoverCompletedPageAsync: another request may have
\* completed the page meanwhile; otherwise the request fails.
ChunkObjectMissing(r) ==
  /\ requests[r].pc = "assemble"
  /\ ~(ListedRefs(r) \subseteq objects)
  /\ IF pages[Of(r).page].version = Declared(r)
       THEN Set(r, [requests[r] EXCEPT !.pc = "recover", !.list = {}])
       ELSE Answered(r)
  /\ UNCHANGED <<rows, disk, faults>>

\* What remains to be deleted; the request is answered when nothing does.
ThenDelete(r, todo) ==
  IF todo = {}
    THEN Answered(r)
    ELSE Set(r, [IdleRequest EXCEPT !.pc = "delete", !.upload = Of(r), !.todo = todo])

\* Seeded faults: the references are not compared before the object is deleted; the
\* object that was not kept is left behind.
FinalizeDeletingOwn(r) ==
  LET p == Of(r).page
      row == [version |-> Declared(r), ref |-> requests[r].ref]
  IN
  /\ requests[r].pc = "finalize"
  /\ PageFinalized(p, IF pages[p] = NoPage THEN [pages EXCEPT ![p] = row] ELSE pages)
  /\ ThenDelete(r, {row.ref} \cup ListedRefs(r))
  /\ UNCHANGED <<disk, faults>>

FinalizeLeavingOwn(r) ==
  LET p == Of(r).page
      row == [version |-> Declared(r), ref |-> requests[r].ref]
  IN
  /\ requests[r].pc = "finalize"
  /\ PageFinalized(p, IF pages[p] = NoPage THEN [pages EXCEPT ![p] = row] ELSE pages)
  /\ ThenDelete(r, ListedRefs(r))
  /\ UNCHANGED <<disk, faults>>

\* FinalizePageUploadAsync: the first one to get here stores its page row, a later
\* one with the same content keeps the stored row and deletes its own object. Any
\* other would be refused (FinalizeNeverRefused: there is none).
Finalize(r) ==
  LET p == Of(r).page
      row == [version |-> Declared(r), ref |-> requests[r].ref]
  IN
  /\ requests[r].pc = "finalize"
  /\ \/ /\ pages[p] = NoPage
        /\ captured
        /\ PageFinalized(p, [pages EXCEPT ![p] = row])
        /\ ThenDelete(r, ListedRefs(r))
     \/ /\ pages[p] # NoPage
        /\ pages[p].version = row.version
        /\ PageFinalized(p, pages)
        /\ ThenDelete(r, {row.ref} \cup ListedRefs(r))
  /\ UNCHANGED <<disk, faults>>

\* RecoverCompletedPageAsync: read the chunk rows, then the page row ...
Recover(r) ==
  /\ requests[r].pc = "recover"
  /\ pages[Of(r).page] # NoPage
  /\ Set(r, [requests[r] EXCEPT !.pc = "refinalize", !.list = ChunksOf(Of(r).page)])
  /\ UNCHANGED <<rows, disk, faults>>

\* ... finalize it once more, and delete the objects of those chunk rows.
Refinalize(r) ==
  /\ requests[r].pc = "refinalize"
  /\ PageFinalized(Of(r).page, pages)
  /\ ThenDelete(r, ListedRefs(r))
  /\ UNCHANGED <<disk, faults>>

\* The page object that was not kept and the chunk objects. (A page needs all of
\* its chunks, so for a reader the first deletion is as good as all: one step.)
DeleteObjects(r) ==
  /\ requests[r].pc = "delete"
  /\ Delete(requests[r].todo)
  /\ Answered(r)
  /\ UNCHANGED <<rows, faults>>

\* An exception, a disconnected caller or a stop of the process: whatever the
\* request held in memory is gone.
RequestEnds(r) ==
  /\ requests[r].pc # "idle"
  /\ faults > 0
  /\ faults' = faults - 1
  /\ Answered(r)
  /\ UNCHANGED <<rows, disk>>

-----------------------------------------------------------------------------
(* DocumentRetentionWorker and DeleteExpiredAsync.                         *)

\* The retention time passes. Requests do not last that long.
TimePasses ==
  /\ Retention
  /\ \A r \in Requests : requests[r].pc = "idle"
  /\ old # objects
  /\ old' = objects
  /\ UNCHANGED <<rows, objects, lost, requests, faults>>

\* One expired file is deleted, whatever row names it.
Expire(o) ==
  /\ o \in old
  /\ objects' = objects \ {o}
  /\ old' = old \ {o}
  /\ lost' = lost \cup {o}
  /\ UNCHANGED <<rows, requests, faults>>

-----------------------------------------------------------------------------
RequestStep(r) ==
  \/ Save(r) \/ Discard(r) \/ List(r)
  \/ Assemble(r) \/ HashMismatch(r) \/ ChunkObjectMissing(r)
  \/ Finalize(r) \/ Recover(r) \/ Refinalize(r) \/ DeleteObjects(r)

Next ==
  \/ \E r \in Requests : RequestStep(r) \/ RequestEnds(r) \/ \E u \in Uploads : Arrive(r, u)
  \/ TimePasses
  \/ \E o \in Refs : Expire(o)

Spec == Init /\ [][Next]_vars

\* The server works on every request it took, and the client sends every chunk
\* again and again while the job takes uploads (WorkManager retries the upload).
Fairness ==
  /\ \A r \in Requests : WF_vars(RequestStep(r))
  /\ \A u \in Uploads : SF_vars(\E r \in Requests : Arrive(r, u))

FairSpec == Spec /\ Fairness

-----------------------------------------------------------------------------
(* Properties.                                                             *)

\* Job row, page rows and chunk rows agree whatever requests overlap: capture
\* closes exactly with the last page, the count is the number of page rows, and a
\* completed page has no chunk rows left.
CaptureMatchesPages ==
  LET complete == {p \in Pages : pages[p] # NoPage} IN
  /\ uploaded = Cardinality(complete)
  /\ captured <=> complete # Pages
  /\ \A p \in complete : ChunksOf(p) = {}

\* The chunk rows of an open page are one upload of one content within the size
\* limit, so what is assembled from them is never a mixture.
OpenPageIsOneUpload ==
  \A p \in Pages :
    /\ \A c, d \in ChunksOf(p) :
         /\ c.upload.version = d.upload.version
         /\ (c.upload.index = d.upload.index \/ c.ref = d.ref) => c = d
    /\ PageBytes(p) <= MaximumPageBytes

\* Two requests that finalize the same page never collide: the later one always
\* finds the content it assembled itself, or an open job.
FinalizeNeverRefused ==
  \A r \in Requests :
    LET p == Of(r).page IN
    /\ requests[r].pc = "finalize" =>
         IF pages[p] = NoPage THEN captured ELSE pages[p].version = Declared(r)
    /\ requests[r].pc \in {"recover", "refinalize"} => pages[p] # NoPage

\* No clean-up deletes an object a row still names: every row's object is on disk
\* unless the retention worker took it.
RowsReadable ==
  /\ \A c \in chunks : c.ref \in objects \cup lost
  /\ \A p \in Pages : pages[p] # NoPage => pages[p].ref \in objects \cup lost

\* As long as no request ended early, every object is named by a row or is in the
\* hands of a request that will delete or name it: overlapping requests leave no
\* unreferenced invoice image behind.
NoOrphans ==
  faults = MaxFaults =>
    objects \subseteq
      {c.ref : c \in chunks} \cup {pages[p].ref : p \in Pages}
        \cup UNION {{requests[r].ref} \cup requests[r].todo : r \in Requests}

\* A client that keeps sending its chunks gets the invoice captured, through
\* requests that end anywhere.
UploadCompletes == <>(~captured)

\* Upload implements capture: each page gets one content for good, and capture
\* closes with the last page.
Capture == INSTANCE PageCapture WITH
  content <- [p \in Pages |-> pages[p].version],
  open <- captured

ImplementsCapture == Capture!CaptureSpec

=============================================================================
