------------------------- MODULE ChunkUploadProofs -------------------------
(***************************************************************************)
(* Proofs about ChunkUpload, for any pages, chunk counts, contents, upload *)
(* requests, references and requests at the same time, with retention and  *)
(* with requests that end anywhere: the rows of a job agree, finalizing is *)
(* never refused, rows stay readable, nothing is orphaned as long as no    *)
(* request ends early, a page that is still being uploaded holds chunks of *)
(* one upload that fit its declared size, and the upload implements        *)
(* PageCapture.                                                            *)
(*                                                                         *)
(* The strengthening says what a request may rely on between its steps:    *)
(* the chunk list it holds is complete, of one content, and still what the *)
(* store has or what the page became (ListHolds); and no reference is in   *)
(* the hands of two (RefsInv).  The size limit has an invariant of its own, *)
(* PagesFit: the bytes stored for a page are a sum over its chunk rows, so *)
(* a saved row adds exactly its chunk (FiniteSums).                        *)
(***************************************************************************)
EXTENDS ChunkUpload, FiniteSums

Writing == {"save", "discard", "finalize"}
Listing == {"assemble", "finalize"}

TypeInv == TypeOK /\ requests \in [Requests -> Request]

\* A page row has the content of a declared version.
PagesTyped == \A p \in Pages : pages[p] # NoPage => pages[p].version \in Versions

\* The chunk rows of a page are of one version and differ in their index.
NotMixed ==
  \A c, d \in chunks : c.upload.page = d.upload.page =>
    /\ c.upload.version = d.upload.version
    /\ c.upload.index = d.upload.index => c = d

RowsInv == CaptureMatchesPages /\ PagesTyped /\ NotMixed

\* What a request holds, by the step it is at.
Holds(r) ==
  /\ requests[r].ref # NoRef <=> requests[r].pc \in Writing
  /\ requests[r].todo # {} => requests[r].pc = "delete"
  /\ requests[r].list # {} => requests[r].pc \in Listing
  /\ requests[r].pc = "discard" => requests[r].next \in {"idle", "list", "recover"}

\* A request that recovers a page has seen it complete.
Recovers(r) ==
  requests[r].pc \in {"recover", "refinalize"} \/ (requests[r].pc = "discard" /\ requests[r].next = "recover")
    => pages[Of(r).page] # NoPage

\* The chunk list a request holds is all of its page, of one version, and either
\* what the store has or what the page became.
ListHolds(r) ==
  requests[r].pc \in Listing =>
    /\ \A i \in 0 .. (ChunkCount[Of(r).page] - 1) : \E c \in requests[r].list : c.upload.index = i
    /\ \A c \in requests[r].list : c.upload.page = Of(r).page
    /\ \A c, d \in requests[r].list : c.upload.version = d.upload.version
    /\ pages[Of(r).page] = NoPage => requests[r].list = ChunksOf(Of(r).page)
    /\ pages[Of(r).page] # NoPage => \A c \in requests[r].list : pages[Of(r).page].version = c.upload.version

RequestsInv == \A r \in Requests : Holds(r) /\ Recovers(r) /\ ListHolds(r)

\* References: of rows, of what is listed, written or to be deleted.
RowRefsApart ==
  /\ \A c, d \in chunks : c.ref = d.ref => c = d
  /\ \A c \in chunks, p \in Pages : c.ref # pages[p].ref

OwnRefsApart ==
  \A r \in Requests : requests[r].ref # NoRef =>
    /\ \A c \in chunks : c.ref # requests[r].ref
    /\ \A p \in Pages : pages[p].ref # requests[r].ref
    /\ \A s \in Requests :
         /\ s # r => requests[s].ref # requests[r].ref
         /\ requests[r].ref \notin requests[s].todo
         /\ \A c \in requests[s].list : c.ref # requests[r].ref

ListedRefsApart ==
  \A r \in Requests : \A c \in requests[r].list :
    /\ \A d \in chunks : c.ref = d.ref => c = d
    /\ \A p \in Pages : pages[p].ref # c.ref

TodoRefsApart ==
  \A r \in Requests : \A o \in requests[r].todo :
    /\ \A c \in chunks : c.ref # o
    /\ \A p \in Pages : pages[p].ref # o

RefsInv == RowRefsApart /\ OwnRefsApart /\ ListedRefsApart /\ TodoRefsApart

\* The object a request has written is on disk or has expired.
OwnReadable == \A r \in Requests : requests[r].ref # NoRef => requests[r].ref \in objects \cup lost

DiskInv == RowsReadable /\ OwnReadable /\ NoOrphans

\* The inductive invariant.
IInv == TypeInv /\ RowsInv /\ RequestsInv /\ RefsInv /\ DiskInv

-----------------------------------------------------------------------------
(* What a step makes of the request that takes it.                         *)

Others(r) == \A s \in Requests : s # r => requests'[s] = requests[s]

\* A request, field by field.
IsRequest(v, pc, upload, ref, next, list, todo) ==
  /\ v \in Request
  /\ v.pc = pc /\ v.upload = upload /\ v.ref = ref
  /\ v.next = next /\ v.list = list /\ v.todo = todo

\* The request r gets these fields, and no other request changes.
Becomes(r, pc, upload, ref, next, list, todo) ==
  /\ requests' \in [Requests -> Request]
  /\ IsRequest(requests'[r], pc, upload, ref, next, list, todo)
  /\ Others(r)

BecomesIdle(r) == Becomes(r, "idle", IdleRequest.upload, NoRef, "idle", {}, {})

\* Setting a request is becoming it.
LEMMA SetBecomes ==
  ASSUME TypeInv, NEW r \in Requests, NEW v, NEW pc, NEW upload, NEW ref, NEW next, NEW list, NEW todo,
         IsRequest(v, pc, upload, ref, next, list, todo), Set(r, v)
  PROVE  Becomes(r, pc, upload, ref, next, list, todo)
BY DEF TypeInv, Set, Becomes, Others, IsRequest

\* A request can be idle.
LEMMA IdleRequestType == IsRequest(IdleRequest, "idle", IdleRequest.upload, NoRef, "idle", {}, {})
BY UploadsAssumption DEF IdleRequest, Request, RequestPc, IsRequest

LEMMA AnsweredBecomes ==
  ASSUME TypeInv, NEW r \in Requests, Answered(r)
  PROVE  BecomesIdle(r)
BY IdleRequestType, SetBecomes DEF Answered, BecomesIdle

\* Upload requests and chunk rows have the fields the code gives them.
LEMMA UploadType ==
  \A u \in Uploads :
    /\ u.page \in Pages /\ u.index \in Nat /\ u.version \in Versions
    /\ u.data \in Versions /\ u.index < ChunkCount[u.page]
BY UploadsAssumption DEF ChunkRequest

LEMMA ChunkRowType ==
  \A c \in ChunkRow :
    /\ c.upload \in Uploads /\ c.ref \in Refs /\ c.ref # NoRef
    /\ c.upload.page \in Pages /\ c.upload.index \in Nat /\ c.upload.version \in Versions
    /\ c.upload.index < ChunkCount[c.upload.page]
BY UploadType, RefsAssumption DEF ChunkRow, NoRef

LEMMA RequestType ==
  ASSUME TypeInv, NEW r \in Requests
  PROVE  /\ requests[r] \in Request
         /\ requests[r].pc \in RequestPc /\ requests[r].next \in RequestPc
         /\ requests[r].upload \in Uploads /\ Of(r) \in Uploads /\ Of(r).page \in Pages
         /\ Of(r) = requests[r].upload
         /\ requests[r].ref \in Refs \cup {NoRef}
         /\ requests[r].list \subseteq ChunkRow
         /\ requests[r].todo \subseteq Refs
BY UploadType DEF TypeInv, Request, Of

\* What each action makes of its request.
LEMMA ArriveBecomes ==
  ASSUME TypeInv, NEW r \in Requests, NEW u \in Uploads, Arrive(r, u)
  PROVE  \E o \in Refs : Write(o) /\ Becomes(r, "save", u, o, "idle", {}, {})
<1>1. PICK o \in Refs : Write(o) /\ Set(r, [IdleRequest EXCEPT !.pc = "save", !.upload = u, !.ref = o])
  BY DEF Arrive
<1>2. IsRequest([IdleRequest EXCEPT !.pc = "save", !.upload = u, !.ref = o],
    "save", u, o, "idle", {}, {})
  BY IdleRequestType DEF IsRequest, Request, RequestPc
<1> QED
  BY <1>1, <1>2, SetBecomes

LEMMA SaveBecomes ==
  ASSUME TypeInv, NEW r \in Requests, Save(r)
  PROVE  IF Disposition(Of(r)) = "Stored"
           THEN Becomes(r, "list", Of(r), NoRef, requests[r].next, requests[r].list, requests[r].todo)
           ELSE Becomes(r, "discard", Of(r), requests[r].ref, AfterDiscard(Disposition(Of(r))),
                        requests[r].list, requests[r].todo)
<1>1. CASE Disposition(Of(r)) = "Stored"
  <2>1. Set(r, [requests[r] EXCEPT !.pc = "list", !.ref = NoRef])
    BY <1>1 DEF Save
  <2>2. IsRequest([requests[r] EXCEPT !.pc = "list", !.ref = NoRef],
      "list", Of(r), NoRef, requests[r].next, requests[r].list, requests[r].todo)
    BY RequestType DEF IsRequest, Request, RequestPc
  <2> QED
    BY <1>1, <2>1, <2>2, SetBecomes
<1>2. CASE Disposition(Of(r)) # "Stored"
  <2> DEFINE next == AfterDiscard(Disposition(Of(r)))
  <2>1. Set(r, [requests[r] EXCEPT !.pc = "discard", !.next = next])
    BY <1>2 DEF Save
  <2>2. next \in RequestPc
    BY DEF AfterDiscard, RequestPc
  <2> HIDE DEF next
  <2>3. IsRequest([requests[r] EXCEPT !.pc = "discard", !.next = next],
      "discard", Of(r), requests[r].ref, next, requests[r].list, requests[r].todo)
    BY <2>2, RequestType DEF IsRequest, Request, RequestPc
  <2>5. Becomes(r, "discard", Of(r), requests[r].ref, next, requests[r].list, requests[r].todo)
    BY <2>1, <2>3, SetBecomes
  <2> QED
    BY <1>2, <2>5 DEF next
<1> QED
  BY <1>1, <1>2

LEMMA DiscardBecomes ==
  ASSUME TypeInv, NEW r \in Requests, Discard(r)
  PROVE  IF requests[r].next = "idle"
           THEN BecomesIdle(r)
           ELSE Becomes(r, requests[r].next, Of(r), NoRef, "idle", requests[r].list, requests[r].todo)
<1>1. CASE requests[r].next = "idle"
  BY <1>1, AnsweredBecomes DEF Discard
<1>2. CASE requests[r].next # "idle"
  <2>1. Set(r, [requests[r] EXCEPT !.pc = requests[r].next, !.ref = NoRef, !.next = "idle"])
    BY <1>2 DEF Discard
  <2>2. IsRequest([requests[r] EXCEPT !.pc = requests[r].next, !.ref = NoRef, !.next = "idle"],
      requests[r].next, Of(r), NoRef, "idle", requests[r].list, requests[r].todo)
    BY RequestType DEF IsRequest, Request, RequestPc
  <2> QED
    BY <1>2, <2>1, <2>2, SetBecomes
<1> QED
  BY <1>1, <1>2

LEMMA ListBecomes ==
  ASSUME TypeInv, NEW r \in Requests, List(r)
  PROVE  IF Cardinality(ChunksOf(Of(r).page)) = ChunkCount[Of(r).page]
           THEN Becomes(r, "assemble", Of(r), requests[r].ref, requests[r].next,
                                  ChunksOf(Of(r).page), requests[r].todo)
           ELSE BecomesIdle(r)
<1>1. CASE Cardinality(ChunksOf(Of(r).page)) = ChunkCount[Of(r).page]
  <2> DEFINE list == ChunksOf(Of(r).page)
  <2>1. Set(r, [requests[r] EXCEPT !.pc = "assemble", !.list = list])
    BY <1>1 DEF List
  <2>2. list \in SUBSET ChunkRow
    BY DEF TypeInv, TypeOK, ChunksOf
  <2> HIDE DEF list
  <2>3. IsRequest([requests[r] EXCEPT !.pc = "assemble", !.list = list],
      "assemble", Of(r), requests[r].ref, requests[r].next, list, requests[r].todo)
    BY <2>2, RequestType DEF IsRequest, Request, RequestPc
  <2>5. Becomes(r, "assemble", Of(r), requests[r].ref, requests[r].next, list, requests[r].todo)
    BY <2>1, <2>3, SetBecomes
  <2> QED
    BY <1>1, <2>5 DEF list
<1>2. CASE Cardinality(ChunksOf(Of(r).page)) # ChunkCount[Of(r).page]
  BY <1>2, AnsweredBecomes DEF List
<1> QED
  BY <1>1, <1>2

LEMMA AssembleBecomes ==
  ASSUME TypeInv, NEW r \in Requests, Assemble(r)
  PROVE  \E o \in Refs : /\ Write(o)
                         /\ Becomes(r, "finalize", Of(r), o, requests[r].next, requests[r].list, requests[r].todo)
<1>1. PICK o \in Refs : Write(o) /\ Set(r, [requests[r] EXCEPT !.pc = "finalize", !.ref = o])
  BY DEF Assemble
<1>2. IsRequest([requests[r] EXCEPT !.pc = "finalize", !.ref = o],
    "finalize", Of(r), o, requests[r].next, requests[r].list, requests[r].todo)
  BY RequestType DEF IsRequest, Request, RequestPc
<1> QED
  BY <1>1, <1>2, SetBecomes

LEMMA ChunkObjectMissingBecomes ==
  ASSUME TypeInv, NEW r \in Requests, ChunkObjectMissing(r)
  PROVE  IF pages[Of(r).page].version = Declared(r)
           THEN Becomes(r, "recover", Of(r), requests[r].ref, requests[r].next, {}, requests[r].todo)
           ELSE BecomesIdle(r)
<1>1. CASE pages[Of(r).page].version = Declared(r)
  <2>1. Set(r, [requests[r] EXCEPT !.pc = "recover", !.list = {}])
    BY <1>1 DEF ChunkObjectMissing
  <2>2. IsRequest([requests[r] EXCEPT !.pc = "recover", !.list = {}],
      "recover", Of(r), requests[r].ref, requests[r].next, {}, requests[r].todo)
    BY RequestType DEF IsRequest, Request, RequestPc
  <2> QED
    BY <1>1, <2>1, <2>2, SetBecomes
<1>2. CASE pages[Of(r).page].version # Declared(r)
  BY <1>2, AnsweredBecomes DEF ChunkObjectMissing
<1> QED
  BY <1>1, <1>2

LEMMA ThenDeleteBecomes ==
  ASSUME TypeInv, NEW r \in Requests, NEW todo \in SUBSET Refs, ThenDelete(r, todo)
  PROVE  IF todo = {} THEN BecomesIdle(r)
                      ELSE Becomes(r, "delete", Of(r), NoRef, "idle", {}, todo)
<1>1. CASE todo = {}
  BY <1>1, AnsweredBecomes DEF ThenDelete
<1>2. CASE todo # {}
  <2>1. Set(r, [IdleRequest EXCEPT !.pc = "delete", !.upload = Of(r), !.todo = todo])
    BY <1>2 DEF ThenDelete
  <2>2. IsRequest([IdleRequest EXCEPT !.pc = "delete", !.upload = Of(r), !.todo = todo],
      "delete", Of(r), NoRef, "idle", {}, todo)
    BY IdleRequestType, RequestType DEF IsRequest, Request, RequestPc
  <2> QED
    BY <1>2, <2>1, <2>2, SetBecomes
<1> QED
  BY <1>1, <1>2

LEMMA RecoverBecomes ==
  ASSUME TypeInv, NEW r \in Requests, Recover(r)
  PROVE  Becomes(r, "refinalize", Of(r), requests[r].ref, requests[r].next,
                           ChunksOf(Of(r).page), requests[r].todo)
<1> DEFINE list == ChunksOf(Of(r).page)
<1>1. Set(r, [requests[r] EXCEPT !.pc = "refinalize", !.list = list])
  BY DEF Recover
<1>2. list \in SUBSET ChunkRow
  BY DEF TypeInv, TypeOK, ChunksOf
<1> HIDE DEF list
<1>3. IsRequest([requests[r] EXCEPT !.pc = "refinalize", !.list = list],
    "refinalize", Of(r), requests[r].ref, requests[r].next, list, requests[r].todo)
  BY <1>2, RequestType DEF IsRequest, Request, RequestPc
<1>5. Becomes(r, "refinalize", Of(r), requests[r].ref, requests[r].next, list, requests[r].todo)
  BY <1>1, <1>3, SetBecomes
<1> QED
  BY <1>5 DEF list

-----------------------------------------------------------------------------
(* The five kinds of steps of a request.                                   *)

\* A chunk row is stored; a page row is stored; the page turns out to have one
\* already; an object is written.
Stores(r) == Save(r) /\ Disposition(Of(r)) = "Stored"
Completes(r) == Finalize(r) /\ pages[Of(r).page] = NoPage
Repeats(r) == Finalize(r) /\ pages[Of(r).page] # NoPage
Writes(r) == Assemble(r) \/ \E u \in Uploads : Arrive(r, u)

\* Any other step.
Proceeds(r) ==
  \/ Save(r) /\ Disposition(Of(r)) # "Stored"
  \/ Discard(r) \/ List(r) \/ HashMismatch(r) \/ ChunkObjectMissing(r)
  \/ Recover(r) \/ Refinalize(r) \/ DeleteObjects(r) \/ RequestEnds(r)

\* The request r holds nothing new but chunk rows.
Narrows(r) ==
  /\ Others(r)
  /\ requests' \in [Requests -> Request]
  /\ requests'[r].ref \in {NoRef, requests[r].ref}
  /\ requests'[r].todo \subseteq requests[r].todo
  /\ requests'[r].list \subseteq requests[r].list \cup chunks

LEMMA StepKinds ==
  ASSUME Next
  PROVE  \/ \E r \in Requests : Stores(r) \/ Completes(r) \/ Repeats(r) \/ Writes(r) \/ Proceeds(r)
         \/ TimePasses
         \/ \E o \in Refs : Expire(o)
BY DEF Next, RequestStep, Stores, Completes, Repeats, Writes, Proceeds

\* The declared version of a complete list is the version of all of its rows.
LEMMA DeclaredVersion ==
  ASSUME TypeInv, NEW r \in Requests, ListHolds(r), requests[r].pc \in Listing
  PROVE  /\ Declared(r) \in Versions
         /\ requests[r].list # {}
         /\ \A c \in requests[r].list : c.upload.version = Declared(r)
<1>1. PICK c \in requests[r].list : c.upload.index = 0
  <2>1. ChunkCount[Of(r).page] \in Nat \ {0}
    BY RequestType, ChunkCountAssumption
  <2> QED
    BY <2>1 DEF ListHolds
<1> DEFINE d == CHOOSE d \in requests[r].list : d.upload.index = 0
<1>2. d \in requests[r].list
  BY <1>1
<1>3. d.upload.version \in Versions
  BY <1>2, RequestType, ChunkRowType
<1>4. Declared(r) = d.upload.version
  BY DEF Declared
<1>5. \A e \in requests[r].list : e.upload.version = d.upload.version
  BY <1>2 DEF ListHolds
<1> QED
  BY <1>1, <1>3, <1>4, <1>5

\* Finalizing a completed page once more changes no row.
LEMMA FinalizedAgain ==
  ASSUME TypeInv, RowsInv, NEW p \in Pages, pages[p] # NoPage, PageFinalized(p, pages)
  PROVE  UNCHANGED rows
<1> DEFINE complete == {q \in Pages : pages[q] # NoPage}
<1>1. chunks' = chunks /\ pages' = pages
  BY DEF RowsInv, CaptureMatchesPages, PageFinalized
<1>2. uploaded = Cardinality(complete) /\ (captured <=> complete # Pages)
  BY DEF RowsInv, CaptureMatchesPages
<1>3. Cardinality(complete) = Cardinality(Pages) => complete = Pages
  <2>1. complete \in SUBSET Pages
    OBVIOUS
  <2> QED
    BY <2>1, FS_Subset, PagesAssumption
<1>4. CASE captured
  <2>1. uploaded' = Cardinality(complete) /\ captured' = (Cardinality(complete) # Cardinality(Pages))
    BY <1>4 DEF PageFinalized
  <2>2. captured' = TRUE /\ captured = TRUE
    BY <1>2, <1>3, <1>4, <2>1 DEF TypeInv, TypeOK
  <2> QED
    BY <1>1, <1>2, <2>1, <2>2 DEF rows
<1>5. CASE ~captured
  BY <1>1, <1>5 DEF PageFinalized, rows
<1> QED
  BY <1>4, <1>5

LEMMA StoresEffect ==
  ASSUME TypeInv, NEW r \in Requests, Stores(r)
  PROVE  /\ requests[r].pc = "save"
         /\ pages[Of(r).page] = NoPage
         /\ \A c \in ChunksOf(Of(r).page) :
              c.upload.index # Of(r).index /\ c.upload.version = Of(r).version
         /\ chunks' = chunks \cup {[upload |-> Of(r), ref |-> requests[r].ref]}
         /\ UNCHANGED <<captured, uploaded, pages, disk, faults>>
         /\ Becomes(r, "list", Of(r), NoRef, requests[r].next, requests[r].list, requests[r].todo)
<1>1. Becomes(r, "list", Of(r), NoRef, requests[r].next, requests[r].list, requests[r].todo)
  BY SaveBecomes DEF Stores
<1>2. /\ requests[r].pc = "save"
      /\ chunks' = chunks \cup {[upload |-> Of(r), ref |-> requests[r].ref]}
      /\ UNCHANGED <<captured, uploaded, pages, disk, faults>>
  BY DEF Stores, Save
<1>3. /\ pages[Of(r).page] = NoPage
      /\ ~(\E c \in ChunksOf(Of(r).page) : c.upload.index = Of(r).index \/ c.upload.version # Of(r).version)
  BY DEF Stores, Disposition
<1> QED
  BY <1>1, <1>2, <1>3

LEMMA CompletesEffect ==
  ASSUME TypeInv, NEW r \in Requests, ListHolds(r), Completes(r)
  PROVE  LET p == Of(r).page
             row == [version |-> Declared(r), ref |-> requests[r].ref]
         IN
         /\ requests[r].pc = "finalize"
         /\ pages[p] = NoPage
         /\ captured
         /\ PageFinalized(p, [pages EXCEPT ![p] = row])
         /\ UNCHANGED <<disk, faults>>
         /\ Becomes(r, "delete", Of(r), NoRef, "idle", {}, ListedRefs(r))
<1>1. /\ requests[r].pc = "finalize" /\ pages[Of(r).page] = NoPage /\ captured
      /\ PageFinalized(Of(r).page, [pages EXCEPT ![Of(r).page] =
                                     [version |-> Declared(r), ref |-> requests[r].ref]])
      /\ ThenDelete(r, ListedRefs(r))
      /\ UNCHANGED <<disk, faults>>
  BY DEF Completes, Finalize
<1>2. ListedRefs(r) \in SUBSET Refs
  BY RequestType, ChunkRowType DEF ListedRefs
<1>3. ListedRefs(r) # {}
  BY <1>1, DeclaredVersion DEF ListedRefs, Listing
<1>4. Becomes(r, "delete", Of(r), NoRef, "idle", {}, ListedRefs(r))
  BY <1>1, <1>2, <1>3, ThenDeleteBecomes
<1> QED
  BY <1>1, <1>4

LEMMA RepeatsEffect ==
  ASSUME TypeInv, RowsInv, NEW r \in Requests, Holds(r), Repeats(r)
  PROVE  /\ requests[r].pc = "finalize"
         /\ pages[Of(r).page] # NoPage
         /\ UNCHANGED <<rows, disk, faults>>
         /\ Becomes(r, "delete", Of(r), NoRef, "idle", {}, {requests[r].ref} \cup ListedRefs(r))
<1>1. /\ requests[r].pc = "finalize" /\ pages[Of(r).page] # NoPage
      /\ PageFinalized(Of(r).page, pages)
      /\ ThenDelete(r, {requests[r].ref} \cup ListedRefs(r))
      /\ UNCHANGED <<disk, faults>>
  BY DEF Repeats, Finalize
<1>2. {requests[r].ref} \cup ListedRefs(r) \in SUBSET Refs
  <2>1. requests[r].ref \in Refs
    BY <1>1, RequestType DEF Holds, Writing
  <2> QED
    BY <2>1, RequestType, ChunkRowType DEF ListedRefs
<1>3. Becomes(r, "delete", Of(r), NoRef, "idle", {}, {requests[r].ref} \cup ListedRefs(r))
  BY <1>1, <1>2, ThenDeleteBecomes
<1>4. UNCHANGED rows
  BY <1>1, RequestType, FinalizedAgain
<1> QED
  BY <1>1, <1>3, <1>4

LEMMA WritesEffect ==
  ASSUME TypeInv, NEW r \in Requests, Holds(r), Writes(r)
  PROVE  /\ UNCHANGED <<rows, faults>>
         /\ requests[r].ref = NoRef /\ requests[r].todo = {}
         /\ \E o \in Refs :
              /\ Write(o)
              /\ \/ \E u \in Uploads : Becomes(r, "save", u, o, "idle", {}, {})
                 \/ /\ requests[r].pc = "assemble"
                    /\ Becomes(r, "finalize", Of(r), o, requests[r].next, requests[r].list, {})
<1>1. CASE Assemble(r)
  <2>1. requests[r].pc = "assemble" /\ UNCHANGED <<rows, faults>>
    BY <1>1 DEF Assemble
  <2>2. requests[r].ref = NoRef /\ requests[r].todo = {}
    BY <2>1 DEF Holds, Writing
  <2> QED
    BY <1>1, <2>1, <2>2, AssembleBecomes
<1>2. CASE \E u \in Uploads : Arrive(r, u)
  <2>1. requests[r].pc = "idle" /\ UNCHANGED <<rows, faults>>
    BY <1>2 DEF Arrive
  <2>2. requests[r].ref = NoRef /\ requests[r].todo = {}
    BY <2>1 DEF Holds, Writing
  <2> QED
    BY <1>2, <2>1, <2>2, ArriveBecomes
<1> QED
  BY <1>1, <1>2 DEF Writes

\* The rows of a page by their indexes, which are distinct and below the count.
ChunkIndex(p) == [c \in ChunksOf(p) |-> c.upload.index]

LEMMA IndexesApart ==
  ASSUME TypeInv, RowsInv, NEW p \in Pages
  PROVE  /\ ChunkIndex(p) \in Injection(ChunksOf(p), 0 .. (ChunkCount[p] - 1))
         /\ ChunkCount[p] \in Nat \ {0}
         /\ ChunksOf(p) \subseteq ChunkRow
<1> DEFINE list == ChunksOf(p)
           last == ChunkCount[p] - 1
           index == ChunkIndex(p)
<1>1. ChunkCount[p] \in Nat \ {0}
  BY ChunkCountAssumption
<1>2. \A c \in list : c \in chunks /\ c \in ChunkRow /\ c.upload.page = p
  BY DEF ChunksOf, TypeInv, TypeOK
<1>3. \A c \in list : c.upload.index \in 0 .. last
  BY <1>1, <1>2, ChunkRowType
<1>4. \A c, d \in list : c.upload.index = d.upload.index => c = d
  BY <1>2 DEF RowsInv, NotMixed
<1> HIDE DEF last
<1>5. index \in [list -> 0 .. last]
  BY <1>3 DEF ChunkIndex
<1>6. \A c, d \in list : index[c] = index[d] => c = d
  BY <1>4 DEF ChunkIndex
<1>7. index \in Injection(list, 0 .. last)
  BY <1>5, <1>6 DEF Injection, IsInjective
<1> QED
  BY <1>1, <1>2, <1>7 DEF last

\* Chunk rows of a page that are as many as its chunks are all of its chunks, and
\* the page is still open.
LEMMA CountedListIsComplete ==
  ASSUME TypeInv, RowsInv, NEW p \in Pages, Cardinality(ChunksOf(p)) = ChunkCount[p]
  PROVE  /\ \A i \in 0 .. (ChunkCount[p] - 1) : \E c \in ChunksOf(p) : c.upload.index = i
         /\ pages[p] = NoPage
<1> DEFINE list == ChunksOf(p)
           last == ChunkCount[p] - 1
           index == ChunkIndex(p)
<1>1. ChunkCount[p] \in Nat \ {0}
  BY IndexesApart
<1>2. index \in Injection(list, 0 .. last)
  BY IndexesApart
<1>3. IsFiniteSet(0 .. last) /\ Cardinality(0 .. last) = ChunkCount[p]
  BY <1>1, FS_Interval
<1>4. index \in Surjection(list, 0 .. last)
  <2> HIDE DEF index, last
  <2> QED
    BY <1>2, <1>3, FS_Injection
<1>5. \A i \in 0 .. last : \E c \in list : c.upload.index = i
  <2> HIDE DEF list, last
  <2>1. \A i \in 0 .. last : \E c \in list : index[c] = i
    <3> HIDE DEF index
    <3> QED
      BY <1>4 DEF Surjection
  <2> QED
    BY <2>1 DEF ChunkIndex, list
<1>6. pages[p] = NoPage
  <2>1. list # {}
    BY <1>1, <1>5
  <2> QED
    BY <2>1 DEF RowsInv, CaptureMatchesPages
<1> QED
  BY <1>5, <1>6

LEMMA BecomesNarrows ==
  ASSUME NEW r \in Requests, NEW pc, NEW upload, NEW ref, NEW next, NEW list, NEW todo,
         Becomes(r, pc, upload, ref, next, list, todo),
         ref \in {NoRef, requests[r].ref}, todo \subseteq requests[r].todo,
         list \subseteq requests[r].list \cup chunks
  PROVE  Narrows(r)
BY DEF Becomes, IsRequest, Narrows

\* A request that was answered, or failed, holds nothing.
LEMMA IdleHolds ==
  ASSUME NEW r \in Requests, BecomesIdle(r)
  PROVE  Narrows(r) /\ Holds(r)' /\ Recovers(r)' /\ ListHolds(r)'
<1>1. Becomes(r, "idle", IdleRequest.upload, NoRef, "idle", {}, {})
  BY DEF BecomesIdle
<1> HIDE DEF IdleRequest
<1>2. Narrows(r)
  BY <1>1, BecomesNarrows
<1>3. /\ requests'[r].pc = "idle" /\ requests'[r].ref = NoRef
      /\ requests'[r].todo = {} /\ requests'[r].list = {}
  BY <1>1 DEF Becomes, IsRequest
<1> QED
  BY <1>2, <1>3 DEF Holds, Recovers, ListHolds, Writing, Listing

\* A request that proceeds keeps what requests hold, and changes no row.
LEMMA ProceedsEffect ==
  ASSUME TypeInv, RowsInv, NEW r \in Requests, Holds(r), Recovers(r), ListHolds(r), Proceeds(r)
  PROVE  UNCHANGED rows /\ Narrows(r) /\ Holds(r)' /\ Recovers(r)' /\ ListHolds(r)'
<1> USE DEF Writing, Listing
<1>1. CASE Save(r) /\ Disposition(Of(r)) # "Stored"
  <2> DEFINE next == AfterDiscard(Disposition(Of(r)))
  <2>1. Becomes(r, "discard", Of(r), requests[r].ref, next, requests[r].list, requests[r].todo)
    BY <1>1, SaveBecomes
  <2>2. UNCHANGED rows /\ requests[r].pc = "save"
    BY <1>1 DEF Save, rows
  <2>3. next \in {"idle", "list", "recover"}
    BY DEF AfterDiscard
  <2>4. next = "recover" => pages[Of(r).page] # NoPage
    BY DEF AfterDiscard, Disposition
  <2> HIDE DEF next
  <2>5. Narrows(r)
    BY <2>1, BecomesNarrows
  <2>6. /\ requests'[r].pc = "discard" /\ requests'[r].next = next /\ Of(r)' = Of(r)
        /\ requests'[r].ref = requests[r].ref /\ requests'[r].list = requests[r].list
        /\ requests'[r].todo = requests[r].todo
    BY <2>1 DEF Becomes, IsRequest, Of
  <2> QED
    BY <2>2, <2>3, <2>4, <2>5, <2>6 DEF Holds, Recovers, ListHolds, rows
<1>2. CASE Discard(r)
  <2>1. UNCHANGED rows /\ requests[r].pc = "discard"
    BY <1>2 DEF Discard
  <2>2. CASE requests[r].next = "idle"
    BY <1>2, <2>1, <2>2, DiscardBecomes, IdleHolds
  <2>3. CASE requests[r].next # "idle"
    <3>1. Becomes(r, requests[r].next, Of(r), NoRef, "idle", requests[r].list, requests[r].todo)
      BY <1>2, <2>3, DiscardBecomes
    <3>2. requests[r].next \in {"list", "recover"}
      BY <2>1, <2>3 DEF Holds
    <3>3. Narrows(r)
      BY <3>1, BecomesNarrows
    <3>4. /\ requests'[r].pc = requests[r].next /\ Of(r)' = Of(r) /\ requests'[r].ref = NoRef
          /\ requests'[r].list = requests[r].list /\ requests'[r].todo = requests[r].todo
      BY <3>1 DEF Becomes, IsRequest, Of
    <3> QED
      BY <2>1, <3>2, <3>3, <3>4 DEF Holds, Recovers, ListHolds, rows
  <2> QED
    BY <2>2, <2>3
<1>3. CASE List(r)
  <2>1. UNCHANGED rows /\ requests[r].pc = "list"
    BY <1>3 DEF List
  <2>2. CASE Cardinality(ChunksOf(Of(r).page)) = ChunkCount[Of(r).page]
    <3>1. Becomes(r, "assemble", Of(r), requests[r].ref, requests[r].next, ChunksOf(Of(r).page), requests[r].todo)
      BY <1>3, <2>2, ListBecomes
    <3>2. Narrows(r)
      BY <3>1, BecomesNarrows DEF ChunksOf
    <3>3. /\ requests'[r].pc = "assemble" /\ Of(r)' = Of(r) /\ requests'[r].ref = requests[r].ref
          /\ requests'[r].list = ChunksOf(Of(r).page) /\ requests'[r].todo = requests[r].todo
      BY <3>1 DEF Becomes, IsRequest, Of
    <3>4. Holds(r)' /\ Recovers(r)'
      BY <2>1, <3>3 DEF Holds, Recovers
    <3>5. /\ \A i \in 0 .. (ChunkCount[Of(r).page] - 1) : \E c \in ChunksOf(Of(r).page) : c.upload.index = i
          /\ pages[Of(r).page] = NoPage
      BY <2>2, RequestType, CountedListIsComplete
    <3>6. \A c, d \in ChunksOf(Of(r).page) : c.upload.page = Of(r).page /\ c.upload.version = d.upload.version
      BY DEF ChunksOf, RowsInv, NotMixed
    <3>7. ChunksOf(Of(r).page)' = ChunksOf(Of(r).page)
      BY <2>1, <3>3 DEF ChunksOf, rows
    <3>8. ListHolds(r)'
      BY <2>1, <3>3, <3>5, <3>6, <3>7 DEF ListHolds, rows
    <3> QED
      BY <2>1, <3>2, <3>4, <3>8
  <2>3. CASE Cardinality(ChunksOf(Of(r).page)) # ChunkCount[Of(r).page]
    BY <1>3, <2>1, <2>3, ListBecomes, IdleHolds
  <2> QED
    BY <2>2, <2>3
<1>4. CASE HashMismatch(r)
  BY <1>4, AnsweredBecomes, IdleHolds DEF HashMismatch
<1>5. CASE ChunkObjectMissing(r)
  <2>1. UNCHANGED rows /\ requests[r].pc = "assemble"
    BY <1>5 DEF ChunkObjectMissing
  <2>2. CASE pages[Of(r).page].version = Declared(r)
    <3>1. Becomes(r, "recover", Of(r), requests[r].ref, requests[r].next, {}, requests[r].todo)
      BY <1>5, <2>2, ChunkObjectMissingBecomes
    <3>2. pages[Of(r).page] # NoPage
      BY <2>1, <2>2, DeclaredVersion, VersionsAssumption DEF NoPage
    <3>3. Narrows(r)
      BY <3>1, BecomesNarrows
    <3>4. /\ requests'[r].pc = "recover" /\ Of(r)' = Of(r) /\ requests'[r].ref = requests[r].ref
          /\ requests'[r].list = {} /\ requests'[r].todo = requests[r].todo
      BY <3>1 DEF Becomes, IsRequest, Of
    <3> QED
      BY <2>1, <3>2, <3>3, <3>4 DEF Holds, Recovers, ListHolds, rows
  <2>3. CASE pages[Of(r).page].version # Declared(r)
    BY <1>5, <2>1, <2>3, ChunkObjectMissingBecomes, IdleHolds
  <2> QED
    BY <2>2, <2>3
<1>6. CASE Recover(r)
  <2>1. UNCHANGED rows /\ requests[r].pc = "recover" /\ pages[Of(r).page] # NoPage
    BY <1>6 DEF Recover
  <2>2. ChunksOf(Of(r).page) = {}
    BY <2>1, RequestType DEF RowsInv, CaptureMatchesPages
  <2>3. Becomes(r, "refinalize", Of(r), requests[r].ref, requests[r].next, {}, requests[r].todo)
    BY <1>6, <2>2, RecoverBecomes
  <2>4. Narrows(r)
    BY <2>3, BecomesNarrows
  <2>5. /\ requests'[r].pc = "refinalize" /\ Of(r)' = Of(r) /\ requests'[r].ref = requests[r].ref
        /\ requests'[r].list = {} /\ requests'[r].todo = requests[r].todo
    BY <2>3 DEF Becomes, IsRequest, Of
  <2> QED
    BY <2>1, <2>4, <2>5 DEF Holds, Recovers, ListHolds, rows
<1>7. CASE Refinalize(r)
  <2>1. requests[r].pc = "refinalize" /\ PageFinalized(Of(r).page, pages) /\ ThenDelete(r, ListedRefs(r))
    BY <1>7 DEF Refinalize
  <2>2. requests[r].list = {} /\ pages[Of(r).page] # NoPage
    BY <2>1 DEF Holds, Recovers
  <2>3. ListedRefs(r) = {}
    BY <2>2 DEF ListedRefs
  <2>4. BecomesIdle(r)
    BY <2>1, <2>3, AnsweredBecomes DEF ThenDelete
  <2>5. UNCHANGED rows
    BY <2>1, <2>2, RequestType, FinalizedAgain
  <2> QED
    BY <2>4, <2>5, IdleHolds
<1>8. CASE DeleteObjects(r)
  BY <1>8, AnsweredBecomes, IdleHolds DEF DeleteObjects
<1>9. CASE RequestEnds(r)
  BY <1>9, AnsweredBecomes, IdleHolds DEF RequestEnds
<1> QED
  BY <1>1, <1>2, <1>3, <1>4, <1>5, <1>6, <1>7, <1>8, <1>9 DEF Proceeds

-----------------------------------------------------------------------------
(* The rows.                                                               *)

\* What completing a page makes of the rows.
LEMMA CompletesRows ==
  ASSUME TypeInv, RowsInv, NEW r \in Requests, ListHolds(r), Holds(r), Completes(r)
  PROVE  LET p == Of(r).page IN
         /\ chunks' = chunks \ ChunksOf(p)
         /\ pages' \in [Pages -> PageRow]
         /\ pages'[p] = [version |-> Declared(r), ref |-> requests[r].ref]
         /\ Declared(r) \in Versions /\ requests[r].ref \in Refs
         /\ \A q \in Pages : q # p => pages'[q] = pages[q]
         /\ uploaded' = Cardinality({q \in Pages : pages'[q] # NoPage})
         /\ uploaded' \in Nat
         /\ captured' = ({q \in Pages : pages'[q] # NoPage} # Pages)
<1> DEFINE p == Of(r).page
           row == [version |-> Declared(r), ref |-> requests[r].ref]
           rowsOfPages == [pages EXCEPT ![p] = row]
           complete == {q \in Pages : rowsOfPages[q] # NoPage}
<1>1. requests[r].pc = "finalize" /\ captured /\ PageFinalized(p, rowsOfPages)
  BY CompletesEffect
<1>2. Declared(r) \in Versions /\ requests[r].ref \in Refs
  BY <1>1, DeclaredVersion, RequestType DEF Listing, Holds, Writing
<1>3. row \in PageRow
  BY <1>2 DEF PageRow
<1>4. p \in Pages /\ pages \in [Pages -> PageRow]
  BY RequestType DEF TypeInv, TypeOK
<1>5. /\ rowsOfPages \in [Pages -> PageRow]
      /\ rowsOfPages[p] = row
      /\ \A q \in Pages : q # p => rowsOfPages[q] = pages[q]
  <2> HIDE DEF row, p
  <2> QED
    BY <1>3, <1>4
<1>6. /\ pages' = rowsOfPages
      /\ chunks' = chunks \ ChunksOf(p)
      /\ uploaded' = Cardinality(complete)
      /\ captured' = (Cardinality(complete) # Cardinality(Pages))
  <2> HIDE DEF rowsOfPages
  <2> QED
    BY <1>1 DEF PageFinalized
<1>7. /\ Cardinality(complete) \in Nat
      /\ Cardinality(complete) = Cardinality(Pages) <=> complete = Pages
  <2>1. complete \in SUBSET Pages
    OBVIOUS
  <2> HIDE DEF complete
  <2>2. IsFiniteSet(complete)
    BY <2>1, FS_Subset, PagesAssumption
  <2> QED
    BY <2>1, <2>2, FS_Subset, FS_CardinalityType, PagesAssumption
<1> HIDE DEF rowsOfPages
<1> QED
  BY <1>2, <1>5, <1>6, <1>7

LEMMA RowsStep ==
  ASSUME IInv, [Next]_vars
  PROVE  RowsInv'
<1> USE DEF IInv, RequestsInv
<1>1. CASE UNCHANGED rows
  BY <1>1 DEF RowsInv, CaptureMatchesPages, PagesTyped, NotMixed, ChunksOf, rows
<1>2. ASSUME NEW r \in Requests, Stores(r)
      PROVE  RowsInv'
  <2> DEFINE row == [upload |-> Of(r), ref |-> requests[r].ref]
  <2>1. /\ pages[Of(r).page] = NoPage
        /\ \A c \in ChunksOf(Of(r).page) :
             c.upload.index # Of(r).index /\ c.upload.version = Of(r).version
        /\ chunks' = chunks \cup {row}
        /\ UNCHANGED <<captured, uploaded, pages>>
    BY <1>2, StoresEffect
  <2>2. row.upload = Of(r)
    OBVIOUS
  <2> HIDE DEF row
  <2>3. CaptureMatchesPages'
    BY <2>1, <2>2 DEF RowsInv, CaptureMatchesPages, ChunksOf
  <2>4. NotMixed'
    BY <2>1, <2>2 DEF RowsInv, NotMixed, ChunksOf
  <2> QED
    BY <2>1, <2>3, <2>4 DEF RowsInv, PagesTyped
<1>3. ASSUME NEW r \in Requests, Completes(r)
      PROVE  RowsInv'
  <2> DEFINE p == Of(r).page
  <2>1. /\ chunks' = chunks \ ChunksOf(p)
        /\ pages'[p] = [version |-> Declared(r), ref |-> requests[r].ref]
        /\ Declared(r) \in Versions
        /\ \A q \in Pages : q # p => pages'[q] = pages[q]
        /\ uploaded' = Cardinality({q \in Pages : pages'[q] # NoPage})
        /\ captured' = ({q \in Pages : pages'[q] # NoPage} # Pages)
    BY <1>3, CompletesRows
  <2>2. p \in Pages
    BY RequestType
  <2> HIDE DEF p
  <2>3. CaptureMatchesPages'
    <3>1. \A q \in Pages : pages'[q] # NoPage => {c \in chunks' : c.upload.page = q} = {}
      BY <2>1, <2>2 DEF RowsInv, CaptureMatchesPages, ChunksOf
    <3> QED
      BY <2>1, <3>1 DEF CaptureMatchesPages, ChunksOf
  <2>4. PagesTyped'
    <3>1. pages'[p].version = Declared(r)
      BY <2>1
    <3> QED
      BY <2>1, <2>2, <3>1 DEF RowsInv, PagesTyped
  <2>5. NotMixed'
    BY <2>1 DEF RowsInv, NotMixed
  <2> QED
    BY <2>3, <2>4, <2>5 DEF RowsInv
<1>4. ASSUME NEW r \in Requests, Repeats(r) \/ Writes(r) \/ Proceeds(r)
      PROVE  UNCHANGED rows
  BY <1>4, RepeatsEffect, WritesEffect, ProceedsEffect
<1>5. TimePasses \/ (\E o \in Refs : Expire(o)) \/ UNCHANGED vars => UNCHANGED rows
  BY DEF TimePasses, Expire, vars
<1> QED
  BY <1>1, <1>2, <1>3, <1>4, <1>5, StepKinds

\* A page that has a row keeps its content for good.
LEMMA PagesStay ==
  ASSUME IInv, [Next]_vars
  PROVE  \A q \in Pages : pages[q] # NoPage => pages'[q] = pages[q]
<1> USE DEF IInv, RequestsInv
<1>1. ASSUME NEW r \in Requests, Completes(r)
      PROVE  \A q \in Pages : pages[q] # NoPage => pages'[q] = pages[q]
  BY <1>1, CompletesRows, CompletesEffect
<1>2. ASSUME NEW r \in Requests, Stores(r) \/ Repeats(r) \/ Writes(r) \/ Proceeds(r)
      PROVE  UNCHANGED pages
  BY <1>2, StoresEffect, RepeatsEffect, WritesEffect, ProceedsEffect DEF rows
<1>3. TimePasses \/ (\E o \in Refs : Expire(o)) \/ UNCHANGED vars => UNCHANGED pages
  BY DEF TimePasses, Expire, vars, rows
<1> QED
  BY <1>1, <1>2, <1>3, StepKinds

-----------------------------------------------------------------------------
(* What requests hold.                                                     *)

\* A request that takes no step keeps what it holds while its page keeps its rows.
LEMMA BystanderHolds ==
  ASSUME IInv, [Next]_vars, NEW s \in Requests, requests'[s] = requests[s]
  PROVE  /\ Holds(s)'
         /\ Recovers(s)'
         /\ /\ requests[s].pc \in Listing => ChunksOf(Of(s).page)' = ChunksOf(Of(s).page)
            /\ requests[s].pc \in Listing => pages'[Of(s).page] = pages[Of(s).page]
            => ListHolds(s)'
<1>1. Holds(s)'
  BY DEF IInv, RequestsInv, Holds
<1>2. Of(s)' = Of(s) /\ Of(s).page \in Pages
  BY RequestType DEF IInv, Of
<1>3. Recovers(s)'
  BY <1>2, PagesStay DEF IInv, RequestsInv, Recovers
<1>4. ASSUME requests[s].pc \in Listing => ChunksOf(Of(s).page)' = ChunksOf(Of(s).page),
             requests[s].pc \in Listing => pages'[Of(s).page] = pages[Of(s).page]
      PROVE  ListHolds(s)'
  BY <1>2, <1>4 DEF IInv, RequestsInv, ListHolds
<1> QED
  BY <1>1, <1>3, <1>4

LEMMA RequestsStep ==
  ASSUME IInv, [Next]_vars
  PROVE  RequestsInv'
<1> USE DEF IInv
<1>1. ASSUME NEW r \in Requests, Stores(r)
      PROVE  RequestsInv'
  <2> SUFFICES ASSUME NEW s \in Requests
               PROVE  Holds(s)' /\ Recovers(s)' /\ ListHolds(s)'
    BY DEF RequestsInv
  <2> DEFINE row == [upload |-> Of(r), ref |-> requests[r].ref]
             p == Of(r).page
  <2>1. /\ requests[r].pc = "save" /\ pages[p] = NoPage
        /\ \A c \in ChunksOf(p) : c.upload.index # Of(r).index
        /\ chunks' = chunks \cup {row} /\ pages' = pages
        /\ Becomes(r, "list", Of(r), NoRef, requests[r].next, requests[r].list, requests[r].todo)
    BY <1>1, StoresEffect
  <2>2. CASE s = r
    <3>1. /\ requests'[s].pc = "list" /\ requests'[s].ref = NoRef /\ Of(s)' = Of(s)
          /\ requests'[s].list = requests[s].list /\ requests'[s].todo = requests[s].todo
      BY <2>1, <2>2 DEF Becomes, IsRequest, Of
    <3> QED
      BY <2>1, <2>2, <3>1 DEF RequestsInv, Holds, Recovers, ListHolds, Writing, Listing
  <2>3. CASE s # r
    <3>1. requests'[s] = requests[s]
      BY <2>1, <2>3 DEF Becomes, Others
    <3>2. ASSUME requests[s].pc \in Listing
          PROVE  Of(s).page # p
      <4>1. CASE Of(s).page = p
        <5>1. requests[s].list = ChunksOf(p)
          BY <2>1, <3>2, <4>1 DEF RequestsInv, ListHolds
        <5>2. Of(r).index \in 0 .. (ChunkCount[p] - 1)
          BY RequestType, UploadType, ChunkCountAssumption
        <5>3. \E c \in ChunksOf(p) : c.upload.index = Of(r).index
          BY <3>2, <4>1, <5>1, <5>2 DEF RequestsInv, ListHolds
        <5> QED
          BY <2>1, <5>3
      <4> QED
        BY <4>1
    <3>3. ASSUME requests[s].pc \in Listing
          PROVE  ChunksOf(Of(s).page)' = ChunksOf(Of(s).page)
      <4>1. Of(s)' = Of(s)
        BY <3>1 DEF Of
      <4>2. row.upload.page # Of(s).page
        BY <3>2, <3>3
      <4> HIDE DEF row
      <4> QED
        BY <2>1, <4>1, <4>2 DEF ChunksOf
    <3> QED
      BY <2>1, <3>1, <3>3, BystanderHolds
  <2> QED
    BY <2>2, <2>3
<1>2. ASSUME NEW r \in Requests, Completes(r)
      PROVE  RequestsInv'
  <2> SUFFICES ASSUME NEW s \in Requests
               PROVE  Holds(s)' /\ Recovers(s)' /\ ListHolds(s)'
    BY DEF RequestsInv
  <2> DEFINE p == Of(r).page
  <2>1. /\ requests[r].pc = "finalize" /\ pages[p] = NoPage
        /\ Becomes(r, "delete", Of(r), NoRef, "idle", {}, ListedRefs(r))
    BY <1>2, CompletesEffect DEF RequestsInv
  <2>2. /\ chunks' = chunks \ ChunksOf(p)
        /\ pages'[p] = [version |-> Declared(r), ref |-> requests[r].ref]
        /\ \A q \in Pages : q # p => pages'[q] = pages[q]
    BY <1>2, CompletesRows DEF RequestsInv
  <2>3. CASE s = r
    <3>1. requests'[s].pc = "delete" /\ requests'[s].ref = NoRef /\ requests'[s].list = {}
      BY <2>1, <2>3 DEF Becomes, IsRequest
    <3> QED
      BY <3>1 DEF Holds, Recovers, ListHolds, Writing, Listing
  <2>4. CASE s # r
    <3>1. requests'[s] = requests[s] /\ Of(s)' = Of(s) /\ Of(s).page \in Pages
      BY <2>1, <2>4, RequestType DEF Becomes, Others, Of
    <3>2. CASE Of(s).page # p
      <4>1. ChunksOf(Of(s).page)' = ChunksOf(Of(s).page) /\ pages'[Of(s).page] = pages[Of(s).page]
        BY <2>2, <3>1, <3>2 DEF ChunksOf
      <4> QED
        BY <3>1, <4>1, BystanderHolds
    <3>3. CASE Of(s).page = p
      <4>1. Holds(s)' /\ Recovers(s)'
        BY <3>1, BystanderHolds
      <4>2. ASSUME requests[s].pc \in Listing
            PROVE  /\ pages'[p] # NoPage
                   /\ \A c \in requests[s].list : pages'[p].version = c.upload.version
        <5>1. requests[s].list = requests[r].list
          BY <2>1, <3>3, <4>2 DEF RequestsInv, ListHolds, Listing
        <5>2. /\ Declared(r) \in Versions
              /\ \A c \in requests[r].list : c.upload.version = Declared(r)
          BY <2>1, DeclaredVersion DEF RequestsInv, Listing
        <5>3. pages'[p].version = Declared(r)
          BY <2>2
        <5> QED
          BY <5>1, <5>2, <5>3, VersionsAssumption DEF NoPage
      <4>3. ListHolds(s)'
        BY <3>1, <3>3, <4>2 DEF RequestsInv, ListHolds
      <4> QED
        BY <4>1, <4>3
    <3> QED
      BY <3>2, <3>3
  <2> QED
    BY <2>3, <2>4
<1>3. ASSUME NEW r \in Requests, UNCHANGED rows, Others(r), Holds(r)', Recovers(r)', ListHolds(r)'
      PROVE  RequestsInv'
  <2>1. ASSUME NEW s \in Requests, s # r
        PROVE  Holds(s)' /\ Recovers(s)' /\ ListHolds(s)'
    <3>1. requests'[s] = requests[s] /\ Of(s)' = Of(s)
      BY <1>3, <2>1 DEF Others, Of
    <3>2. ChunksOf(Of(s).page)' = ChunksOf(Of(s).page) /\ pages'[Of(s).page] = pages[Of(s).page]
      BY <1>3, <3>1 DEF ChunksOf, rows
    <3> QED
      BY <3>1, <3>2, BystanderHolds
  <2> QED
    BY <1>3, <2>1 DEF RequestsInv
<1>4. ASSUME NEW r \in Requests, Repeats(r)
      PROVE  RequestsInv'
  <2>1. UNCHANGED rows /\ Becomes(r, "delete", Of(r), NoRef, "idle", {}, {requests[r].ref} \cup ListedRefs(r))
    BY <1>4, RepeatsEffect DEF RequestsInv
  <2>2. requests'[r].pc = "delete" /\ requests'[r].ref = NoRef /\ requests'[r].list = {} /\ Others(r)
    BY <2>1 DEF Becomes, IsRequest
  <2>3. Holds(r)' /\ Recovers(r)' /\ ListHolds(r)'
    BY <2>2 DEF Holds, Recovers, ListHolds, Writing, Listing
  <2> QED
    BY <1>3, <2>1, <2>2, <2>3
<1>5. ASSUME NEW r \in Requests, Writes(r)
      PROVE  RequestsInv'
  <2>1. PICK o \in Refs :
          \/ \E u \in Uploads : Becomes(r, "save", u, o, "idle", {}, {})
          \/ /\ requests[r].pc = "assemble"
             /\ Becomes(r, "finalize", Of(r), o, requests[r].next, requests[r].list, {})
    BY <1>5, WritesEffect DEF RequestsInv
  <2>2. UNCHANGED rows /\ o # NoRef
    BY <1>5, WritesEffect, RefsAssumption DEF RequestsInv, NoRef
  <2>3. CASE \E u \in Uploads : Becomes(r, "save", u, o, "idle", {}, {})
    <3>1. /\ requests'[r].pc = "save" /\ requests'[r].ref = o /\ requests'[r].list = {}
          /\ requests'[r].todo = {} /\ Others(r)
      BY <2>3 DEF Becomes, IsRequest
    <3>2. Holds(r)' /\ Recovers(r)' /\ ListHolds(r)'
      BY <2>2, <3>1 DEF Holds, Recovers, ListHolds, Writing, Listing
    <3> QED
      BY <1>3, <2>2, <3>1, <3>2
  <2>4. CASE /\ requests[r].pc = "assemble"
             /\ Becomes(r, "finalize", Of(r), o, requests[r].next, requests[r].list, {})
    <3>1. /\ requests'[r].pc = "finalize" /\ requests'[r].ref = o /\ requests'[r].list = requests[r].list
          /\ requests'[r].todo = {} /\ Of(r)' = Of(r) /\ Others(r)
      BY <2>4 DEF Becomes, IsRequest, Of
    <3>2. Holds(r)' /\ Recovers(r)'
      BY <2>2, <3>1 DEF Holds, Recovers, Writing, Listing
    <3>3. ChunksOf(Of(r).page)' = ChunksOf(Of(r).page) /\ pages' = pages
      BY <2>2, <3>1 DEF ChunksOf, rows
    <3>4. ListHolds(r)'
      BY <2>4, <3>1, <3>3 DEF RequestsInv, ListHolds, Listing
    <3> QED
      BY <1>3, <2>2, <3>1, <3>2, <3>4
  <2> QED
    BY <2>1, <2>3, <2>4
<1>6. ASSUME NEW r \in Requests, Proceeds(r)
      PROVE  RequestsInv'
  BY <1>3, <1>6, ProceedsEffect DEF RequestsInv, Narrows
<1>7. CASE TimePasses \/ (\E o \in Refs : Expire(o)) \/ UNCHANGED vars
  <2>1. UNCHANGED <<rows, requests>>
    BY <1>7 DEF TimePasses, Expire, vars
  <2> QED
    BY <2>1 DEF RequestsInv, Holds, Recovers, ListHolds, ChunksOf, Of, rows
<1> QED
  BY <1>1, <1>2, <1>4, <1>5, <1>6, <1>7, StepKinds

-----------------------------------------------------------------------------
(* The references.                                                         *)

LEMMA RefsNarrow ==
  ASSUME RefsInv, UNCHANGED rows, NEW r \in Requests, Narrows(r)
  PROVE  RefsInv'
<1>1. chunks' = chunks /\ pages' = pages
  BY DEF rows
<1>2. \A s \in Requests :
        /\ requests'[s].ref \in {NoRef, requests[s].ref}
        /\ requests'[s].todo \subseteq requests[s].todo
        /\ requests'[s].list \subseteq requests[s].list \cup chunks
  BY DEF Narrows, Others
<1>3. RowRefsApart'
  BY <1>1 DEF RefsInv, RowRefsApart
<1>4. OwnRefsApart'
  <2> SUFFICES ASSUME NEW s \in Requests, requests'[s].ref # NoRef
               PROVE  /\ \A c \in chunks : c.ref # requests'[s].ref
                      /\ \A p \in Pages : pages[p].ref # requests'[s].ref
                      /\ \A t \in Requests :
                           /\ t # s => requests'[t].ref # requests'[s].ref
                           /\ requests'[s].ref \notin requests'[t].todo
                           /\ \A c \in requests'[t].list : c.ref # requests'[s].ref
    BY <1>1 DEF OwnRefsApart
  <2>1. requests'[s].ref = requests[s].ref
    BY <1>2
  <2> QED
    BY <1>2, <2>1 DEF RefsInv, OwnRefsApart
<1>5. ListedRefsApart'
  <2> SUFFICES ASSUME NEW s \in Requests, NEW c \in requests'[s].list
               PROVE  /\ \A d \in chunks : c.ref = d.ref => c = d
                      /\ \A p \in Pages : pages[p].ref # c.ref
    BY <1>1 DEF ListedRefsApart
  <2>1. c \in requests[s].list \/ c \in chunks
    BY <1>2
  <2> QED
    BY <2>1 DEF RefsInv, ListedRefsApart, RowRefsApart
<1>6. TodoRefsApart'
  BY <1>1, <1>2 DEF RefsInv, TodoRefsApart
<1> QED
  BY <1>3, <1>4, <1>5, <1>6 DEF RefsInv

\* A written object has a reference that nothing mentions.
LEMMA FreshReference ==
  ASSUME NEW o \in Refs, Write(o)
  PROVE  /\ o # NoRef /\ o \notin objects
         /\ \A c \in chunks : c.ref # o
         /\ \A p \in Pages : pages[p].ref # o
         /\ \A s \in Requests :
              /\ requests[s].ref # o /\ o \notin requests[s].todo
              /\ \A c \in requests[s].list : c.ref # o
<1>1. o \notin Mentioned
  BY DEF Write
<1>2. o # NoRef
  BY RefsAssumption DEF NoRef
<1> QED
  BY <1>1, <1>2 DEF Mentioned

LEMMA RefsStep ==
  ASSUME IInv, [Next]_vars
  PROVE  RefsInv'
<1> USE DEF IInv
<1>1. ASSUME NEW r \in Requests, Stores(r)
      PROVE  RefsInv'
  <2> DEFINE row == [upload |-> Of(r), ref |-> requests[r].ref]
  <2>1. /\ requests[r].pc = "save"
        /\ chunks' = chunks \cup {row} /\ pages' = pages
        /\ Becomes(r, "list", Of(r), NoRef, requests[r].next, requests[r].list, requests[r].todo)
    BY <1>1, StoresEffect
  <2>2. requests[r].ref # NoRef
    BY <2>1 DEF RequestsInv, Holds, Writing
  <2>3. row.ref = requests[r].ref
    OBVIOUS
  <2>4. requests'[r].ref = NoRef
    BY <2>1 DEF Becomes, IsRequest
  <2>5. \A s \in Requests :
          /\ s # r => requests'[s].ref = requests[s].ref
          /\ requests'[s].todo = requests[s].todo /\ requests'[s].list = requests[s].list
    BY <2>1 DEF Becomes, IsRequest, Others
  <2> HIDE DEF row
  <2>6. /\ \A c \in chunks : c.ref # row.ref
        /\ \A p \in Pages : pages[p].ref # row.ref
        /\ \A s \in Requests :
             /\ s # r => requests[s].ref # row.ref
             /\ row.ref \notin requests[s].todo
             /\ \A c \in requests[s].list : c.ref # row.ref
    BY <2>2, <2>3 DEF RefsInv, OwnRefsApart
  <2>7. RowRefsApart'
    BY <2>1, <2>6 DEF RefsInv, RowRefsApart
  <2>8. OwnRefsApart'
    BY <2>1, <2>4, <2>5, <2>6 DEF RefsInv, OwnRefsApart
  <2>9. ListedRefsApart'
    BY <2>1, <2>5, <2>6 DEF RefsInv, ListedRefsApart
  <2>10. TodoRefsApart'
    BY <2>1, <2>5, <2>6 DEF RefsInv, TodoRefsApart
  <2> QED
    BY <2>7, <2>8, <2>9, <2>10 DEF RefsInv
<1>2. ASSUME NEW r \in Requests, Completes(r)
      PROVE  RefsInv'
  <2> DEFINE p == Of(r).page
             own == requests[r].ref
  <2>1. /\ requests[r].pc = "finalize" /\ pages[p] = NoPage
        /\ Becomes(r, "delete", Of(r), NoRef, "idle", {}, ListedRefs(r))
    BY <1>2, CompletesEffect DEF RequestsInv
  <2>2. /\ chunks' = chunks \ ChunksOf(p)
        /\ pages'[p] = [version |-> Declared(r), ref |-> own]
        /\ \A q \in Pages : q # p => pages'[q] = pages[q]
    BY <1>2, CompletesRows DEF RequestsInv
  <2>3. pages'[p].ref = own /\ own # NoRef
    BY <2>1, <2>2 DEF RequestsInv, Holds, Writing
  <2>4. /\ \A c \in chunks : c.ref # own
        /\ \A q \in Pages : pages[q].ref # own
        /\ \A s \in Requests :
             /\ s # r => requests[s].ref # own
             /\ own \notin requests[s].todo
             /\ \A c \in requests[s].list : c.ref # own
    BY <2>3 DEF RefsInv, OwnRefsApart
  <2>5. /\ \A s \in Requests : s # r => requests'[s] = requests[s]
        /\ requests'[r].ref = NoRef /\ requests'[r].list = {} /\ requests'[r].todo = ListedRefs(r)
    BY <2>1 DEF Becomes, IsRequest, Others
  <2>6. requests[r].list = ChunksOf(p) /\ ListedRefs(r) = {c.ref : c \in ChunksOf(p)}
    BY <2>1 DEF RequestsInv, ListHolds, Listing, ListedRefs
  <2> HIDE DEF p, own
  <2>7. \A q \in Pages : pages'[q].ref \in {own, pages[q].ref}
    BY <2>2, <2>3
  <2>8. RowRefsApart'
    BY <2>2, <2>4, <2>7 DEF RefsInv, RowRefsApart
  <2>9. OwnRefsApart'
    <3> SUFFICES ASSUME NEW s \in Requests, requests'[s].ref # NoRef
                 PROVE  /\ \A c \in chunks' : c.ref # requests'[s].ref
                        /\ \A q \in Pages : pages'[q].ref # requests'[s].ref
                        /\ \A t \in Requests :
                             /\ t # s => requests'[t].ref # requests'[s].ref
                             /\ requests'[s].ref \notin requests'[t].todo
                             /\ \A c \in requests'[t].list : c.ref # requests'[s].ref
      BY DEF OwnRefsApart
    <3>1. s # r /\ requests'[s] = requests[s]
      BY <2>5
    <3>2. /\ \A c \in chunks : c.ref # requests[s].ref
          /\ \A q \in Pages : pages[q].ref # requests[s].ref
          /\ \A t \in Requests :
               /\ t # s => requests[t].ref # requests[s].ref
               /\ requests[s].ref \notin requests[t].todo
               /\ \A c \in requests[t].list : c.ref # requests[s].ref
      BY <3>1 DEF RefsInv, OwnRefsApart
    <3>3. requests[s].ref \notin ListedRefs(r)
      BY <3>2 DEF ListedRefs
    <3> QED
      BY <2>2, <2>4, <2>5, <2>7, <3>1, <3>2, <3>3
  <2>10. ListedRefsApart'
    BY <2>2, <2>4, <2>5, <2>7 DEF RefsInv, ListedRefsApart
  <2>11. TodoRefsApart'
    <3>1. \A c \in ChunksOf(p) : \A d \in chunks \ ChunksOf(p) : d.ref # c.ref
      BY DEF RefsInv, RowRefsApart, ChunksOf
    <3>2. \A c \in ChunksOf(p) : \A q \in Pages : pages'[q].ref # c.ref
      BY <2>4, <2>7 DEF RefsInv, RowRefsApart, ChunksOf
    <3>3. \A o \in requests'[r].todo :
            (\A c \in chunks' : c.ref # o) /\ (\A q \in Pages : pages'[q].ref # o)
      BY <2>2, <2>5, <2>6, <3>1, <3>2
    <3>4. \A s \in Requests : s # r => \A o \in requests'[s].todo :
            (\A c \in chunks' : c.ref # o) /\ (\A q \in Pages : pages'[q].ref # o)
      BY <2>2, <2>4, <2>5, <2>7 DEF RefsInv, TodoRefsApart
    <3> QED
      BY <3>3, <3>4 DEF TodoRefsApart
  <2> QED
    BY <2>8, <2>9, <2>10, <2>11 DEF RefsInv
<1>3. ASSUME NEW r \in Requests, Repeats(r)
      PROVE  RefsInv'
  <2> DEFINE p == Of(r).page
             own == requests[r].ref
             todo == {own} \cup ListedRefs(r)
  <2>1. /\ requests[r].pc = "finalize" /\ pages[p] # NoPage
        /\ UNCHANGED rows
        /\ Becomes(r, "delete", Of(r), NoRef, "idle", {}, todo)
    BY <1>3, RepeatsEffect DEF RequestsInv
  <2>2. own # NoRef /\ chunks' = chunks /\ pages' = pages
    BY <2>1 DEF RequestsInv, Holds, Writing, rows
  <2>3. /\ \A s \in Requests : s # r => requests'[s] = requests[s]
        /\ requests'[r].ref = NoRef /\ requests'[r].list = {} /\ requests'[r].todo = todo
    BY <2>1 DEF Becomes, IsRequest, Others
  <2>4. \A c \in requests[r].list : c \notin chunks
    <3>1. \A c \in requests[r].list : c.upload.page = p
      BY <2>1 DEF RequestsInv, ListHolds, Listing
    <3>2. ChunksOf(p) = {}
      BY <2>1, RequestType DEF RowsInv, CaptureMatchesPages
    <3> QED
      BY <3>1, <3>2 DEF ChunksOf
  <2>5. \A o \in todo : (\A c \in chunks : c.ref # o) /\ (\A q \in Pages : pages[q].ref # o)
    BY <2>2, <2>4 DEF RefsInv, OwnRefsApart, ListedRefsApart, ListedRefs
  <2>6. \A s \in Requests : s # r /\ requests[s].ref # NoRef => requests[s].ref \notin todo
    BY <2>2 DEF RefsInv, OwnRefsApart, ListedRefs
  <2> HIDE DEF todo, p, own
  <2>7. RowRefsApart'
    BY <2>2 DEF RefsInv, RowRefsApart
  <2>8. OwnRefsApart'
    BY <2>2, <2>3, <2>6 DEF RefsInv, OwnRefsApart
  <2>9. ListedRefsApart'
    BY <2>2, <2>3 DEF RefsInv, ListedRefsApart
  <2>10. TodoRefsApart'
    BY <2>2, <2>3, <2>5 DEF RefsInv, TodoRefsApart
  <2> QED
    BY <2>7, <2>8, <2>9, <2>10 DEF RefsInv
<1>4. ASSUME NEW r \in Requests, Writes(r)
      PROVE  RefsInv'
  <2>1. PICK o \in Refs :
          /\ Write(o)
          /\ \/ \E u \in Uploads : Becomes(r, "save", u, o, "idle", {}, {})
             \/ /\ requests[r].pc = "assemble"
                /\ Becomes(r, "finalize", Of(r), o, requests[r].next, requests[r].list, {})
    BY <1>4, WritesEffect DEF RequestsInv
  <2>2. chunks' = chunks /\ pages' = pages
    BY <1>4, WritesEffect DEF RequestsInv, rows
  <2>3. /\ \A s \in Requests : s # r => requests'[s] = requests[s]
        /\ requests'[r].ref = o /\ requests'[r].list \subseteq requests[r].list /\ requests'[r].todo = {}
    BY <2>1 DEF Becomes, IsRequest, Others
  <2>4. /\ o # NoRef
        /\ \A c \in chunks : c.ref # o
        /\ \A p \in Pages : pages[p].ref # o
        /\ \A s \in Requests :
             /\ requests[s].ref # o /\ o \notin requests[s].todo
             /\ \A c \in requests[s].list : c.ref # o
    BY <2>1, FreshReference
  <2>5. RowRefsApart'
    BY <2>2 DEF RefsInv, RowRefsApart
  <2>6. OwnRefsApart'
    BY <2>2, <2>3, <2>4 DEF RefsInv, OwnRefsApart
  <2>7. ListedRefsApart'
    BY <2>2, <2>3 DEF RefsInv, ListedRefsApart
  <2>8. TodoRefsApart'
    BY <2>2, <2>3 DEF RefsInv, TodoRefsApart
  <2> QED
    BY <2>5, <2>6, <2>7, <2>8 DEF RefsInv
<1>5. ASSUME NEW r \in Requests, Proceeds(r)
      PROVE  RefsInv'
  BY <1>5, ProceedsEffect, RefsNarrow DEF RequestsInv
<1>6. CASE TimePasses \/ (\E o \in Refs : Expire(o)) \/ UNCHANGED vars
  <2>1. chunks' = chunks /\ pages' = pages /\ requests' = requests
    BY <1>6 DEF TimePasses, Expire, vars, rows
  <2> QED
    BY <2>1 DEF RefsInv, RowRefsApart, OwnRefsApart, ListedRefsApart, TodoRefsApart
<1> QED
  BY <1>1, <1>2, <1>3, <1>4, <1>5, <1>6, StepKinds

-----------------------------------------------------------------------------
(* The objects.                                                            *)

\* What a request holds and lets go of without deleting it, it only lets go of by
\* ending early.
Deletes(r, gone) ==
  /\ objects' = objects \ gone /\ old' = old \ gone /\ lost' = lost
  /\ gone \subseteq Refs \cap ({requests[r].ref} \cup requests[r].todo)
  /\ requests'[r].ref \notin gone
  /\ faults' \in 0 .. MaxFaults
  /\ faults' = MaxFaults =>
       /\ faults = MaxFaults
       /\ requests[r].ref # NoRef => requests[r].ref \in gone \cup {requests'[r].ref}
       /\ requests[r].todo \subseteq gone

LEMMA ProceedsDeletes ==
  ASSUME IInv, NEW r \in Requests, Proceeds(r)
  PROVE  \E gone \in SUBSET Refs : Deletes(r, gone)
<1> USE DEF IInv, TypeInv
<1>1. faults \in 0 .. MaxFaults /\ MaxFaults \in Nat /\ Holds(r)
  BY MaxFaultsAssumption DEF TypeOK, RequestsInv
<1>2. /\ requests[r].ref \in Refs \cup {NoRef} /\ requests[r].todo \subseteq Refs
      /\ NoRef \notin Refs
  BY RequestType, RefsAssumption DEF NoRef
<1>3. ASSUME UNCHANGED <<disk, faults>>, requests'[r].ref = requests[r].ref, requests[r].todo = {}
      PROVE  Deletes(r, {})
  BY <1>1, <1>3 DEF Deletes, disk
<1>4. CASE Save(r) /\ Disposition(Of(r)) # "Stored"
  <2>1. UNCHANGED <<disk, faults>> /\ requests[r].todo = {}
    BY <1>1, <1>4 DEF Save, Holds
  <2>2. requests'[r].ref = requests[r].ref
    BY <1>4, SaveBecomes DEF Becomes, IsRequest
  <2> QED
    BY <1>3, <2>1, <2>2
<1>5. CASE List(r) \/ HashMismatch(r) \/ ChunkObjectMissing(r) \/ Recover(r) \/ Refinalize(r)
  <2>1. UNCHANGED <<disk, faults>> /\ requests[r].ref = NoRef /\ requests[r].todo = {}
    BY <1>1, <1>5 DEF List, HashMismatch, ChunkObjectMissing, Recover, Refinalize, Holds, Writing
  <2>2. requests'[r].ref \in {NoRef, requests[r].ref}
    BY <1>5, ProceedsEffect DEF RequestsInv, Proceeds, Narrows
  <2> QED
    BY <1>3, <2>1, <2>2
<1>6. CASE Discard(r)
  <2>1. requests[r].pc = "discard" /\ Delete({requests[r].ref}) /\ faults' = faults
    BY <1>6 DEF Discard
  <2>2. requests[r].ref # NoRef /\ requests[r].todo = {}
    BY <1>1, <2>1 DEF Holds, Writing
  <2>3. requests'[r].ref = NoRef
    BY <1>6, DiscardBecomes DEF BecomesIdle, Becomes, IsRequest
  <2> QED
    BY <1>1, <1>2, <2>1, <2>2, <2>3 DEF Delete, Deletes
<1>7. CASE DeleteObjects(r)
  <2>1. requests[r].pc = "delete" /\ Delete(requests[r].todo) /\ faults' = faults
    BY <1>7 DEF DeleteObjects
  <2>2. requests[r].ref = NoRef
    BY <1>1, <2>1 DEF Holds, Writing
  <2>3. requests'[r].ref = NoRef
    BY <1>7, AnsweredBecomes DEF DeleteObjects, BecomesIdle, Becomes, IsRequest
  <2>4. Deletes(r, requests[r].todo)
    BY <1>1, <1>2, <2>1, <2>2, <2>3 DEF Delete, Deletes
  <2> QED
    BY <1>2, <2>4
<1>8. CASE RequestEnds(r)
  <2>1. faults > 0 /\ faults' = faults - 1 /\ UNCHANGED disk
    BY <1>8 DEF RequestEnds
  <2>2. requests'[r].ref = NoRef
    BY <1>8, AnsweredBecomes DEF RequestEnds, BecomesIdle, Becomes, IsRequest
  <2>3. Deletes(r, {})
    BY <1>1, <2>1, <2>2 DEF Deletes, disk
  <2> QED
    BY <2>3
<1> QED
  BY <1>4, <1>5, <1>6, <1>7, <1>8 DEF Proceeds

LEMMA DiskStep ==
  ASSUME IInv, [Next]_vars
  PROVE  DiskInv'
<1> USE DEF IInv
<1>1. NoRef \notin Refs /\ objects \subseteq Refs
  BY RefsAssumption DEF NoRef, TypeInv, TypeOK
<1>2. ASSUME NEW r \in Requests, Stores(r)
      PROVE  DiskInv'
  <2> DEFINE row == [upload |-> Of(r), ref |-> requests[r].ref]
  <2>1. /\ requests[r].pc = "save"
        /\ chunks' = chunks \cup {row}
        /\ pages' = pages /\ objects' = objects /\ lost' = lost /\ faults' = faults
        /\ Becomes(r, "list", Of(r), NoRef, requests[r].next, requests[r].list, requests[r].todo)
    BY <1>2, StoresEffect DEF disk
  <2>2. row.ref = requests[r].ref /\ requests[r].ref # NoRef
    BY <2>1 DEF RequestsInv, Holds, Writing
  <2>3. /\ \A s \in Requests : s # r => requests'[s].ref = requests[s].ref
        /\ \A s \in Requests : requests'[s].todo = requests[s].todo
        /\ requests'[r].ref = NoRef
    BY <2>1 DEF Becomes, IsRequest, Others
  <2> HIDE DEF row
  <2>4. RowsReadable'
    BY <2>1, <2>2 DEF DiskInv, RowsReadable, OwnReadable
  <2>5. OwnReadable'
    BY <2>1, <2>3 DEF DiskInv, OwnReadable
  <2>6. NoOrphans'
    <3> SUFFICES ASSUME faults = MaxFaults, NEW o \in objects
                 PROVE  \/ \E c \in chunks' : c.ref = o
                        \/ \E p \in Pages : pages[p].ref = o
                        \/ \E s \in Requests : requests'[s].ref = o \/ o \in requests'[s].todo
      BY <2>1 DEF NoOrphans
    <3>1. \/ \E c \in chunks : c.ref = o
          \/ \E p \in Pages : pages[p].ref = o
          \/ \E s \in Requests : requests[s].ref = o \/ o \in requests[s].todo
      BY DEF DiskInv, NoOrphans
    <3>2. CASE requests[r].ref = o
      BY <2>1, <2>2, <3>2
    <3> QED
      BY <2>1, <2>3, <3>1, <3>2
  <2> QED
    BY <2>4, <2>5, <2>6 DEF DiskInv
<1>3. ASSUME NEW r \in Requests, Completes(r)
      PROVE  DiskInv'
  <2> DEFINE p == Of(r).page
             own == requests[r].ref
  <2>1. /\ requests[r].pc = "finalize" /\ pages[p] = NoPage
        /\ objects' = objects /\ lost' = lost /\ faults' = faults
        /\ Becomes(r, "delete", Of(r), NoRef, "idle", {}, ListedRefs(r))
    BY <1>3, CompletesEffect DEF RequestsInv, disk
  <2>2. /\ chunks' = chunks \ ChunksOf(p)
        /\ pages'[p] = [version |-> Declared(r), ref |-> own]
        /\ \A q \in Pages : q # p => pages'[q] = pages[q]
        /\ p \in Pages
    BY <1>3, CompletesRows, RequestType DEF RequestsInv
  <2>3. pages'[p].ref = own /\ own # NoRef
    BY <2>1, <2>2 DEF RequestsInv, Holds, Writing
  <2>4. /\ \A s \in Requests : s # r => requests'[s] = requests[s]
        /\ requests'[r].ref = NoRef /\ requests'[r].todo = ListedRefs(r)
    BY <2>1 DEF Becomes, IsRequest, Others
  <2>5. \A c \in ChunksOf(p) : c.ref \in ListedRefs(r)
    BY <2>1 DEF RequestsInv, ListHolds, Listing, ListedRefs
  <2>6. requests[r].todo = {} /\ NoPage.ref = NoRef
    BY <2>1 DEF RequestsInv, Holds, NoPage
  <2> HIDE DEF p, own
  <2>7. RowsReadable'
    <3>1. own \in objects \cup lost
      BY <2>3 DEF DiskInv, OwnReadable, own
    <3> QED
      BY <2>1, <2>2, <2>3, <3>1 DEF DiskInv, RowsReadable
  <2>8. OwnReadable'
    BY <2>1, <2>4 DEF DiskInv, OwnReadable
  <2>9. NoOrphans'
    <3> SUFFICES ASSUME faults = MaxFaults, NEW o \in objects
                 PROVE  \/ \E c \in chunks' : c.ref = o
                        \/ \E q \in Pages : pages'[q].ref = o
                        \/ \E s \in Requests : requests'[s].ref = o \/ o \in requests'[s].todo
      BY <2>1 DEF NoOrphans
    <3>1. \/ \E c \in chunks : c.ref = o
          \/ \E q \in Pages : pages[q].ref = o
          \/ \E s \in Requests : requests[s].ref = o \/ o \in requests[s].todo
      BY DEF DiskInv, NoOrphans
    <3>2. CASE \E c \in chunks : c.ref = o
      BY <2>2, <2>4, <2>5, <3>2
    <3>3. CASE \E q \in Pages : pages[q].ref = o
      BY <1>1, <2>1, <2>2, <2>6, <3>3
    <3>4. CASE \E s \in Requests : requests[s].ref = o \/ o \in requests[s].todo
      <4>1. PICK s \in Requests : requests[s].ref = o \/ o \in requests[s].todo
        BY <3>4
      <4>2. CASE s = r
        BY <2>2, <2>3, <2>6, <4>1, <4>2 DEF own
      <4>3. CASE s # r
        BY <2>4, <4>1, <4>3
      <4> QED
        BY <4>2, <4>3
    <3> QED
      BY <3>1, <3>2, <3>3, <3>4
  <2> QED
    BY <2>7, <2>8, <2>9 DEF DiskInv
<1>4. ASSUME NEW r \in Requests, Repeats(r)
      PROVE  DiskInv'
  <2> DEFINE todo == {requests[r].ref} \cup ListedRefs(r)
  <2>1. /\ requests[r].pc = "finalize"
        /\ chunks' = chunks /\ pages' = pages
        /\ objects' = objects /\ lost' = lost /\ faults' = faults
        /\ Becomes(r, "delete", Of(r), NoRef, "idle", {}, todo)
    BY <1>4, RepeatsEffect DEF RequestsInv, rows, disk
  <2>2. /\ \A s \in Requests : s # r => requests'[s] = requests[s]
        /\ requests'[r].ref = NoRef /\ requests[r].ref \in requests'[r].todo
        /\ requests[r].todo = {}
    BY <2>1 DEF Becomes, IsRequest, Others, RequestsInv, Holds
  <2>3. RowsReadable'
    BY <2>1 DEF DiskInv, RowsReadable
  <2>4. OwnReadable'
    BY <2>1, <2>2 DEF DiskInv, OwnReadable
  <2>5. NoOrphans'
    BY <2>1, <2>2 DEF DiskInv, NoOrphans
  <2> QED
    BY <2>3, <2>4, <2>5 DEF DiskInv
<1>5. ASSUME NEW r \in Requests, Writes(r)
      PROVE  DiskInv'
  <2>1. PICK o \in Refs :
          /\ Write(o)
          /\ \/ \E u \in Uploads : Becomes(r, "save", u, o, "idle", {}, {})
             \/ /\ requests[r].pc = "assemble"
                /\ Becomes(r, "finalize", Of(r), o, requests[r].next, requests[r].list, {})
    BY <1>5, WritesEffect DEF RequestsInv
  <2>2. /\ chunks' = chunks /\ pages' = pages /\ faults' = faults
        /\ requests[r].ref = NoRef /\ requests[r].todo = {}
    BY <1>5, WritesEffect DEF RequestsInv, rows
  <2>3. objects' = objects \cup {o} /\ lost' = lost \ {o}
    BY <2>1 DEF Write
  <2>4. /\ \A s \in Requests : s # r => requests'[s] = requests[s]
        /\ requests'[r].ref = o
    BY <2>1 DEF Becomes, IsRequest, Others
  <2>5. RowsReadable'
    BY <2>2, <2>3 DEF DiskInv, RowsReadable
  <2>6. OwnReadable'
    BY <2>3, <2>4 DEF DiskInv, OwnReadable
  <2>7. NoOrphans'
    <3> SUFFICES ASSUME faults = MaxFaults, NEW q \in objects'
                 PROVE  \/ \E c \in chunks : c.ref = q
                        \/ \E p \in Pages : pages[p].ref = q
                        \/ \E s \in Requests : requests'[s].ref = q \/ q \in requests'[s].todo
      BY <2>2 DEF NoOrphans
    <3>1. CASE q = o
      BY <2>4, <3>1
    <3>2. CASE q \in objects
      <4>1. \/ \E c \in chunks : c.ref = q
            \/ \E p \in Pages : pages[p].ref = q
            \/ \E s \in Requests : requests[s].ref = q \/ q \in requests[s].todo
        BY <3>2 DEF DiskInv, NoOrphans
      <4> QED
        BY <1>1, <2>2, <2>4, <3>2, <4>1
    <3> QED
      BY <2>3, <3>1, <3>2
  <2> QED
    BY <2>5, <2>6, <2>7 DEF DiskInv
<1>6. ASSUME NEW r \in Requests, Proceeds(r)
      PROVE  DiskInv'
  <2>1. PICK gone \in SUBSET Refs : Deletes(r, gone)
    BY <1>6, ProceedsDeletes
  <2>2. chunks' = chunks /\ pages' = pages /\ Narrows(r)
    BY <1>6, ProceedsEffect DEF RequestsInv, rows
  <2>3. objects' = objects \ gone /\ lost' = lost
    BY <2>1 DEF Deletes
  <2>4. \A o \in gone : o # NoRef /\ (o = requests[r].ref \/ o \in requests[r].todo)
    BY <1>1, <2>1 DEF Deletes
  <2>5. /\ \A c \in chunks : c.ref \notin gone
        /\ \A p \in Pages : pages[p].ref \notin gone
        /\ \A s \in Requests : s # r /\ requests[s].ref # NoRef => requests[s].ref \notin gone
    BY <2>4 DEF RefsInv, OwnRefsApart, TodoRefsApart
  <2>6. /\ \A s \in Requests : s # r => requests'[s] = requests[s]
        /\ requests'[r].ref \in {NoRef, requests[r].ref}
        /\ requests'[r].ref \notin gone
    BY <2>1, <2>2 DEF Narrows, Others, Deletes
  <2>7. RowsReadable'
    BY <2>2, <2>3, <2>5 DEF DiskInv, RowsReadable
  <2>8. OwnReadable'
    BY <2>3, <2>5, <2>6 DEF DiskInv, OwnReadable
  <2>9. NoOrphans'
    <3> SUFFICES ASSUME faults' = MaxFaults, NEW o \in objects'
                 PROVE  \/ \E c \in chunks : c.ref = o
                        \/ \E p \in Pages : pages[p].ref = o
                        \/ \E s \in Requests : requests'[s].ref = o \/ o \in requests'[s].todo
      BY <2>2 DEF NoOrphans
    <3>1. /\ faults = MaxFaults
          /\ requests[r].ref # NoRef => requests[r].ref \in gone \cup {requests'[r].ref}
          /\ requests[r].todo \subseteq gone
      BY <2>1 DEF Deletes
    <3>2. o \in objects /\ o \notin gone /\ o # NoRef
      BY <1>1, <2>3
    <3>3. \/ \E c \in chunks : c.ref = o
          \/ \E p \in Pages : pages[p].ref = o
          \/ \E s \in Requests : requests[s].ref = o \/ o \in requests[s].todo
      BY <3>1, <3>2 DEF DiskInv, NoOrphans
    <3> QED
      BY <2>6, <3>1, <3>2, <3>3
  <2> QED
    BY <2>7, <2>8, <2>9 DEF DiskInv
<1>7. CASE TimePasses \/ UNCHANGED vars
  <2>1. /\ chunks' = chunks /\ pages' = pages /\ objects' = objects /\ lost' = lost
        /\ requests' = requests /\ faults' = faults
    BY <1>7 DEF TimePasses, vars, rows, disk
  <2> QED
    BY <2>1 DEF DiskInv, RowsReadable, OwnReadable, NoOrphans
<1>8. CASE \E o \in Refs : Expire(o)
  <2>1. PICK o \in Refs : /\ objects' = objects \ {o} /\ lost' = lost \cup {o}
                          /\ chunks' = chunks /\ pages' = pages
                          /\ requests' = requests /\ faults' = faults
    BY <1>8 DEF Expire, rows
  <2> QED
    BY <2>1 DEF DiskInv, RowsReadable, OwnReadable, NoOrphans
<1> QED
  BY <1>2, <1>3, <1>4, <1>5, <1>6, <1>7, <1>8, StepKinds

-----------------------------------------------------------------------------
(* Types and the initial state.                                            *)

LEMMA TypeStep ==
  ASSUME IInv, [Next]_vars
  PROVE  TypeInv'
<1> USE DEF IInv
<1>1. ASSUME requests' \in [Requests -> Request]
      PROVE  \A r \in Requests :
               /\ requests'[r].pc \in RequestPc /\ requests'[r].next \in RequestPc
               /\ requests'[r].upload \in Uploads
               /\ requests'[r].ref \in Refs \cup {NoRef}
               /\ requests'[r].list \subseteq ChunkRow
               /\ requests'[r].todo \subseteq Refs
  BY <1>1 DEF Request
<1>2. ASSUME NEW r \in Requests, Stores(r)
      PROVE  TypeInv'
  <2> DEFINE row == [upload |-> Of(r), ref |-> requests[r].ref]
  <2>1. /\ requests[r].pc = "save" /\ chunks' = chunks \cup {row}
        /\ UNCHANGED <<captured, uploaded, pages, disk, faults>>
        /\ requests' \in [Requests -> Request]
    BY <1>2, StoresEffect DEF Becomes
  <2>2. row \in ChunkRow
    <3>1. requests[r].ref \in Refs /\ Of(r) \in Uploads
      BY <2>1, RequestType DEF RequestsInv, Holds, Writing
    <3> QED
      BY <3>1 DEF ChunkRow
  <2> HIDE DEF row
  <2> QED
    BY <1>1, <2>1, <2>2 DEF TypeInv, TypeOK, disk
<1>3. ASSUME NEW r \in Requests, Completes(r)
      PROVE  TypeInv'
  <2>1. /\ UNCHANGED <<disk, faults>> /\ requests' \in [Requests -> Request]
    BY <1>3, CompletesEffect DEF RequestsInv, Becomes
  <2>2. /\ chunks' = chunks \ ChunksOf(Of(r).page) /\ pages' \in [Pages -> PageRow]
        /\ uploaded' \in Nat /\ captured' \in BOOLEAN
    BY <1>3, CompletesRows DEF RequestsInv
  <2> QED
    BY <1>1, <2>1, <2>2 DEF TypeInv, TypeOK, disk
<1>4. ASSUME NEW r \in Requests, Repeats(r)
      PROVE  TypeInv'
  <2>1. UNCHANGED <<rows, disk, faults>> /\ requests' \in [Requests -> Request]
    BY <1>4, RepeatsEffect DEF RequestsInv, Becomes
  <2> QED
    BY <1>1, <2>1 DEF TypeInv, TypeOK, rows, disk
<1>5. ASSUME NEW r \in Requests, Writes(r)
      PROVE  TypeInv'
  <2>1. UNCHANGED <<rows, faults>>
    BY <1>5, WritesEffect DEF RequestsInv
  <2>2. PICK o \in Refs : Write(o) /\ requests' \in [Requests -> Request]
    BY <1>5, WritesEffect DEF RequestsInv, Becomes
  <2>3. objects' = objects \cup {o} /\ lost' = lost \ {o} /\ old' = old
    BY <2>2 DEF Write
  <2> QED
    BY <1>1, <2>1, <2>2, <2>3 DEF TypeInv, TypeOK, rows
<1>6. ASSUME NEW r \in Requests, Proceeds(r)
      PROVE  TypeInv'
  <2>1. UNCHANGED rows /\ requests' \in [Requests -> Request]
    BY <1>6, ProceedsEffect DEF RequestsInv, Narrows
  <2>2. PICK gone \in SUBSET Refs : Deletes(r, gone)
    BY <1>6, ProceedsDeletes
  <2>3. /\ objects' = objects \ gone /\ old' = old \ gone /\ lost' = lost
        /\ faults' \in 0 .. MaxFaults
    BY <2>2 DEF Deletes
  <2> QED
    BY <1>1, <2>1, <2>3 DEF TypeInv, TypeOK, rows
<1>7. CASE TimePasses
  BY <1>1, <1>7 DEF TimePasses, TypeInv, TypeOK, rows
<1>8. CASE \E o \in Refs : Expire(o)
  <2>1. PICK o \in Refs : Expire(o)
    BY <1>8
  <2> QED
    BY <1>1, <2>1 DEF Expire, TypeInv, TypeOK, rows
<1>9. CASE UNCHANGED vars
  BY <1>1, <1>9 DEF vars, TypeInv, TypeOK, rows, disk
<1> QED
  BY <1>2, <1>3, <1>4, <1>5, <1>6, <1>7, <1>8, <1>9, StepKinds

LEMMA InitHolds == Init => IInv
<1> SUFFICES ASSUME Init PROVE IInv
  OBVIOUS
<1>1. /\ captured = TRUE /\ uploaded = 0 /\ chunks = {}
      /\ pages = [p \in Pages |-> NoPage]
      /\ objects = {} /\ old = {} /\ lost = {} /\ faults = MaxFaults
  BY DEF Init
<1>2. /\ requests \in [Requests -> Request]
      /\ \A r \in Requests :
           /\ requests[r].pc = "idle" /\ requests[r].ref = NoRef
           /\ requests[r].list = {} /\ requests[r].todo = {}
  BY IdleRequestType DEF Init, IsRequest
<1>3. TypeInv
  <2>1. NoPage \in PageRow
    BY DEF NoPage, PageRow
  <2>2. \A r \in Requests :
          /\ requests[r].pc \in RequestPc /\ requests[r].next \in RequestPc
          /\ requests[r].upload \in Uploads
          /\ requests[r].ref \in Refs \cup {NoRef}
          /\ requests[r].list \subseteq ChunkRow
          /\ requests[r].todo \subseteq Refs
    BY <1>2 DEF Request
  <2> QED
    BY <1>1, <1>2, <2>1, <2>2, MaxFaultsAssumption DEF TypeInv, TypeOK
<1>4. RowsInv
  <2>1. Pages # {}
    BY UploadsAssumption, UploadType
  <2>2. {p \in Pages : pages[p] # NoPage} = {}
    BY <1>1
  <2>3. CaptureMatchesPages
    BY <1>1, <2>1, <2>2, FS_EmptySet DEF CaptureMatchesPages
  <2> QED
    BY <1>1, <2>3 DEF RowsInv, PagesTyped, NotMixed
<1>5. RequestsInv
  BY <1>2 DEF RequestsInv, Holds, Recovers, ListHolds, Writing, Listing
<1>6. RefsInv
  BY <1>1, <1>2 DEF RefsInv, RowRefsApart, OwnRefsApart, ListedRefsApart, TodoRefsApart
<1>7. DiskInv
  BY <1>1, <1>2 DEF DiskInv, RowsReadable, OwnReadable, NoOrphans
<1> QED
  BY <1>3, <1>4, <1>5, <1>6, <1>7 DEF IInv

-----------------------------------------------------------------------------
(* The size of a page.                                                     *)

Lengths == [c \in ChunkRow |-> Length[c.upload.data]]

LEMMA LengthsType == \A c \in ChunkRow : Lengths[c] = ChunkLength(c) /\ Lengths[c] \in Nat
<1> SUFFICES ASSUME NEW c \in ChunkRow PROVE Lengths[c] = ChunkLength(c) /\ Lengths[c] \in Nat
  OBVIOUS
<1>1. c.upload.data \in Versions
  BY UploadsAssumption DEF ChunkRow, ChunkRequest
<1> QED
  BY <1>1, LengthAssumption DEF Lengths, ChunkLength

LEMMA ChunksFinite ==
  ASSUME TypeInv, RowsInv, NEW p \in Pages
  PROVE  IsFiniteSet(ChunksOf(p)) /\ ChunksOf(p) \subseteq ChunkRow
<1>1. ChunkCount[p] \in Nat \ {0} /\ ChunksOf(p) \subseteq ChunkRow
  BY IndexesApart
<1>2. IsFiniteSet(0 .. (ChunkCount[p] - 1))
  <2>1. 0 \in Int /\ ChunkCount[p] - 1 \in Int
    BY <1>1
  <2> QED
    BY <2>1, FS_Interval
<1>3. IsFiniteSet(ChunksOf(p))
  BY <1>2, IndexesApart, FS_Injection
<1> QED
  BY <1>1, <1>3

\* The bytes of a page are the sum of its chunk lengths.
BytesAreSums == \A p \in Pages : PageBytes(p) = SumOver(Lengths, ChunksOf(p))

LEMMA PageBytesAreSums == ASSUME TypeInv, RowsInv PROVE BytesAreSums
<1> SUFFICES ASSUME NEW p \in Pages PROVE PageBytes(p) = SumOver(Lengths, ChunksOf(p))
  BY DEF BytesAreSums
<1> DEFINE S == ChunksOf(p)
           IsBytes(g) == g = [T \in SUBSET S |->
                                IF T = {} THEN 0 ELSE ChunkLength(Chosen(T)) + g[T \ {Chosen(T)}]]
<1>1. PageBytes(p) = (CHOOSE g : IsBytes(g))[S]
  BY DEF PageBytes, MapThenSumSet, MapThenFoldSet, Chosen
<1>2. IsFiniteSet(S) /\ S \subseteq ChunkRow
  BY ChunksFinite
<1> HIDE DEF S
<1>3. \A T \in SUBSET S : T # {} => ChunkLength(Chosen(T)) = Lengths[Chosen(T)]
  BY <1>2, ChosenIn, LengthsType
<1>4. \A g : IsBytes(g) <=> IsSum(Lengths, g, S)
  <2>1. \A g : \A T \in SUBSET S :
           SumStep(Lengths, g, T) =
             IF T = {} THEN 0 ELSE ChunkLength(Chosen(T)) + g[T \ {Chosen(T)}]
    BY <1>3 DEF SumStep
  <2> QED
    BY <2>1 DEF IsSum
<1>5. \E g : IsSum(Lengths, g, S)
  BY <1>2, SumExists
<1>6. \E g : IsBytes(g)
  BY <1>4, <1>5
<1>7. IsBytes(CHOOSE g : IsBytes(g))
  <2> HIDE DEF IsBytes
  <2> QED
    BY <1>6
<1>8. IsSum(Lengths, CHOOSE g : IsBytes(g), S)
  <2> HIDE DEF IsBytes
  <2> QED
    BY <1>4, <1>7
<1>9. (CHOOSE g : IsBytes(g))[S] = SumOver(Lengths, S)
  <2> HIDE DEF IsBytes
  <2> QED
    BY <1>2, <1>8, IsSumOver
<1> QED
  BY <1>1, <1>9 DEF S

\* No page is larger than the limit.
PagesFit == \A p \in Pages : SumOver(Lengths, ChunksOf(p)) <= MaximumPageBytes

LEMMA FitStep ==
  ASSUME IInv, PagesFit, [Next]_vars
  PROVE  PagesFit'
<1> USE DEF IInv, RequestsInv
<1>1. CASE UNCHANGED rows
  BY <1>1 DEF PagesFit, ChunksOf, rows
<1>2. ASSUME NEW r \in Requests, Stores(r)
      PROVE  PagesFit'
  <2> DEFINE row == [upload |-> Of(r), ref |-> requests[r].ref]
             p == Of(r).page
  <2>1. requests[r].pc = "save" /\ chunks' = chunks \cup {row} /\ row \notin ChunksOf(p)
    <3>1. \A c \in ChunksOf(p) : c.upload.index # Of(r).index
      BY <1>2, StoresEffect
    <3> QED
      BY <1>2, <3>1, StoresEffect
  <2>2. ~(PageBytes(p) + Length[Of(r).data] > MaximumPageBytes)
    <3>1. Disposition(Of(r)) = "Stored"
      BY <1>2 DEF Stores
    <3> QED
      BY <3>1 DEF Disposition
  <2>3. p \in Pages /\ row \in ChunkRow /\ row.upload.page = p /\ Lengths[row] = Length[Of(r).data]
    <3>1. row \in ChunkRow
      BY <2>1, RequestType DEF ChunkRow, Holds, Writing
    <3> QED
      BY <3>1, RequestType, LengthsType DEF ChunkLength
  <2> HIDE DEF row, p
  <2>4. SumOver(Lengths, ChunksOf(p)) + Lengths[row] <= MaximumPageBytes
    <3>1. IsFiniteSet(ChunksOf(p)) /\ \A c \in ChunksOf(p) : Lengths[c] \in Nat
      BY <2>3, ChunksFinite, LengthsType
    <3>2. SumOver(Lengths, ChunksOf(p)) \in Nat /\ Lengths[row] \in Nat
      BY <2>3, <3>1, SumOverType, LengthsType
    <3>3. ~(SumOver(Lengths, ChunksOf(p)) + Lengths[row] > MaximumPageBytes)
      BY <2>2, <2>3, PageBytesAreSums DEF BytesAreSums
    <3> QED
      BY <3>2, <3>3, MaximumPageBytesAssumption
  <2>5. SumOver(Lengths, ChunksOf(p) \cup {row}) = SumOver(Lengths, ChunksOf(p)) + Lengths[row]
    <3>1. IsFiniteSet(ChunksOf(p)) /\ \A c \in ChunksOf(p) : Lengths[c] \in Nat
      BY <2>3, ChunksFinite, LengthsType
    <3>2. Lengths[row] \in Nat
      BY <2>3, LengthsType
    <3> QED
      BY <2>1, <3>1, <3>2, SumOverAdd
  <2>6. \A q \in Pages : {c \in chunks' : c.upload.page = q} =
           IF q = p THEN ChunksOf(p) \cup {row} ELSE ChunksOf(q)
    BY <2>1, <2>3 DEF ChunksOf
  <2>7. ASSUME NEW q \in Pages
        PROVE  SumOver(Lengths, {c \in chunks' : c.upload.page = q}) <= MaximumPageBytes
    <3>1. CASE q = p
      BY <2>4, <2>5, <2>6, <3>1
    <3>2. CASE q # p
      BY <2>6, <3>2 DEF PagesFit
    <3> QED
      BY <3>1, <3>2
  <2> QED
    BY <2>7 DEF PagesFit, ChunksOf
<1>3. ASSUME NEW r \in Requests, Completes(r)
      PROVE  PagesFit'
  <2>1. chunks' = chunks \ ChunksOf(Of(r).page)
    BY <1>3, CompletesRows
  <2>2. \A q \in Pages : {c \in chunks' : c.upload.page = q} \in {{}, ChunksOf(q)}
    BY <2>1 DEF ChunksOf
  <2>3. SumOver(Lengths, {}) <= MaximumPageBytes
    BY SumOverEmpty, MaximumPageBytesAssumption
  <2>4. \A q \in Pages : SumOver(Lengths, {c \in chunks' : c.upload.page = q}) <= MaximumPageBytes
    BY <2>2, <2>3 DEF PagesFit
  <2> QED
    BY <2>4 DEF PagesFit, ChunksOf
<1>4. ASSUME NEW r \in Requests, Repeats(r) \/ Writes(r) \/ Proceeds(r)
      PROVE  UNCHANGED rows
  BY <1>4, RepeatsEffect, WritesEffect, ProceedsEffect
<1>5. TimePasses \/ (\E o \in Refs : Expire(o)) \/ UNCHANGED vars => UNCHANGED rows
  BY DEF TimePasses, Expire, vars
<1> QED
  BY <1>1, <1>2, <1>3, <1>4, <1>5, StepKinds

-----------------------------------------------------------------------------
(* Theorems.                                                               *)

\* The inductive invariant holds in every reachable state.
THEOREM Invariance == Spec => []IInv
<1>1. Init => IInv
  BY InitHolds
<1>2. IInv /\ [Next]_vars => IInv'
  BY TypeStep, RowsStep, RequestsStep, RefsStep, DiskStep DEF IInv
<1> QED
  BY <1>1, <1>2, PTL DEF Spec

\* The upload rows, objects and requests are type correct.
THEOREM TypeCorrect == Spec => []TypeOK
<1>1. IInv => TypeOK
  BY DEF IInv, TypeInv
<1> QED
  BY <1>1, Invariance, PTL

\* Capture closes exactly with the last page, the page count is the number of page
\* rows, and a completed page has no chunk rows, whatever requests overlap or end
\* anywhere.
THEOREM CaptureAgrees == Spec => []CaptureMatchesPages
<1>1. IInv => CaptureMatchesPages
  BY DEF IInv, RowsInv
<1> QED
  BY <1>1, Invariance, PTL

\* Two requests that finalize one page never collide, although each decided to
\* finalize before the other stored its page.
THEOREM NeverRefused == Spec => []FinalizeNeverRefused
<1>1. IInv => FinalizeNeverRefused
  <2> SUFFICES ASSUME IInv, NEW r \in Requests
               PROVE  /\ requests[r].pc = "finalize" =>
                           IF pages[Of(r).page] = NoPage
                             THEN captured
                             ELSE pages[Of(r).page].version = Declared(r)
                      /\ requests[r].pc \in {"recover", "refinalize"} => pages[Of(r).page] # NoPage
    BY DEF FinalizeNeverRefused
  <2>1. TypeInv /\ ListHolds(r) /\ Recovers(r) /\ CaptureMatchesPages
    BY DEF IInv, RequestsInv, RowsInv
  <2>2. Of(r).page \in Pages
    BY <2>1, RequestType
  <2>3. CASE requests[r].pc = "finalize"
    <3>1. PICK c \in requests[r].list : c.upload.version = Declared(r)
      BY <2>1, <2>3, DeclaredVersion DEF Listing
    <3>2. pages[Of(r).page] # NoPage => pages[Of(r).page].version = Declared(r)
      BY <2>1, <2>3, <3>1 DEF ListHolds, Listing
    <3>3. pages[Of(r).page] = NoPage => captured
      BY <2>1, <2>2 DEF CaptureMatchesPages
    <3> QED
      BY <2>3, <3>2, <3>3
  <2>4. CASE requests[r].pc # "finalize"
    BY <2>1, <2>4 DEF Recovers
  <2> QED
    BY <2>3, <2>4
<1> QED
  BY <1>1, Invariance, PTL

\* No clean-up of overlapping requests deletes an object a row still names.
THEOREM RowsStayReadable == Spec => []RowsReadable
<1>1. IInv => RowsReadable
  BY DEF IInv, DiskInv
<1> QED
  BY <1>1, Invariance, PTL

\* As long as no request ends early, overlapping requests leave no object behind.
THEOREM NothingOrphaned == Spec => []NoOrphans
<1>1. IInv => NoOrphans
  BY DEF IInv, DiskInv
<1> QED
  BY <1>1, Invariance, PTL

\* The chunk rows of an open page are one upload of one content and never exceed the
\* size limit, although the size is checked by requests that overlap.
THEOREM OpenPagesAreOneUpload == Spec => []OpenPageIsOneUpload
<1>1. Init => PagesFit
  <2>1. Init => \A p \in Pages : ChunksOf(p) = {}
    BY DEF Init, ChunksOf
  <2> QED
    BY <2>1, SumOverEmpty, MaximumPageBytesAssumption DEF PagesFit
<1>2. IInv /\ PagesFit /\ [Next]_vars => PagesFit'
  BY FitStep
<1>3. IInv /\ PagesFit => OpenPageIsOneUpload
  <2> SUFFICES ASSUME IInv, PagesFit, NEW p \in Pages
               PROVE  /\ \A c, d \in ChunksOf(p) :
                           /\ c.upload.version = d.upload.version
                           /\ (c.upload.index = d.upload.index \/ c.ref = d.ref) => c = d
                      /\ PageBytes(p) <= MaximumPageBytes
    BY DEF OpenPageIsOneUpload
  <2>1. \A c, d \in ChunksOf(p) :
           /\ c.upload.version = d.upload.version
           /\ (c.upload.index = d.upload.index \/ c.ref = d.ref) => c = d
    BY DEF IInv, RowsInv, NotMixed, RefsInv, RowRefsApart, ChunksOf
  <2>2. PageBytes(p) = SumOver(Lengths, ChunksOf(p))
    BY PageBytesAreSums DEF IInv, BytesAreSums
  <2> QED
    BY <2>1, <2>2 DEF PagesFit
<1> QED
  BY <1>1, <1>2, <1>3, Invariance, PTL DEF Spec

-----------------------------------------------------------------------------
(* The upload implements PageCapture.                                      *)

Content == [p \in Pages |-> pages[p].version]

LEMMA MapsInit == Init => Capture!CaptureInit
BY DEF Init, Capture!CaptureInit, Capture!Missing, NoPage

\* Storing the page row is capturing the page.
LEMMA MapsCompletes ==
  ASSUME IInv, NEW r \in Requests, Completes(r)
  PROVE  Capture!CaptureNext
<1> USE DEF IInv, RequestsInv
<1> DEFINE p == Of(r).page
           v == Declared(r)
<1>1. pages[p] = NoPage /\ captured /\ p \in Pages
  BY CompletesEffect, RequestType
<1>2. /\ pages'[p] = [version |-> v, ref |-> requests[r].ref]
      /\ v \in Versions
      /\ \A q \in Pages : q # p => pages'[q] = pages[q]
      /\ captured' = ({q \in Pages : pages'[q] # NoPage} # Pages)
  BY CompletesRows
<1>3. pages'[p].version = v /\ pages'[p] # NoPage
  BY <1>2, VersionsAssumption DEF NoPage
<1> HIDE DEF p, v
<1>4. \A q \in Pages : pages[q] = NoPage <=> Content[q] = "none"
  <2> SUFFICES ASSUME NEW q \in Pages
               PROVE  pages[q] = NoPage <=> pages[q].version = "none"
    BY DEF Content
  <2>1. pages[q] # NoPage => pages[q].version \in Versions
    BY DEF RowsInv, PagesTyped
  <2> QED
    BY <2>1, VersionsAssumption DEF NoPage
<1>5. Content' = [Content EXCEPT ![p] = v]
  BY <1>1, <1>2, <1>3 DEF Content
<1>6. captured' = (\E q \in Pages \ {p} : Content[q] = "none")
  BY <1>1, <1>2, <1>3, <1>4
<1> QED
  BY <1>1, <1>2, <1>4, <1>5, <1>6
  DEF Capture!CaptureNext, Capture!CapturePage, Capture!Missing, Content

\* The upload, with its chunks, objects, overlapping requests and early ends,
\* captures each page once and for good and closes with the last one.
THEOREM Implements == Spec => ImplementsCapture
<1>1. Init => Capture!CaptureInit
  BY MapsInit
<1>2. IInv /\ [Next]_vars => [Capture!CaptureNext]_(Capture!captureVars)
  <2> SUFFICES ASSUME IInv, [Next]_vars
               PROVE  Capture!CaptureNext \/ UNCHANGED Capture!captureVars
    OBVIOUS
  <2> USE DEF IInv, RequestsInv
  <2>1. ASSUME NEW r \in Requests, Completes(r)
        PROVE  Capture!CaptureNext
    BY <2>1, MapsCompletes
  <2>2. ASSUME NEW r \in Requests, Stores(r) \/ Repeats(r) \/ Writes(r) \/ Proceeds(r)
        PROVE  UNCHANGED <<pages, captured>>
    BY <2>2, StoresEffect, RepeatsEffect, WritesEffect, ProceedsEffect DEF rows
  <2>3. TimePasses \/ (\E o \in Refs : Expire(o)) \/ UNCHANGED vars => UNCHANGED <<pages, captured>>
    BY DEF TimePasses, Expire, vars, rows
  <2>4. UNCHANGED <<pages, captured>> => UNCHANGED Capture!captureVars
    BY DEF Capture!captureVars
  <2> QED
    BY <2>1, <2>2, <2>3, <2>4, StepKinds
<1> QED
  BY <1>1, <1>2, Invariance, PTL DEF Spec, ImplementsCapture, Capture!CaptureSpec

=============================================================================
