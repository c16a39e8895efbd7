---------------------------- MODULE PageCapture ----------------------------
(***************************************************************************)
(* What capturing an invoice promises, without chunks, objects, retries or *)
(* concurrent requests: every page gets one content, which then stays, and *)
(* capture closes together with the last page.                             *)
(*                                                                         *)
(* ChunkUpload implements this module (ChunkUpload!Capture).               *)
(***************************************************************************)
CONSTANTS Pages, Versions

VARIABLES
  content,  \* the content each page was captured with, Missing before
  open      \* whether the invoice still takes pages

captureVars == <<content, open>>

Missing == "none"

CaptureInit ==
  /\ content = [p \in Pages |-> Missing]
  /\ open = TRUE

CapturePage(p, v) ==
  /\ open
  /\ content[p] = Missing
  /\ content' = [content EXCEPT ![p] = v]
  /\ open' = (\E q \in Pages \ {p} : content[q] = Missing)

CaptureNext == \E p \in Pages, v \in Versions : CapturePage(p, v)

CaptureSpec == CaptureInit /\ [][CaptureNext]_captureVars

=============================================================================
