------------------------------- MODULE Uploads -------------------------------
(***************************************************************************)
(* Attachments, from the request for an upload URL to the message or server  *)
(* icon that uses them.                                                      *)
(*                                                                           *)
(*   routes/uploads.ts            POST /uploads, POST /uploads/:id/complete  *)
(*   services/upload-governor.ts  while people talk, uploads go through the  *)
(*                                API, a few at a time, on one-time tickets  *)
(*   services/queues.ts           the scan job: in the worker, through a queue*)
(*                                that knows its jobs by id ("redis"), or in *)
(*                                the API process ("memory")                 *)
(*   media/src/pipeline.ts        the scan; db/src/server-icon.ts, which then*)
(*                                writes the URL of a server's icon          *)
(*   routes/messages.ts, dms.ts   a message claims an attachment             *)
(*   routes/servers.ts            a PATCH makes an attachment the icon       *)
(*                                                                           *)
(* Handlers wait between reading a row and writing it, so any two cross; the *)
(* API and the worker may restart at any moment.  "removed" stands for the   *)
(* two verdicts, blocked and quarantined, that take the file away.  Sizes,   *)
(* formats, thumbnails, waveforms, expiry, permissions and a failing database*)
(* are left out.                                                             *)
(***************************************************************************)
EXTENDS Integers, Sequences, FiniteSets

CONSTANTS
    Attachment, Message, Patch,     \* Message, Patch: the POSTs and PATCHes that may be made
    None,
    Followed,       \* bound: the attachments whose whole life is followed
    MaxConcurrent,  \* VOICE_ACTIVE_UPLOAD_THROTTLE_MAX_CONCURRENT
    MaxCompletes,   \* bound: calls of .../complete
    MaxRestarts     \* bound: restarts of the API or the worker

ASSUME UploadsAssumption ==
    /\ MaxConcurrent \in Nat \ {0} /\ MaxCompletes \in Nat /\ MaxRestarts \in Nat
    /\ Followed \subseteq Attachment
    /\ None \notin Attachment \cup Message

VARIABLES
    view,           \* what a behaviour follows: "line", uploads that crowd the governor,
                    \* or "file", all that becomes of the Followed
    mode,           \* how scan jobs are run: "redis" or "memory"
    status,         \* Attachment.status
    bad,            \* the file's bytes do not pass the scan
    stored,         \* attachments whose object is in the bucket
    link,           \* the upload URL handed out, while it can still be used
    put,            \* the PUT of a governed upload
    waiters, activeUploads,     \* UploadGovernor
    completing,     \* completing[a]: complete handlers past their checks
    enqueuing,      \* enqueuing[a]: status written, scan job not yet enqueued
    known,          \* jobs the queue has ever had ("redis")
    queued, checked, scanning,  \* scan jobs of a: to be started, row read, at work
    backfill,       \* refreshServerIconsForAttachment: those that have yet to read
                    \* the row, and those that hold a URL, or null, to write
    icon, iconUrl,  \* the server's row; a URL is known by its attachment
    patch,          \* PATCH handlers: what they set, and the URL they have read for it
    post,           \* post[m]: the stage of the POST of m, and its attachment
    messageId,      \* Attachment.messageId
    twice,          \* history: attachments completed when they were no longer pending
    reopened,       \* history: attachments so completed that had their verdict
    cut,            \* history: attachments whose scan, or what follows it, a restart cut short
    outrun,         \* history: the icon's URL was read before the backfill, and written after it
    crossed,        \* history: attachments claimed by two messages at once
    completes, restarts     \* counts for the bounds

upload == <<link, put, waiters, activeUploads, bad>>
scans == <<enqueuing, known, queued, checked, scanning>>
icons == <<icon, iconUrl, patch, outrun>>
posts == <<post, messageId, crossed>>
uploadsVars == <<view, mode, status, stored, upload, completing, scans, backfill, icons, posts,
                 twice, reopened, cut, completes, restarts>>

-----------------------------------------------------------------------------
Verdicts == {"ready", "failed", "removed"}
Zero == [a \in Attachment |-> 0]
Plus(count, a) == [count EXCEPT ![a] = @ + 1]
Minus(count, a) == [count EXCEPT ![a] = @ - 1]

UploadsInit ==
    /\ view \in {"line", "file"}
    /\ mode \in {"redis", "memory"}
    /\ status = [a \in Attachment |-> "absent"]
    /\ bad \in SUBSET Followed
    /\ stored = {}
    /\ link = [a \in Attachment |-> "none"]
    /\ put = [a \in Attachment |-> "none"]
    /\ waiters = <<>>
    /\ activeUploads = 0
    /\ completing = Zero /\ enqueuing = Zero
    /\ known = {}
    /\ queued = Zero /\ checked = Zero /\ scanning = Zero
    /\ backfill = [a \in Attachment |-> [s \in {"asked", "url", "null"} |-> 0]]
    /\ icon = None /\ iconUrl = None
    /\ patch = [p \in Patch |-> [stage |-> "unused", to |-> None, url |-> None, overtaken |-> FALSE]]
    /\ post = [m \in Message |-> [stage |-> "unused", of |-> None]]
    /\ messageId = [a \in Attachment |-> None]
    /\ twice = {} /\ reopened = {} /\ cut = {} /\ crossed = {}
    /\ outrun = FALSE
    /\ completes = 0 /\ restarts = 0

-----------------------------------------------------------------------------
(* -- the bytes: POST /uploads, then a PUT to storage or through the API ----- *)

\* The row is created with a URL: of the storage, or a ticket while people talk.
RequestUpload(a) ==
    /\ status[a] = "absent"
    /\ view = "file" => a \in Followed
    /\ status' = [status EXCEPT ![a] = "pending"]
    /\ \E way \in {"direct", "ticket"} : link' = [link EXCEPT ![a] = way]
    /\ UNCHANGED <<view, mode, stored, put, waiters, activeUploads, bad, completing, scans,
                   backfill, icons, posts, twice, reopened, cut, completes, restarts>>

\* A PUT the governor has no say in: people have stopped talking, or never do.
PutStraight(a) ==
    /\ link[a] = "direct" /\ put[a] = "none"
    /\ link' = [link EXCEPT ![a] = "used"]
    /\ stored' = stored \cup {a}
    /\ UNCHANGED <<view, mode, status, put, waiters, activeUploads, bad, completing, scans,
                   backfill, icons, posts, twice, reopened, cut, completes, restarts>>

\* acquireSlot, up to its next await: a slot, or the end of the line.
AcquireSlot(a) ==
    IF activeUploads >= MaxConcurrent
    THEN /\ waiters' = Append(waiters, a)
         /\ put' = [put EXCEPT ![a] = "waiting"]
         /\ UNCHANGED activeUploads
    ELSE /\ activeUploads' = activeUploads + 1
         /\ put' = [put EXCEPT ![a] = "sending"]
         /\ UNCHANGED waiters

\* A governed PUT arrives: consumeTicket, or a URL of the local storage.
PutArrives(a) ==
    /\ link[a] \in {"direct", "ticket"} /\ put[a] = "none"
    /\ link' = [link EXCEPT ![a] = "used"]
    /\ AcquireSlot(a)
    /\ UNCHANGED <<view, mode, status, stored, bad, completing, scans, backfill, icons, posts,
                   twice, reopened, cut, completes, restarts>>

\* Mutant: a waiter that is woken does not look again.
WaiterResumesBlindly(a) ==
    /\ put[a] = "woken"
    /\ activeUploads' = activeUploads + 1
    /\ put' = [put EXCEPT ![a] = "sending"]
    /\ UNCHANGED <<view, mode, status, stored, link, waiters, bad, completing, scans, backfill,
                   icons, posts, twice, reopened, cut, completes, restarts>>

\* A waiter that was woken looks again: a newcomer may have taken the slot.
WaiterResumes(a) ==
    /\ put[a] = "woken"
    /\ AcquireSlot(a)
    /\ UNCHANGED <<view, mode, status, stored, link, bad, completing, scans, backfill, icons,
                   posts, twice, reopened, cut, completes, restarts>>

\* release: the slot is free, and the first in line is woken.
Release(a) ==
    /\ activeUploads' = activeUploads - 1
    /\ IF waiters = <<>>
       THEN put' = [put EXCEPT ![a] = "none"] /\ UNCHANGED waiters
       ELSE /\ put' = [put EXCEPT ![a] = "none", ![Head(waiters)] = "woken"]
            /\ waiters' = Tail(waiters)

\* The body ends: it is of the declared size and stored, or refused or broken off.
PutEnds(a) ==
    /\ put[a] = "sending"
    /\ \E kept \in {{}, {a}} : stored' = stored \cup kept
    /\ Release(a)
    /\ UNCHANGED <<view, mode, status, link, bad, completing, scans, backfill, icons, posts,
                   twice, reopened, cut, completes, restarts>>

-----------------------------------------------------------------------------
(* -- POST /uploads/:id/complete --------------------------------------------- *)

\* Mutant: the job is enqueued before the row is written as well.
CompleteEnqueues(a) ==
    /\ view = "file" /\ completes < MaxCompletes
    /\ status[a] = "pending" /\ a \in stored
    /\ completes' = completes + 1
    /\ enqueuing' = Plus(enqueuing, a)
    /\ completing' = Plus(completing, a)
    /\ UNCHANGED <<view, mode, status, stored, upload, known, queued, checked, scanning,
                   backfill, icons, posts, twice, reopened, cut, restarts>>

\* The row is pending, and the object is there.
CompleteChecks(a) ==
    /\ view = "file" /\ completes < MaxCompletes
    /\ status[a] = "pending" /\ a \in stored
    /\ completes' = completes + 1
    /\ completing' = Plus(completing, a)
    /\ UNCHANGED <<view, mode, status, stored, upload, scans, backfill, icons, posts, twice,
                   reopened, cut, restarts>>

\* The row is written, whatever it has become.
CompleteWrites(a) ==
    /\ completing[a] > 0
    /\ completing' = Minus(completing, a)
    /\ status' = [status EXCEPT ![a] = "uploaded"]
    /\ enqueuing' = Plus(enqueuing, a)
    /\ twice' = IF status[a] = "pending" THEN twice ELSE twice \cup {a}
    /\ reopened' = IF status[a] \in Verdicts THEN reopened \cup {a} ELSE reopened
    /\ UNCHANGED <<view, mode, stored, upload, known, queued, checked, scanning, backfill,
                   icons, posts, cut, completes, restarts>>

\* enqueueScan: the queue ignores a job whose id it has seen.
Enqueue(a) ==
    /\ enqueuing[a] > 0
    /\ enqueuing' = Minus(enqueuing, a)
    /\ queued' = IF mode = "redis" /\ a \in known THEN queued ELSE Plus(queued, a)
    /\ known' = known \cup {a}
    /\ UNCHANGED <<view, mode, status, stored, upload, completing, checked, scanning, backfill,
                   icons, posts, twice, reopened, cut, completes, restarts>>

-----------------------------------------------------------------------------
(* -- runScanJob --------------------------------------------------------------- *)

\* Only an uploaded row is scanned; any other ends the job.
ScanStarts(a) ==
    /\ queued[a] > 0
    /\ queued' = Minus(queued, a)
    /\ checked' = IF status[a] = "uploaded" THEN Plus(checked, a) ELSE checked
    /\ UNCHANGED <<view, mode, status, stored, upload, completing, enqueuing, known, scanning,
                   backfill, icons, posts, twice, reopened, cut, completes, restarts>>

ScanMarks(a) ==
    /\ checked[a] > 0
    /\ checked' = Minus(checked, a)
    /\ scanning' = Plus(scanning, a)
    /\ status' = [status EXCEPT ![a] = "processing"]
    /\ UNCHANGED <<view, mode, stored, upload, completing, enqueuing, known, queued, backfill,
                   icons, posts, twice, reopened, cut, completes, restarts>>

\* An object that is gone, a scanner that is down: failed.  Bad bytes are taken away.
Outcomes(a) ==
    {"failed"} \cup IF a \notin stored THEN {} ELSE IF a \in bad THEN {"removed"} ELSE {"ready"}

\* Mutant: only a rejection is reported.
ScanEndsUnreported(a) ==
    /\ scanning[a] > 0
    /\ scanning' = Minus(scanning, a)
    /\ \E v \in Outcomes(a) :
        /\ status' = [status EXCEPT ![a] = v]
        /\ stored' \in {stored, IF v = "removed" THEN stored \ {a} ELSE stored}
    /\ backfill' = IF status'[a] = "ready" THEN backfill
                    ELSE [backfill EXCEPT ![a]["asked"] = @ + 1]
    /\ UNCHANGED <<view, mode, upload, completing, enqueuing, known, queued, checked, icons,
                   posts, twice, reopened, cut, completes, restarts>>

\* The verdict, and the callback, which starts the backfill: bad bytes are taken away
\* before (an error of the storage there is only logged).
ScanEnds(a) ==
    /\ scanning[a] > 0
    /\ scanning' = Minus(scanning, a)
    /\ \E v \in Outcomes(a) :
        /\ status' = [status EXCEPT ![a] = v]
        /\ stored' \in {stored, IF v = "removed" THEN stored \ {a} ELSE stored}
    /\ backfill' = [backfill EXCEPT ![a]["asked"] = @ + 1]
    /\ UNCHANGED <<view, mode, upload, completing, enqueuing, known, queued, checked, icons,
                   posts, twice, reopened, cut, completes, restarts>>

\* resolveServerIconUrl: only a ready attachment has a URL.
Resolved(a) == IF a # None /\ status[a] = "ready" THEN a ELSE None

BackfillReads(a) ==
    /\ backfill[a]["asked"] > 0
    /\ backfill' = [backfill EXCEPT ![a]["asked"] = @ - 1,
                                    ![a][IF Resolved(a) = a THEN "url" ELSE "null"] = @ + 1]
    /\ UNCHANGED <<view, mode, status, stored, upload, completing, scans, icons, posts, twice,
                   reopened, cut, completes, restarts>>

\* updateMany: the servers whose icon the attachment is by now.
BackfillWrites(a, found) ==
    /\ backfill[a][found] > 0
    /\ backfill' = [backfill EXCEPT ![a][found] = @ - 1]
    /\ iconUrl' = IF icon # a THEN iconUrl ELSE IF found = "url" THEN a ELSE None
    /\ patch' = [p \in Patch |-> [patch[p] EXCEPT !.overtaken = @ \/ patch[p].to = a]]
    /\ UNCHANGED <<view, mode, status, stored, upload, completing, scans, icon, outrun, posts,
                   twice, reopened, cut, completes, restarts>>

-----------------------------------------------------------------------------
(* -- what attachments are for: icons and messages ------------------------------ *)

\* PATCH /servers/:id sets the icon or clears it; its URL is read first.
PatchReads(p, a) ==
    /\ view = "file" /\ patch[p].stage = "unused"
    /\ a # None => status[a] # "absent"
    /\ patch' = [patch EXCEPT ![p] =
                    [stage |-> "read", to |-> a, url |-> Resolved(a), overtaken |-> FALSE]]
    /\ UNCHANGED <<view, mode, status, stored, upload, completing, scans, backfill, icon,
                   iconUrl, outrun, posts, twice, reopened, cut, completes, restarts>>

PatchWrites(p) ==
    /\ patch[p].stage = "read"
    /\ patch' = [patch EXCEPT ![p] =
                    [stage |-> "done", to |-> None, url |-> None, overtaken |-> FALSE]]
    /\ icon' = patch[p].to
    /\ iconUrl' = patch[p].url
    /\ outrun' = patch[p].overtaken
    /\ UNCHANGED <<view, mode, status, stored, upload, completing, scans, backfill, posts,
                   twice, reopened, cut, completes, restarts>>

\* Mutant: an attachment another message has is not refused.
PostChecksStatus(m, a) ==
    /\ post[m].stage = "unused"
    /\ status[a] \in {"uploaded", "ready"}
    /\ post' = [post EXCEPT ![m] = [stage |-> "checked", of |-> a]]
    /\ UNCHANGED <<view, mode, status, stored, upload, completing, scans, backfill, icons,
                   messageId, crossed, twice, reopened, cut, completes, restarts>>

\* POST of a message: the attachment is free, and uploaded or ready ...
PostChecks(m, a) ==
    /\ post[m].stage = "unused"
    /\ messageId[a] = None /\ status[a] \in {"uploaded", "ready"}
    /\ post' = [post EXCEPT ![m] = [stage |-> "checked", of |-> a]]
    /\ UNCHANGED <<view, mode, status, stored, upload, completing, scans, backfill, icons,
                   messageId, crossed, twice, reopened, cut, completes, restarts>>

\* ... and is claimed, in the transaction that creates the message, without another look.
PostCommits(m) ==
    /\ post[m].stage = "checked"
    /\ post' = [post EXCEPT ![m].stage = "posted"]
    /\ messageId' = [messageId EXCEPT ![post[m].of] = m]
    /\ crossed' = IF \E n \in Message \ {m} : post[n] = [stage |-> "checked", of |-> post[m].of]
                  THEN crossed \cup {post[m].of} ELSE crossed
    /\ UNCHANGED <<view, mode, status, stored, upload, completing, scans, backfill, icons,
                   twice, reopened, cut, completes, restarts>>

-----------------------------------------------------------------------------
(* -- restarts ------------------------------------------------------------------ *)

Without(backfills) == [a \in Attachment |-> [s \in DOMAIN backfills[a] |-> 0]]
Backfilling(a) == \E s \in DOMAIN backfill[a] : backfill[a][s] > 0

\* The API forgets its tickets, its line of uploads and its handlers, and runs no in-process scans.
RestartApi ==
    /\ restarts < MaxRestarts
    /\ restarts' = restarts + 1
    /\ link' = [a \in Attachment |-> IF link[a] = "ticket" THEN "used" ELSE link[a]]
    /\ put' = [a \in Attachment |-> "none"]
    /\ waiters' = <<>>
    /\ activeUploads' = 0
    /\ completing' = Zero /\ enqueuing' = Zero
    /\ patch' = [p \in Patch |-> [patch[p] EXCEPT !.stage = IF @ = "read" THEN "done" ELSE @,
                                     !.to = None, !.url = None, !.overtaken = FALSE]]
    /\ post' = [m \in Message |-> IF post[m].stage = "checked"
                                  THEN [stage |-> "refused", of |-> None] ELSE post[m]]
    /\ IF mode = "memory"
       THEN /\ queued' = Zero /\ checked' = Zero /\ scanning' = Zero
            /\ backfill' = Without(backfill)
       ELSE UNCHANGED <<queued, checked, scanning, backfill>>
    /\ cut' = cut \cup {a \in Attachment :
                           \/ enqueuing[a] > 0
                           \/ /\ mode = "memory"
                              /\ queued[a] + checked[a] + scanning[a] > 0 \/ Backfilling(a)}
    /\ UNCHANGED <<view, mode, status, stored, bad, known, icon, iconUrl, outrun, messageId,
                   crossed, twice, reopened, completes>>

\* The worker's jobs go back to the queue, and are started again.
RestartWorker ==
    /\ mode = "redis"
    /\ restarts < MaxRestarts
    /\ restarts' = restarts + 1
    /\ queued' = [a \in Attachment |-> queued[a] + checked[a] + scanning[a]]
    /\ checked' = Zero /\ scanning' = Zero
    /\ backfill' = Without(backfill)
    /\ cut' = cut \cup {a \in Attachment : scanning[a] > 0 \/ Backfilling(a)}
    /\ UNCHANGED <<view, mode, status, stored, upload, completing, enqueuing, known, icons,
                   posts, twice, reopened, completes>>

-----------------------------------------------------------------------------
UploadsNext ==
    \/ \E a \in Attachment :
        \/ RequestUpload(a) \/ PutStraight(a) \/ PutArrives(a) \/ WaiterResumes(a) \/ PutEnds(a)
        \/ CompleteChecks(a) \/ CompleteWrites(a) \/ Enqueue(a)
        \/ ScanStarts(a) \/ ScanMarks(a) \/ ScanEnds(a)
        \/ BackfillReads(a) \/ \E found \in {"url", "null"} : BackfillWrites(a, found)
    \/ \E p \in Patch : PatchWrites(p) \/ \E a \in Followed \cup {None} : PatchReads(p, a)
    \/ \E m \in Message : PostCommits(m) \/ \E a \in Attachment : PostChecks(m, a)
    \/ RestartApi \/ RestartWorker

\* Handlers go on, and the worker takes its jobs; a PUT may last for ever.
Fairness ==
    \A a \in Attachment :
        /\ WF_uploadsVars(WaiterResumes(a))
        /\ WF_uploadsVars(CompleteWrites(a)) /\ WF_uploadsVars(Enqueue(a))
        /\ WF_uploadsVars(ScanStarts(a)) /\ WF_uploadsVars(ScanMarks(a)) /\ WF_uploadsVars(ScanEnds(a))
        /\ WF_uploadsVars(BackfillReads(a)) /\ WF_uploadsVars(\E f \in {"url", "null"} : BackfillWrites(a, f))

UploadsSpec == UploadsInit /\ [][UploadsNext]_uploadsVars /\ Fairness

-----------------------------------------------------------------------------
(* -- properties ------------------------------------------------------------------ *)

\* Types; a URL in use is of an attachment, and a waiter is in line once.
UploadsTypeOK ==
    LET Counts == [Attachment -> 0..(MaxCompletes + 1)] IN
    /\ view \in {"line", "file"} /\ mode \in {"redis", "memory"}
    /\ status \in [Attachment -> Verdicts \cup {"absent", "pending", "uploaded", "processing"}]
    /\ bad \subseteq Followed /\ stored \subseteq Attachment /\ known \subseteq Attachment
    /\ link \in [Attachment -> {"none", "direct", "ticket", "used"}]
    /\ put \in [Attachment -> {"none", "waiting", "woken", "sending"}]
    /\ waiters \in Seq(Attachment)
    /\ Len(waiters) = Cardinality({a \in Attachment : put[a] = "waiting"})
    /\ \A a \in Attachment : put[a] = "waiting" => \E i \in DOMAIN waiters : waiters[i] = a
    /\ activeUploads \in Nat
    /\ {completing, enqueuing, queued, checked, scanning} \subseteq Counts
    /\ backfill \in [Attachment -> [{"asked", "url", "null"} -> 0..(MaxCompletes + 1)]]
    /\ {icon, iconUrl} \subseteq Attachment \cup {None}
    /\ patch \in [Patch -> [stage : {"unused", "read", "done"}, to : Attachment \cup {None},
                            url : Attachment \cup {None}, overtaken : BOOLEAN]]
    /\ post \in [Message -> [stage : {"unused", "checked", "posted", "refused"},
                             of : Attachment \cup {None}]]
    /\ messageId \in [Attachment -> Message \cup {None}]
    /\ {twice, reopened, cut, crossed} \subseteq SUBSET Attachment
    /\ outrun \in BOOLEAN
    /\ completes \in 0..MaxCompletes /\ restarts \in 0..MaxRestarts

\* Slots are counted right and never idle: activeUploads is the number of PUTs that send,
\* within the limit, and while uploads wait in line all slots are taken, or freed for as
\* many that were woken.
SlotsAreUsed ==
    LET Of(stage) == {a \in Attachment : put[a] = stage} IN
    /\ activeUploads = Cardinality(Of("sending"))
    /\ activeUploads <= MaxConcurrent
    /\ Of("waiting") # {} => activeUploads + Cardinality(Of("woken")) >= MaxConcurrent

\* Every upload said to be complete gets its verdict, and a re-enqueued job does no harm,
\* unless a restart cut the scan short or a second complete reopened a scanned row for a
\* queue that has seen its job.
ScansSettle ==
    \A a \in Attachment :
        status[a] \in {"uploaded", "processing"}
            ~> (status[a] \in Verdicts \/ a \in cut \/ (mode = "redis" /\ a \in reopened))

\* Once no backfill is under way, a server shows the attachment its icon names exactly when
\* that is ready, and nothing when it names none, whichever of the PATCH and the scan came
\* first; but for a PATCH that read before the verdict and wrote after its backfill, a
\* restart, or a second complete (server-icon.ts 57-85).
IconFollowsScan ==
    /\ ~outrun
    /\ icon # None => ~Backfilling(icon) /\ icon \notin cut \cup twice
    => iconUrl = Resolved(icon)

\* A posted message keeps its attachment, unless two messages claimed it at once.
PostedKeepsFile ==
    \A m \in Message :
        post[m].stage = "posted" => messageId[post[m].of] = m \/ post[m].of \in crossed

=============================================================================
