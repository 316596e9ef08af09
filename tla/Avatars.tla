------------------------------- MODULE Avatars -------------------------------
(***************************************************************************)
(* The profile photos of src/internal/whatsmeow/avatar.go: the hints of    *)
(* the dashboard, the queue and the one worker that asks WhatsApp, the     *)
(* rows of store/avatar.go, the files beside them, the event that a photo  *)
(* changed, and the reset that empties their directory.                    *)
(*                                                                         *)
(* Time is whether a row's next_check_at has come: "due", or still "soon"  *)
(* (minutes) or "far" (days).                                              *)
(***************************************************************************)
EXTENDS Integers, Sequences, FiniteSets

CONSTANTS
    Numbers, OwnNumber,  \* JIDs on the dashboard; which is the host's
    QueueCap,            \* avatarQueueCap
    MaxChanges, MaxLapses  \* bounds: photos; resets, crashes, failing requests
                           \* and hints dropped for want of a connection

ASSUME AvatarAssumption ==
    /\ OwnNumber \in Numbers /\ QueueCap \in Nat \ {0}
    /\ {MaxChanges, MaxLapses} \subseteq Nat

VARIABLES
    photo,     \* WhatsApp: each number's photo, or NoPhoto
    row,       \* avatars: picture, whether a path, schedule; or Unchecked
    file,      \* the photo in each number's file, or NoPhoto
    queue,     \* avatarQueue
    queued,    \* avatarQueued
    worker,    \* avatarWorkerLoop
    event,     \* numbers whose events.Picture is on its way
    marking,   \* invalidateAvatar between its read and its write
    past       \* history, see Past

avatarVars == <<photo, row, file, queue, queued, worker, event, marking, past>>

Photos == 0..MaxChanges
NoPhoto == 0
Schedules == {"due", "soon", "far"}
Cached == [pic : Photos, path : BOOLEAN, next : Schedules]
Unchecked == [pic |-> NoPhoto, path |-> FALSE, next |-> "due"]
Window(j) == IF j = OwnNumber THEN "soon" ELSE "far"

NoNumber == "none"
IdleWorker == [jid |-> NoNumber, at |-> "idle", old |-> Unchecked, info |-> NoPhoto]
Working == [jid : Numbers \cup {NoNumber}, at : {"idle", "paced", "cap", "ask", "answered", "saved", "gone"},
            old : Cached, info : Photos]
NoMark == [jid |-> NoNumber, old |-> Unchecked]

(* asked: asked and answered since its last window passed, its last change *)
(* or its last lapse.  told: the change is known here and no check has     *)
(* failed or crossed it since.                                             *)
Past == [asked : SUBSET Numbers, told : SUBSET Numbers, changes : Photos,
         wiped : BOOLEAN, lapses : 0..MaxLapses]

(* What GET /api/avatar shows.                                             *)
Shown(j) == IF row[j].path THEN file[j] ELSE NoPhoto

-----------------------------------------------------------------------------
(* Hints and events                                                        *)

(* RequestAvatar.  The mutant leaves the mark when the queue is full.      *)
StillQueuedAlways(j) == queued \cup {j}
StillQueued(j) == queued

RequestAvatar(j) ==
    /\ j \notin queued
    /\ IF Len(queue) < QueueCap
       THEN queue' = Append(queue, j) /\ queued' = queued \cup {j}
       ELSE queue' = queue /\ queued' = StillQueued(j)
    /\ UNCHANGED <<photo, row, file, worker, event, marking, past>>

(* A contact changes or removes the photo; connected is receiving the event.*)
PhotoChanges(j, new, connected) ==
    /\ past.changes < MaxChanges
    /\ new \in {NoPhoto, past.changes + 1} \ {photo[j]}
    /\ photo' = [photo EXCEPT ![j] = new]
    /\ event' = IF connected THEN event \cup {j} ELSE event \ {j}
    /\ past' = [past EXCEPT !.changes = @ + 1, !.asked = @ \ {j}, !.told = @ \ {j}]
    /\ UNCHANGED <<row, file, queue, queued, worker, marking>>

(* invalidateAvatar reads the row.                                         *)
Invalidate(j) ==
    /\ j \in event /\ marking = NoMark
    /\ event' = event \ {j}
    /\ marking' = IF row[j] = Unchecked THEN NoMark ELSE [jid |-> j, old |-> row[j]]
    /\ UNCHANGED <<photo, row, file, queue, queued, worker, past>>

Invalidated(old) == [old EXCEPT !.next = "due"]

InvalidateWrite ==
    /\ marking # NoMark
    /\ row' = [row EXCEPT ![marking.jid] = Invalidated(marking.old)]
    /\ marking' = NoMark
    /\ past' = [past EXCEPT !.asked = @ \ {marking.jid},
                             !.told = IF marking.jid \in event THEN @ ELSE @ \cup {marking.jid}]
    /\ UNCHANGED <<photo, file, queue, queued, worker, event>>

(* A next_check_at comes: an own row in minutes, any row in days.          *)
WindowPasses(j) ==
    /\ row[j] # Unchecked /\ row[j].next \in {"soon", Window(j)}
    /\ row' = [row EXCEPT ![j].next = "due"]
    /\ past' = [past EXCEPT !.asked = @ \ {j}]
    /\ UNCHANGED <<photo, file, queue, queued, worker, event, marking>>

-----------------------------------------------------------------------------
(* The worker                                                              *)

Dequeue ==
    /\ worker.at = "idle" /\ queue # <<>>
    /\ worker' = [IdleWorker EXCEPT !.jid = Head(queue), !.at = "paced"]
    /\ queue' = Tail(queue)
    /\ queued' = queued \ {Head(queue)}
    /\ UNCHANGED <<photo, row, file, event, marking, past>>

(* Not connected, or the kill switch is on, when its pause ends.           *)
DropHint ==
    /\ worker.at = "paced" /\ past.lapses < MaxLapses
    /\ worker' = IdleWorker
    /\ past' = [past EXCEPT !.lapses = @ + 1]
    /\ UNCHANGED <<photo, row, file, queue, queued, event, marking>>

Finish(new) ==
    /\ row' = [row EXCEPT ![worker.jid] = new]
    /\ worker' = IdleWorker
    /\ UNCHANGED <<photo, queue, queued, event, marking>>

(* checkAvatar: a schedule that has not come is left, or capped.           *)
CheckFresh ==
    /\ worker.at = "paced"
    /\ LET old == row[worker.jid] IN
       /\ old.next # "due"
       /\ worker' = IF old.next = "far" /\ Window(worker.jid) = "soon"
                    THEN [worker EXCEPT !.at = "cap", !.old = [old EXCEPT !.next = "soon"]]
                    ELSE IdleWorker
    /\ UNCHANGED <<photo, row, file, queue, queued, event, marking, past>>

CapSchedule ==
    /\ worker.at = "cap"
    /\ Finish(worker.old)
    /\ UNCHANGED <<file, past>>

CheckDue ==
    /\ worker.at = "paced" /\ row[worker.jid].next = "due"
    /\ worker' = [worker EXCEPT !.at = "ask", !.old = row[worker.jid]]
    /\ UNCHANGED <<photo, row, file, queue, queued, event, marking, past>>

(* GetProfilePictureInfo is asked with the picture id at hand.             *)
Ask ==
    /\ worker.at = "ask"
    /\ worker' = [worker EXCEPT !.at = "answered", !.info = photo[worker.jid]]
    /\ past' = [past EXCEPT !.asked = @ \cup {worker.jid}]
    /\ UNCHANGED <<photo, row, file, queue, queued, event, marking>>

Crossed == IF worker.info # photo[worker.jid] THEN past.told \ {worker.jid} ELSE past.told
Bumped(pic, path) == [pic |-> pic, path |-> path, next |-> Window(worker.jid)]

(* No photo: the file goes, then the row is written.                       *)
NotSet ==
    /\ worker.at = "answered" /\ worker.info = NoPhoto
    /\ file' = [file EXCEPT ![worker.jid] = IF worker.old.path THEN NoPhoto ELSE @]
    /\ worker' = [worker EXCEPT !.at = "gone"]
    /\ UNCHANGED <<photo, row, queue, queued, event, marking, past>>

NotSetRow ==
    /\ worker.at = "gone"
    /\ Finish(Bumped(NoPhoto, FALSE))
    /\ past' = [past EXCEPT !.told = Crossed]
    /\ UNCHANGED file

(* Refused, or no answer: the window is bumped all the same.               *)
AfterError == Bumped(worker.old.pic, worker.old.path)

AskFails ==
    /\ worker.at = "answered" /\ past.lapses < MaxLapses
    /\ Finish(AfterError)
    /\ past' = [past EXCEPT !.told = @ \ {worker.jid}, !.lapses = @ + 1]
    /\ UNCHANGED file

NotModified ==
    /\ worker.at = "answered" /\ worker.info # NoPhoto /\ worker.info = worker.old.pic
    /\ Finish(Bumped(worker.old.pic, worker.old.path))
    /\ past' = [past EXCEPT !.told = Crossed]
    /\ UNCHANGED file

(* downloadAndCacheAvatar: the file, then the row.                         *)
SaveAvatar ==
    /\ worker.at = "answered" /\ worker.info \notin {NoPhoto, worker.old.pic}
    /\ file' = [file EXCEPT ![worker.jid] = worker.info]
    /\ worker' = [worker EXCEPT !.at = "saved"]
    /\ UNCHANGED <<photo, row, queue, queued, event, marking, past>>

StoreAvatar ==
    /\ worker.at = "saved"
    /\ Finish(Bumped(worker.info, TRUE))
    /\ past' = [past EXCEPT !.told = Crossed]
    /\ UNCHANGED file

(* A download that fails leaves the row as it is, schedule included.       *)
DownloadFails ==
    /\ worker.at = "answered" /\ worker.info \notin {NoPhoto, worker.old.pic}
    /\ past.lapses < MaxLapses
    /\ worker' = IdleWorker
    /\ past' = [past EXCEPT !.asked = @ \ {worker.jid}, !.lapses = @ + 1]
    /\ UNCHANGED <<photo, row, file, queue, queued, event, marking>>

AvatarCrash ==
    /\ past.lapses < MaxLapses
    /\ queue' = <<>> /\ queued' = {} /\ worker' = IdleWorker /\ marking' = NoMark
    /\ past' = [past EXCEPT !.asked = {}, !.lapses = @ + 1]
    /\ UNCHANGED <<photo, row, file, event>>

(* handleReset: the photos are in PIUMY_MEDIA_DIR, their rows are kept.    *)
WipePhotos ==
    /\ past.lapses < MaxLapses
    /\ file' = [j \in Numbers |-> NoPhoto]
    /\ past' = [past EXCEPT !.wiped = TRUE, !.lapses = @ + 1]
    /\ UNCHANGED <<photo, row, queue, queued, worker, event, marking>>

-----------------------------------------------------------------------------
(* At start nothing is cached, or a row of an older build waits for days.  *)
AvatarInit ==
    /\ photo = [j \in Numbers |-> NoPhoto]
    /\ row \in [Numbers -> {Unchecked, [Unchecked EXCEPT !.next = "far"]}]
    /\ file = [j \in Numbers |-> NoPhoto]
    /\ queue = <<>> /\ queued = {} /\ worker = IdleWorker /\ event = {} /\ marking = NoMark
    /\ past = [asked |-> {}, told |-> {}, changes |-> 0, wiped |-> FALSE, lapses |-> 0]

Answered == NotSet \/ NotSetRow \/ NotModified \/ SaveAvatar \/ StoreAvatar
Checking == CheckFresh \/ CapSchedule \/ CheckDue \/ Ask

AvatarNext ==
    \/ Dequeue \/ DropHint \/ Checking \/ Answered \/ AskFails \/ DownloadFails
    \/ \E j \in Numbers : RequestAvatar(j) \/ Invalidate(j) \/ WindowPasses(j)
    \/ \E j \in Numbers, new \in Photos, up \in BOOLEAN : PhotoChanges(j, new, up)
    \/ InvalidateWrite \/ AvatarCrash \/ WipePhotos

(* The dashboard keeps showing the number and its hints find room now and  *)
(* then, the worker goes on, calls return and time passes.                 *)
AvatarFairness ==
    /\ \A j \in Numbers :
          /\ SF_avatarVars(RequestAvatar(j))
          /\ WF_avatarVars(WindowPasses(j))
    /\ WF_avatarVars(Dequeue \/ Checking \/ Answered \/ InvalidateWrite)

AvatarSpec == AvatarInit /\ [][AvatarNext]_avatarVars /\ AvatarFairness

-----------------------------------------------------------------------------
(* Properties                                                              *)

AvatarTypeOK ==
    /\ photo \in [Numbers -> Photos] /\ file \in [Numbers -> Photos]
    /\ row \in [Numbers -> Cached]
    /\ queue \in Seq(Numbers) /\ Len(queue) <= QueueCap
    /\ queued = {queue[i] : i \in DOMAIN queue}
    /\ worker \in Working /\ event \subseteq Numbers
    /\ marking \in [jid : Numbers \cup {NoNumber}, old : Cached] /\ past \in Past

(* WhatsApp is not asked about a number twice until a window has passed in *)
(* between, or its photo is known to have changed, or an asking came to    *)
(* nothing because a download failed or the process died, however many     *)
(* hints, changes and resets there were.                                   *)
AsksPaced == worker.at = "ask" => worker.jid \notin past.asked

(* A change that was announced is not kept from the dashboard for days:    *)
(* the row has the new photo or is due, but for a check that failed or     *)
(* that the change crossed.                                                *)
FreshOrDue ==
    \A j \in past.told : row[j].pic = photo[j] \/ row[j].next # "far"

AvatarSafe == AvatarTypeOK /\ AsksPaced /\ FreshOrDue

(* While the dashboard shows a number, sooner or later it shows the photo  *)
(* WhatsApp has of it, when no reset has emptied the directory.            *)
PhotoShown == \A j \in Numbers : <>[](~past.wiped => Shown(j) = photo[j])

(* And after a reset as well: it wipes the history of the account and not  *)
(* "WhatsApp's own current photo" (store/avatar.go:8).                     *)
PhotoSurvivesReset == \A j \in Numbers : <>[](Shown(j) = photo[j])
=============================================================================
