-------------------------------- MODULE Media --------------------------------
(***************************************************************************)
(* The attachments of src/internal/whatsmeow: the live download of         *)
(* handleMessage, the references history sync leaves behind, the           *)
(* background worker and the on-demand pools that fetch them               *)
(* (mediabgworker.go, mediaworker.go), the two tables of store/media.go,   *)
(* the files beside them, and the reset that wipes all of it.              *)
(*                                                                         *)
(* Every statement, every file and every download is a step of its own;    *)
(* claims live in memory, and a failure is recorded after its claim is     *)
(* given back.                                                             *)
(***************************************************************************)
EXTENDS Integers, FiniteSets

CONSTANTS
    Items,        \* messages with an attachment, numbered by their ts
    Chats, ChatOf,
    Popups,       \* on-demand fetches: a chat opened on the dashboard
    MaxAttempts,  \* MaxMediaPendingAttempts
    Pool,         \* onDemandMediaConcurrency
    MaxArrivals, MaxFaults  \* bounds: arrivals; resets and crashes together

ASSUME MediaAssumption ==
    /\ Items \subseteq Nat \ {0} /\ ChatOf \in [Items -> Chats] /\ "bg" \notin Popups
    /\ {MaxAttempts, Pool} \subseteq Nat \ {0}
    /\ {MaxArrivals, MaxFaults} \subseteq Nat

VARIABLES
    pending,   \* media_pending: attempts and which capture, or NoRow
    media,     \* media: items with a row
    files,     \* items with their file in PIUMY_MEDIA_DIR
    messages,  \* messages: items with a row
    claimed,   \* mediaInFlight
    task,      \* what each worker does about each item
    todo,      \* popups: rows they read and have not started on
    handler,   \* the item the live handler is at, and where
    reset,     \* handleReset has emptied the tables and not yet the directory
    hist       \* history, see History

vars == <<pending, media, files, messages, claimed, task, todo, handler, reset, hist>>

Workers == {"bg"} \cup Popups

Captures == 0..MaxArrivals
NoRow == [attempts |-> -1, capture |-> 0]
Waiting(m) == pending[m].attempts \in 0..(MaxAttempts - 1)
GivenUp(m) == pending[m].attempts >= MaxAttempts

(* pc: about to claim; downloading and saving; adding the row; deleting    *)
(* the reference; recording a failure, or a permanent one.                 *)
Claiming == {"download", "row", "forget"}
Task == [pc : {"none", "claim", "fail", "dead"} \cup Claiming, capture : Captures]
NoTask == [pc |-> "none", capture |-> 0]

NoItem == 0
Handlers == [item : Items \cup {NoItem}, step : {"none", "download", "row", "capture"}]

(* failed (up to the cap), dead: what is known against the capture at hand. overtaken:    *)
(* captured again under a worker or a list.  lost: the disk refused the live file.   *)
(* wiped: a reset ran under a worker or a handler.                         *)
History == [failed : [Items -> 0..MaxAttempts], dead : SUBSET Items, overtaken : SUBSET Items,
            lost : SUBSET Items, wiped : SUBSET Items,
            captures : Captures, arrivals : Captures, faults : 0..MaxFaults]

Busy(w) == {m \in Items : task[w][m].pc # "none"}
At(m) == {w \in Workers : task[w][m].pc # "none"}
Listed(m) == \E p \in Popups : \E r \in todo[p] : r[1] = m
UnderWay == {m \in Items : At(m) # {}} \cup {handler.item}
Goto(w, m, pc) == task' = [task EXCEPT ![w][m].pc = pc]
Leave(w, m) == task' = [task EXCEPT ![w][m] = NoTask]

-----------------------------------------------------------------------------
(* Where attachments come from                                             *)

(* AddMediaPending: INSERT OR REPLACE with no attempts.  References are    *)
(* numbered in history.                                                    *)
Capture(m, arrivals) ==
    /\ pending' = [pending EXCEPT ![m] = [attempts |-> 0, capture |-> hist.captures + 1]]
    /\ hist' = [hist EXCEPT !.arrivals = arrivals, !.captures = @ + 1, !.failed[m] = 0, !.dead = @ \ {m},
                            !.overtaken = IF At(m) # {} \/ Listed(m) THEN @ \cup {m} ELSE @ \ {m}]

(* A live message, perhaps one that history brought or that comes again.   *)
LiveBegin(m) ==
    /\ handler.item = NoItem /\ hist.arrivals < MaxArrivals
    /\ handler' = [handler EXCEPT !.item = m, !.step = "download"]
    /\ hist' = [hist EXCEPT !.arrivals = @ + 1]
    /\ UNCHANGED <<pending, media, files, messages, claimed, task, todo, reset>>

(* downloadAndStoreMedia, which claims nothing.                            *)
LiveSaved ==
    /\ handler.step = "download"
    /\ files' = files \cup {handler.item}
    /\ handler' = [handler EXCEPT !.step = "row"]
    /\ UNCHANGED <<pending, media, messages, claimed, task, todo, reset, hist>>

LiveFails ==
    /\ handler.step = "download"
    /\ handler' = [handler EXCEPT !.step = "capture"]
    /\ UNCHANGED <<pending, media, files, messages, claimed, task, todo, reset, hist>>

(* The handler then hands the message to the pipeline, which stores it.    *)
LiveDone ==
    /\ messages' = messages \cup {handler.item}
    /\ handler' = [handler EXCEPT !.item = NoItem, !.step = "none"]
    /\ UNCHANGED <<claimed, task, todo, reset>>

LiveSaveFails ==
    /\ handler.step = "download"
    /\ hist' = [hist EXCEPT !.lost = @ \cup {handler.item}]
    /\ LiveDone
    /\ UNCHANGED <<pending, media, files>>

LiveRow ==
    /\ handler.step = "row"
    /\ media' = media \cup {handler.item}
    /\ LiveDone
    /\ UNCHANGED <<pending, files, hist>>

LiveCapture ==
    /\ handler.step = "capture"
    /\ Capture(handler.item, hist.arrivals)
    /\ LiveDone
    /\ UNCHANGED <<media, files>>

(* persistHistoryMessage captures without asking what is there, then adds  *)
(* the message; dying in between leaves a reference of no message.         *)
PersistHistoryMessage(m) ==
    /\ hist.arrivals < MaxArrivals
    /\ Capture(m, hist.arrivals + 1)
    /\ messages' = messages \cup {m}
    /\ UNCHANGED <<media, files, claimed, task, todo, handler, reset>>

-----------------------------------------------------------------------------
(* Who fetches them                                                        *)

Oldest(S) == CHOOSE m \in S : \A n \in S : m <= n

(* mediaBgWorkerLoop: the oldest row under the cap, one at a time.  That   *)
(* the tick found a connection and the kill switch off is taking the step. *)
NextMediaPending ==
    /\ Busy("bg") = {}
    /\ \E m \in Items : Waiting(m)
    /\ LET m == Oldest({n \in Items : Waiting(n)})
       IN  task' = [task EXCEPT !["bg"][m] = [pc |-> "claim", capture |-> pending[m].capture]]
    /\ UNCHANGED <<pending, media, files, messages, claimed, todo, handler, reset, hist>>

(* fetchPendingMediaParallel reads the chat's rows once, all of them.      *)
OpenChat(p, c) ==
    /\ todo[p] = {} /\ Busy(p) = {}
    /\ todo' = [todo EXCEPT ![p] = {<<m, pending[m].capture>> :
                                     m \in {n \in Items : ChatOf[n] = c /\ Waiting(n)}}]
    /\ UNCHANGED <<pending, media, files, messages, claimed, task, handler, reset, hist>>

(* The kill switch is on when the pool comes to its next row.              *)
KilledList(p) ==
    /\ todo[p] # {} /\ Cardinality(Busy(p)) < Pool
    /\ todo' = [todo EXCEPT ![p] = {}]
    /\ UNCHANGED <<pending, media, files, messages, claimed, task, handler, reset, hist>>

(* claimMediaDownload *)
MayClaim(m) == m \notin claimed

Claim(w, m, capture) ==
    IF MayClaim(m)
    THEN claimed' = claimed \cup {m} /\ task' = [task EXCEPT ![w][m] = [pc |-> "download", capture |-> capture]]
    ELSE UNCHANGED claimed /\ Leave(w, m)

ClaimNext(m) ==
    /\ task["bg"][m].pc = "claim"
    /\ Claim("bg", m, task["bg"][m].capture)
    /\ UNCHANGED <<pending, media, files, messages, todo, handler, reset, hist>>

ClaimListed(p) ==
    /\ Cardinality(Busy(p)) < Pool
    /\ \E r \in todo[p] :
          /\ r[1] = Oldest({s[1] : s \in todo[p]})
          /\ todo' = [todo EXCEPT ![p] = @ \ {r}]
          /\ Claim(p, r[1], r[2])
    /\ UNCHANGED <<pending, media, files, messages, handler, reset, hist>>

(* downloadMediaPending: the file is saved, then the row added, then the   *)
(* reference deleted and the claim given back.  The mutant deletes first.  *)
ScriptForgetFirst == [download |-> "forget", forget |-> "row", row |-> "none"]
Script == [download |-> "row", row |-> "forget", forget |-> "none"]

Advance(w, m) ==
    LET next == Script[task[w][m].pc] IN
    IF next = "none" THEN Leave(w, m) /\ claimed' = claimed \ {m}
                     ELSE Goto(w, m, next) /\ UNCHANGED claimed

Saved(w, m) ==
    /\ task[w][m].pc = "download"
    /\ files' = files \cup {m}
    /\ Advance(w, m)
    /\ UNCHANGED <<pending, media, messages, todo, handler, reset, hist>>

AddRow(w, m) ==
    /\ task[w][m].pc = "row"
    /\ media' = media \cup {m}
    /\ Advance(w, m)
    /\ UNCHANGED <<pending, files, messages, todo, handler, reset, hist>>

Forget(w, m) ==
    /\ task[w][m].pc = "forget"
    /\ pending' = [pending EXCEPT ![m] = NoRow]
    /\ Advance(w, m)
    /\ UNCHANGED <<media, files, messages, todo, handler, reset, hist>>

(* The download or the disk fails, and the claim is given back; dead: the  *)
(* reference has expired.                                                  *)
Fails(w, m, dead) ==
    /\ task[w][m].pc = "download"
    /\ claimed' = claimed \ {m}
    /\ Goto(w, m, IF dead THEN "dead" ELSE "fail")
    /\ hist' = IF task[w][m].capture # pending[m].capture THEN hist
               ELSE [hist EXCEPT !.failed[m] = IF @ < MaxAttempts THEN @ + 1 ELSE @, !.dead = IF dead THEN @ \cup {m} ELSE @]
    /\ UNCHANGED <<pending, media, files, messages, todo, handler, reset>>

(* applyMediaDownloadFailure, on whatever row is there by now.  Mutant: an *)
(* expired reference is the only failure counted.                          *)
CountedIfDead(attempts, dead) == IF dead THEN MaxAttempts ELSE attempts
Counted(attempts, dead) == IF dead THEN MaxAttempts ELSE attempts + 1

RecordFailure(w, m) ==
    /\ task[w][m].pc \in {"fail", "dead"}
    /\ pending' = IF pending[m] = NoRow THEN pending
                  ELSE [pending EXCEPT ![m].attempts = Counted(@, task[w][m].pc = "dead")]
    /\ Leave(w, m)
    /\ UNCHANGED <<media, files, messages, claimed, todo, handler, reset, hist>>

-----------------------------------------------------------------------------
(* The rest                                                                *)

(* handleReset: ResetMessagingData in one transaction, then the directory. *)
Wiped == hist.wiped \cup (UnderWay \ {NoItem})

ResetBegin ==
    /\ ~reset /\ hist.faults < MaxFaults
    /\ reset' = TRUE
    /\ pending' = [m \in Items |-> NoRow] /\ media' = {} /\ messages' = {}
    /\ hist' = [hist EXCEPT !.faults = @ + 1, !.wiped = Wiped, !.lost = {}]
    /\ UNCHANGED <<files, claimed, task, todo, handler>>

(* Rows added since the tables were emptied lose their files as well.      *)
ResetEnd ==
    /\ reset
    /\ reset' = FALSE
    /\ files' = {}
    /\ hist' = [hist EXCEPT !.wiped = Wiped \cup media]
    /\ UNCHANGED <<pending, media, messages, claimed, task, todo, handler>>

(* Claims, lists and handlers are memory.                                  *)
Crash ==
    /\ hist.faults < MaxFaults
    /\ claimed' = {} /\ task' = [w \in Workers |-> [m \in Items |-> NoTask]]
    /\ todo' = [p \in Popups |-> {}]
    /\ handler' = [item |-> NoItem, step |-> "none"]
    /\ reset' = FALSE
    /\ hist' = [hist EXCEPT !.faults = @ + 1]
    /\ UNCHANGED <<pending, media, files, messages>>

Init ==
    /\ pending = [m \in Items |-> NoRow]
    /\ media = {} /\ files = {} /\ messages = {} /\ claimed = {}
    /\ task = [w \in Workers |-> [m \in Items |-> NoTask]]
    /\ todo = [p \in Popups |-> {}]
    /\ handler = [item |-> NoItem, step |-> "none"]
    /\ reset = FALSE
    /\ hist = [failed |-> [m \in Items |-> 0], dead |-> {}, overtaken |-> {}, lost |-> {},
               wiped |-> {}, captures |-> 0, arrivals |-> 0, faults |-> 0]

Source ==
    \/ \E m \in Items : LiveBegin(m) \/ PersistHistoryMessage(m)
    \/ LiveSaved \/ LiveFails \/ LiveSaveFails \/ LiveRow \/ LiveCapture

Fetch(w) ==
    \/ w = "bg" /\ \E m \in Items : ClaimNext(m)
    \/ \E m \in Items : Saved(w, m) \/ AddRow(w, m) \/ Forget(w, m) \/ RecordFailure(w, m)
    \/ \E m \in Items, dead \in BOOLEAN : Fails(w, m, dead)

Next ==
    \/ Source \/ NextMediaPending
    \/ \E w \in Workers : Fetch(w)
    \/ \E p \in Popups : ClaimListed(p) \/ KilledList(p) \/ \E c \in Chats : OpenChat(p, c)
    \/ ResetBegin \/ ResetEnd \/ Crash

Spec == Init /\ [][Next]_vars

(* Ticks keep coming, and one after another finds the connection up and    *)
(* the kill switch off while there is a row to fetch; whatsmeow's calls    *)
(* return, one way or another.                                             *)
MediaFairness ==
    /\ SF_vars(NextMediaPending)
    /\ \A w \in Workers : WF_vars(Fetch(w))

FairSpec == Spec /\ MediaFairness

-----------------------------------------------------------------------------
(* Properties                                                              *)

MediaTypeOK ==
    /\ pending \in [Items -> [attempts : Int, capture : Captures]]
    /\ {media, files, messages, claimed} \subseteq SUBSET Items
    /\ task \in [Workers -> [Items -> Task]]
    /\ todo \in [Popups -> SUBSET (Items \X Captures)]
    /\ handler \in Handlers /\ reset \in BOOLEAN
    /\ hist \in History
    /\ claimed = {m \in Items : \E w \in Workers : task[w][m].pc \in Claiming}

(* An attachment is never forgotten: a stored message's file is there, or  *)
(* its reference is, whatever failed and whenever the process died.        *)
NothingForgotten ==
    messages \subseteq media \cup {m \in Items : pending[m] # NoRow} \cup hist.lost \cup hist.wiped

(* What the media table offers is on the disk.                             *)
RowHasFile == media \subseteq files \cup hist.wiped

(* The background worker and the on-demand pools never download the same   *)
(* row at the same time, however stale their lists are.                    *)
OneDownloadAtATime ==
    \A m \in Items : Cardinality({w \in Workers : task[w][m].pc \in Claiming}) <= 1

(* An attachment is given up for its own failures only: MaxAttempts of     *)
(* them, or an expired reference, since it was captured last; a failure    *)
(* of an older reference that was still being fetched aside.               *)
GivenUpHonestly ==
    \A m \in Items \ hist.overtaken :
        GivenUp(m) => m \in hist.dead \/ hist.failed[m] >= MaxAttempts

MediaSafe ==
    /\ MediaTypeOK /\ NothingForgotten /\ RowHasFile
    /\ OneDownloadAtATime /\ GivenUpHonestly

(* One dead attachment does not hold up the queue: every row waiting to be *)
(* fetched is downloaded or given up, whatever else keeps failing.         *)
QueueMoves == \A m \in Items : []<>~Waiting(m)
=============================================================================
