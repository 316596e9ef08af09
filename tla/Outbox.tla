------------------------------- MODULE Outbox -------------------------------
(***************************************************************************)
(* The outbox drain of src/internal/corepipeline, the only code that sends *)
(* to WhatsApp, with the rows it works on (store/outbox.go), the anti-ban  *)
(* governor, the kill switch and its persistence, and crashes, shutdowns   *)
(* and restarts of the process between any two of its steps.               *)
(*                                                                         *)
(* One goroutine drains.  drain.pc says where it stands: every sleep, send *)
(* and database write is a point at which the kill switch may be thrown,   *)
(* the context cancelled or the process killed.                            *)
(***************************************************************************)
EXTENDS Integers, Sequences, FiniteSets

CONSTANTS
    NumItems,      \* bound: the outbox rows of a behaviour
    BadItems,      \* rows with an empty JID
    MediaItems,    \* rows that carry a file: one send, never split
    TextLen,       \* words of a reply
    Sizes,         \* values of chunkMaxLen, in words
    MaxRetry,      \* OutboxMaxRetry
    DailyMax,      \* the daily cap; 0 disables it
    Burst,         \* tokens of the per-minute bucket
    LostAcks,      \* TRUE: a send may fail after WhatsApp took the message
    Trips,         \* TRUE: a ban or a logout may throw the kill switch
    MaxRestarts,   \* bound: restarts of a behaviour
    MaxDay,        \* bound: midnights of a behaviour
    MaxKillCalls   \* bound: calls of set_kill_switch

Items == 1..NumItems   \* the values of seq

ASSUME OutboxAssumption ==
    /\ NumItems \in Nat
    /\ BadItems \subseteq Items
    /\ MediaItems \subseteq Items
    /\ Sizes \subseteq 1..TextLen
    /\ {TextLen, MaxRetry, Burst} \subseteq Nat \ {0}
    /\ {DailyMax, MaxRestarts, MaxDay, MaxKillCalls} \subseteq Nat
    /\ {LostAcks, Trips} \subseteq BOOLEAN

VARIABLES
    row,          \* the outbox table
    chunkMaxLen,  \* the setting
    drain,        \* the drain goroutine
    gov,          \* governor.Limiter
    muted,        \* state.Status.Muted
    killSetting,  \* the persisted kill_switch setting
    killCall,     \* the call of set_kill_switch under way
    connected,
    stopping,     \* the pipeline's context is cancelled
    day,
    rowsToday,    \* outbound rows in messages since midnight
    hist          \* history, see History

vars == <<row, chunkMaxLen, drain, gov, muted, killSetting, killCall, connected,
          stopping, day, rowsToday, hist>>

Words == 1..TextLen

Row == [st : {"absent", "queued", "sent", "dead"}, retry : 0..MaxRetry - 1,
        due : BOOLEAN, progress : 0..TextLen]

Drain == [pc : {"idle", "next", "pace", "compose", "record", "progress",
                "more", "finish"},
          batch : Seq(Items),
          at : 0..TextLen,            \* pieces of the head of batch done
          len : Sizes,                \* chunkMaxLen when it was split
          on : 0..MaxDay]             \* the day of its admission, then of its sending

Governor == [kill : BOOLEAN, today : 0..MaxDay, count : Nat, tokens : 0..Burst]

(* copies: how often the contact received each word.  unacked: sends of an *)
(* item that WhatsApp took and no row accounts for.  calls: sends tried.   *)
(* sentToday, excused: what went out today, and how much of it today's     *)
(* count cannot know of.  sinceKill: sends since the brake is on.  brake:  *)
(* what the last complete order to the kill switch was.                    *)
History ==
    [copies : [Items -> [Words -> Nat]], unacked : [Items -> Nat],
     calls : [Items -> Nat], sentToday : Nat, excused : Nat, sinceKill : Nat,
     brake : BOOLEAN, restarts : 0..MaxRestarts, killCalls : 0..MaxKillCalls]

OutboxTypeOK ==
    /\ row \in [Items -> Row]
    /\ chunkMaxLen \in Sizes
    /\ drain \in Drain
    /\ gov \in Governor
    /\ {muted, killSetting, connected, stopping} \subseteq BOOLEAN
    /\ killCall \in [todo : Seq({"governor", "state"}), kill : BOOLEAN]
    /\ day \in 0..MaxDay
    /\ rowsToday \in Nat
    /\ hist \in History

-----------------------------------------------------------------------------
NoCall == [todo |-> <<>>, kill |-> FALSE]

killSwitchActive == gov.kill \/ muted

Cur == Head(drain.batch)

CeilDiv(a, b) == (a + b - 1) \div b

\* splitIntoChunks: consecutive pieces of at most len words; media is one.
Pieces(i, len) == IF i \in MediaItems THEN 1 ELSE CeilDiv(TextLen, len)
Piece(i, len, k) ==
    IF i \in MediaItems THEN Words ELSE {w \in Words : CeilDiv(w, len) = k + 1}

(* Limiter.Allow: the kill switch, the daily cap, which starts over on a   *)
(* new day, and the bucket.  A refusal also rolls the day over.            *)
Today == IF gov.today = day THEN gov.count ELSE 0
Allow == ~gov.kill /\ (DailyMax > 0 => Today < DailyMax) /\ gov.tokens >= 1
Admit == gov' = [gov EXCEPT !.today = day, !.count = Today + 1, !.tokens = @ - 1]
Refuse == gov' = IF gov.kill THEN gov
                             ELSE [gov EXCEPT !.today = day, !.count = Today]

Goto(pc) == drain' = [drain EXCEPT !.pc = pc]
Rest == drain' = [drain EXCEPT !.pc = "idle", !.batch = <<>>, !.at = 0]
NextItem == drain' = [drain EXCEPT !.pc = "next", !.batch = Tail(@), !.at = 0]

\* Mutant of DueOutbox: a row that was put off is never due again.
DueFreshOnly == {i \in Items : row[i].st = "queued" /\ row[i].retry = 0}
DueOutbox == {i \in Items : row[i].st = "queued" /\ row[i].due}
InSeqOrder(S) ==
    CHOOSE s \in [1..Cardinality(S) -> S] :
        \A j, k \in 1..Cardinality(S) : j < k => s[j] < s[k]

-----------------------------------------------------------------------------
Init ==
    /\ row = [i \in Items |-> [st |-> "absent", retry |-> 0, due |-> TRUE,
                               progress |-> 0]]
    /\ chunkMaxLen \in Sizes
    /\ drain = [pc |-> "idle", batch |-> <<>>, at |-> 0, len |-> chunkMaxLen,
                on |-> 0]
    /\ gov = [kill |-> FALSE, today |-> 0, count |-> 0, tokens |-> Burst]
    /\ muted = FALSE
    /\ killSetting = FALSE
    /\ killCall = NoCall
    /\ connected = FALSE
    /\ stopping = FALSE
    /\ day = 0
    /\ rowsToday = 0
    /\ hist = [copies |-> [i \in Items |-> [w \in Words |-> 0]],
               unacked |-> [i \in Items |-> 0], calls |-> [i \in Items |-> 0],
               sentToday |-> 0, excused |-> 0, sinceKill |-> 0, brake |-> FALSE,
               restarts |-> 0, killCalls |-> 0]

kept == <<chunkMaxLen, muted, killSetting, killCall, connected, stopping, day>>

\* EnqueueWithModel and its siblings: rows are numbered as they are inserted.
Enqueue(i) ==
    /\ row[i].st = "absent"
    /\ \A j \in Items : j < i => row[j].st # "absent"
    /\ row' = [row EXCEPT ![i].st = "queued"]
    /\ UNCHANGED <<kept, drain, gov, rowsToday, hist>>

-----------------------------------------------------------------------------
(* processOutbox                                                           *)

\* A tick of outboxLoop reads the due rows, unless disconnected.
Tick ==
    /\ drain.pc = "idle"
    /\ ~stopping
    /\ connected
    /\ DueOutbox # {}
    /\ drain' = [drain EXCEPT !.pc = "next", !.batch = InSeqOrder(DueOutbox)]
    /\ UNCHANGED <<kept, row, gov, rowsToday, hist>>

\* The head of the loop: nothing left, shutting down, killed, or over a limit.
LoopEnds ==
    /\ drain.pc = "next"
    /\ IF drain.batch = <<>> \/ stopping \/ killSwitchActive
       THEN UNCHANGED gov
       ELSE ~Allow /\ Refuse
    /\ Rest
    /\ UNCHANGED <<kept, row, rowsToday, hist>>

CanTake ==
    /\ drain.pc = "next"
    /\ drain.batch # <<>>
    /\ ~stopping
    /\ ~killSwitchActive
    /\ Allow

SkipBadJID ==
    /\ CanTake
    /\ Cur \in BadItems
    /\ Admit
    /\ row' = [row EXCEPT ![Cur].st = "sent"]
    /\ NextItem
    /\ UNCHANGED <<kept, rowsToday, hist>>

TakeItem ==
    /\ CanTake
    /\ Cur \notin BadItems
    /\ Admit
    /\ drain' = [drain EXCEPT !.pc = "pace", !.on = day]
    /\ UNCHANGED <<kept, row, rowsToday, hist>>

\* Mutants of ResumeAt: all over again; one piece too far.
ResumeAtStart(i) == 0
ResumeAfterNext(i) == IF row[i].progress = 0 THEN 0 ELSE row[i].progress + 1

ResumeAt(i) == IF i \in MediaItems THEN 0 ELSE row[i].progress

(* The dispatch delay is over: check the kill switch again, split the      *)
(* reply by today's chunkMaxLen and go on after the pieces already sent.   *)
Paced ==
    /\ drain.pc = "pace"
    /\ IF killSwitchActive
       THEN Rest
       ELSE LET from == ResumeAt(Cur)
            IN  drain' = [drain EXCEPT !.len = chunkMaxLen, !.at = from,
                            !.pc = IF from < Pieces(Cur, chunkMaxLen)
                                   THEN "compose" ELSE "finish"]
    /\ UNCHANGED <<kept, row, gov, rowsToday, hist>>

\* A select in a delay sees the cancelled context.
Cancelled ==
    /\ drain.pc \in {"pace", "compose", "more"}
    /\ stopping
    /\ Rest
    /\ UNCHANGED <<kept, row, gov, rowsToday, hist>>

Took(h) ==
    [h EXCEPT !.copies[Cur] = [w \in Words |->
                  IF w \in Piece(Cur, drain.len, drain.at) THEN @[w] + 1 ELSE @[w]],
              !.calls[Cur] = @ + 1,
              !.sentToday = @ + 1,
              !.excused = IF drain.on # day THEN @ + 1 ELSE @,
              !.sinceKill = IF killSwitchActive THEN @ + 1 ELSE 0]

\* gw.Send or gw.SendMedia, after the composing delay, succeeds.
SendOk ==
    /\ drain.pc = "compose"
    /\ connected
    /\ hist' = Took(hist)
    /\ drain' = [drain EXCEPT !.pc = "record", !.on = day]
    /\ UNCHANGED <<kept, row, gov, rowsToday>>

RetryOrDeadLetter(i) ==
    row' = IF row[i].retry + 1 >= MaxRetry
           THEN [row EXCEPT ![i].st = "dead"]
           ELSE [row EXCEPT ![i].retry = @ + 1, ![i].due = FALSE]

(* The send fails, or the file of a media item cannot be read; with        *)
(* LostAcks the contact may have received the piece all the same.          *)
SendFails ==
    /\ drain.pc = "compose"
    /\ RetryOrDeadLetter(Cur)
    /\ \/ hist' = [hist EXCEPT !.calls[Cur] = @ + 1]
       \/ LostAcks /\ connected
          /\ hist' = [Took(hist) EXCEPT !.unacked[Cur] = @ + 1,
                                     !.excused = hist.excused + 1]
    /\ NextItem
    /\ UNCHANGED <<kept, gov, rowsToday>>

\* store.AddMessage with the id WhatsApp gave the message.
RecordSent ==
    /\ drain.pc = "record"
    /\ rowsToday' = IF drain.on = day THEN rowsToday + 1 ELSE rowsToday
    /\ Goto(IF Cur \in MediaItems THEN "finish" ELSE "progress")
    /\ UNCHANGED <<kept, row, gov, hist>>

\* SetOutboxChunkProgress; then the next piece or the end of the reply.
SaveProgress ==
    /\ drain.pc = "progress"
    /\ row' = [row EXCEPT ![Cur].progress = drain.at + 1]
    /\ drain' = [drain EXCEPT !.at = @ + 1,
                   !.pc = IF drain.at + 1 < Pieces(Cur, drain.len)
                          THEN "more" ELSE "finish"]
    /\ UNCHANGED <<kept, gov, rowsToday, hist>>


MayGoOn == ~killSwitchActive

\* The delay between two pieces is over: every piece needs its own token.
NextPiece ==
    /\ drain.pc = "more"
    /\ IF ~MayGoOn THEN Rest /\ UNCHANGED gov
       ELSE IF ~Allow THEN Rest /\ Refuse
       ELSE /\ Admit
            /\ drain' = [drain EXCEPT !.pc = "compose", !.on = day]
    /\ UNCHANGED <<kept, row, rowsToday, hist>>

Finish ==
    /\ drain.pc = "finish"
    /\ row' = [row EXCEPT ![Cur].st = "sent"]
    /\ NextItem
    /\ UNCHANGED <<kept, gov, rowsToday, hist>>

-----------------------------------------------------------------------------
(* The world around the drain                                              *)

BackoffOver(i) ==
    /\ ~row[i].due
    /\ row' = [row EXCEPT ![i].due = TRUE]
    /\ UNCHANGED <<kept, drain, gov, rowsToday, hist>>

Refill ==
    /\ gov.tokens < Burst
    /\ gov' = [gov EXCEPT !.tokens = @ + 1]
    /\ UNCHANGED <<kept, row, drain, rowsToday, hist>>

Connect ==
    /\ ~connected
    /\ connected' = TRUE
    /\ UNCHANGED <<row, chunkMaxLen, drain, gov, muted, killSetting, killCall,
                   stopping, day, rowsToday, hist>>

Disconnect ==
    /\ connected
    /\ connected' = FALSE
    /\ UNCHANGED <<row, chunkMaxLen, drain, gov, muted, killSetting, killCall,
                   stopping, day, rowsToday, hist>>

SetChunkMaxLen(len) ==
    /\ chunkMaxLen' = len
    /\ UNCHANGED <<row, drain, gov, muted, killSetting, killCall, connected,
                   stopping, day, rowsToday, hist>>

Midnight ==
    /\ day < MaxDay
    /\ day' = day + 1
    /\ rowsToday' = 0
    /\ hist' = [hist EXCEPT !.sentToday = 0, !.excused = 0]
    /\ UNCHANGED <<row, chunkMaxLen, drain, gov, muted, killSetting, killCall,
                   connected, stopping>>

\* Mutant of PersistKill: the order is given but not stored.
OrderKillUnstored(kill) ==
    /\ killCall = NoCall
    /\ hist.killCalls < MaxKillCalls
    /\ killCall' = [todo |-> <<"governor", "state">>, kill |-> kill]
    /\ hist' = [hist EXCEPT !.killCalls = @ + 1]
    /\ UNCHANGED <<row, chunkMaxLen, drain, gov, muted, killSetting, connected,
                   stopping, day, rowsToday>>

(* set_kill_switch (MCP) and POST kill switch (REST): the setting first,   *)
(* then the governor, then the state.                                      *)
PersistKill(kill) ==
    /\ killCall = NoCall
    /\ hist.killCalls < MaxKillCalls
    /\ killSetting' = kill
    /\ killCall' = [todo |-> <<"governor", "state">>, kill |-> kill]
    /\ hist' = [hist EXCEPT !.killCalls = @ + 1]
    /\ UNCHANGED <<row, chunkMaxLen, drain, gov, muted, connected, stopping, day,
                   rowsToday>>

ApplyKill ==
    /\ killCall # NoCall
    /\ IF Head(killCall.todo) = "governor"
       THEN /\ gov' = [gov EXCEPT !.kill = killCall.kill]
            /\ killCall' = [killCall EXCEPT !.todo = Tail(@)]
            /\ hist' = [hist EXCEPT !.sinceKill = IF killCall.kill \/ muted THEN @ ELSE 0]
            /\ UNCHANGED muted
       ELSE /\ muted' = killCall.kill
            /\ killCall' = NoCall
            /\ hist' = [hist EXCEPT !.brake = killCall.kill,
                          !.sinceKill = IF killCall.kill \/ gov.kill THEN @ ELSE 0]
            /\ UNCHANGED gov
    /\ UNCHANGED <<row, chunkMaxLen, drain, killSetting, connected, stopping, day,
                   rowsToday>>

\* WhatsApp bans the account or logs it out: both halves go on, in memory.
Trip ==
    /\ Trips
    /\ muted' = TRUE
    /\ gov' = [gov EXCEPT !.kill = TRUE]
    /\ connected' = FALSE
    /\ hist' = [hist EXCEPT !.brake = TRUE]
    /\ UNCHANGED <<row, chunkMaxLen, drain, killSetting, killCall, stopping, day,
                   rowsToday>>

\* The tray's Quit or a signal: Controller.Stop cancels the context.
Stop ==
    /\ ~stopping
    /\ hist.restarts < MaxRestarts
    /\ stopping' = TRUE
    /\ UNCHANGED <<row, chunkMaxLen, drain, gov, muted, killSetting, killCall,
                   connected, day, rowsToday, hist>>

\* Mutant of SeededGovernor: the daily count starts over.
UnseededGovernor ==
    [kill |-> killSetting, today |-> day, count |-> 0, tokens |-> Burst]

\* main: a full bucket, SeedDailyCount and restoreKillSwitch.
SeededGovernor ==
    [kill |-> killSetting, today |-> day, count |-> rowsToday, tokens |-> Burst]

(* The process ends and comes up again: at any point when it is killed,    *)
(* with the drain at rest after Stop.  The tables and settings are all     *)
(* that is left; a send that was not recorded yet is forgotten.            *)
Restart ==
    /\ hist.restarts < MaxRestarts
    /\ gov' = SeededGovernor
    /\ muted' = killSetting
    /\ drain' = [pc |-> "idle", batch |-> <<>>, at |-> 0, len |-> chunkMaxLen,
                 on |-> 0]
    /\ killCall' = NoCall
    /\ connected' = FALSE
    /\ stopping' = FALSE
    /\ hist' =
         LET h == [hist EXCEPT !.restarts = @ + 1,
                     !.sinceKill = IF killSetting THEN @ ELSE 0,
                     !.brake = IF killCall # NoCall THEN killSetting ELSE @]
         IN  CASE drain.pc = "record" ->
                    [h EXCEPT !.unacked[Cur] = @ + 1,
                              !.excused = IF drain.on = day THEN @ + 1 ELSE @]
               [] drain.pc = "progress"
                  \/ (drain.pc = "finish" /\ Cur \in MediaItems) ->
                    [h EXCEPT !.unacked[Cur] = @ + 1]
               [] OTHER -> h
    /\ UNCHANGED <<row, chunkMaxLen, killSetting, day, rowsToday>>

DrainStep ==
    \/ LoopEnds \/ SkipBadJID \/ TakeItem \/ Paced \/ Cancelled \/ SendOk
    \/ SendFails \/ RecordSent \/ SaveProgress \/ NextPiece \/ Finish

Next ==
    \/ \E i \in Items : Enqueue(i) \/ BackoffOver(i)
    \/ Tick
    \/ DrainStep
    \/ Refill \/ Connect \/ Disconnect \/ Midnight
    \/ \E len \in Sizes : SetChunkMaxLen(len)
    \/ \E kill \in BOOLEAN : PersistKill(kill)
    \/ ApplyKill \/ Trip \/ Stop \/ Restart

Spec == Init /\ [][Next]_vars

(* The loop runs, backoffs and delays elapse, the bucket refills, calls    *)
(* return, WhatsApp reconnects, and a process that was stopped or killed   *)
(* is started again.  A tick needs a connection at the moment it fires,    *)
(* which may come and go: strong fairness.  Nothing says a send succeeds.  *)
FairSpec ==
    /\ Spec
    /\ SF_vars(Tick)
    /\ WF_vars(DrainStep)
    /\ WF_vars(Refill)
    /\ WF_vars(Connect)
    /\ WF_vars(ApplyKill)
    /\ WF_vars(stopping /\ drain.pc = "idle" /\ Restart)
    /\ \A i \in Items : WF_vars(BackoffOver(i))

-----------------------------------------------------------------------------
(* What the drain promises                                                 *)

(* No text is skipped: at any moment the contact has received the reply up *)
(* to some word, and all of it once the row is marked sent, whatever       *)
(* failed, crashed or was shut down on the way.                            *)
NothingSkipped ==
    \A i \in Items :
        /\ \A v, w \in Words :
              v < w /\ hist.copies[i][w] > 0 => hist.copies[i][v] > 0
        /\ row[i].st = "sent" /\ i \notin BadItems =>
              \A w \in Words : hist.copies[i][w] > 0

(* The contact reads a word twice only if WhatsApp took a piece and the    *)
(* process did not live, or was not told, to write it down: a failing      *)
(* later piece, a rate limit or a shutdown never repeats an earlier one.   *)
RepeatsExcused ==
    \A i \in Items, w \in Words :
        hist.copies[i][w] <= 1 + hist.unacked[i]

(* A row is not retried for ever, even when every restart and every lost   *)
(* acknowledgement falls on the same row.                                  *)
AttemptsBounded ==
    \A i \in Items :
        hist.calls[i] <= TextLen + MaxRetry + hist.restarts

(* The daily cap holds across restarts, up to the sends a crash left no    *)
(* row of, or that were admitted before midnight and went out after it.    *)
DailyCap == DailyMax > 0 => hist.sentToday <= DailyMax + hist.excused

(* Once the brake is on at most the one piece already being composed goes  *)
(* out, however many rows and pieces are waiting.                          *)
AtMostOneAfterKill == hist.sinceKill <= 1

(* The limits of the drain: what protects the number from a ban.           *)
OutboxSafe == OutboxTypeOK /\ AttemptsBounded /\ DailyCap /\ AtMostOneAfterKill

(* The brake stays on, across restarts, until it is ordered off.           *)
BrakeHonoured == hist.brake /\ killCall = NoCall => killSwitchActive

(* Every reply is settled: sent, or dead-lettered for someone to look at,  *)
(* unless the kill switch is thrown.                                       *)
Settled ==
    \A i \in Items : []<>(row[i].st # "queued" \/ killSwitchActive)

=============================================================================
