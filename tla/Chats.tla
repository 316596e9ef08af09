-------------------------------- MODULE Chats --------------------------------
(***************************************************************************)
(* The row of one 1:1 chat (src/internal/store/chat.go) and whoever writes *)
(* it: the dashboard and the agents' tools, which decide how the chat is   *)
(* served; inbound messages, the sync of contacts and the reconnection of  *)
(* the owner's own number, which only apply defaults; agents that claim it *)
(* and send to it.                                                         *)
(*                                                                         *)
(* SQLite runs one statement at a time and no caller uses a transaction:   *)
(* a call is the list of its statements, each <<what, argument>>, and runs *)
(* one of them per step; a statement that reads decides what follows it.   *)
(* The argument is "chat" where the statement needs no other.              *)
(***************************************************************************)
EXTENDS Integers, Sequences, FiniteSets

CONSTANTS
    Callers,    \* requests in flight; a caller is also the model it sends as
    Free,       \* nobody's claim
    Messages,
    Rows,       \* the chat's row when the run begins: one of these
    Defaults,   \* the levels the owner may choose for chats nobody decided on
    Levels,     \* the levels callers ask for
    MaxCalls    \* bound

Switch == {"on", "off"}
Modes == {"auto", "dedicated"}
OffStatuses == {"ignored", "blacklist"}  \* ChatIsOff
Statuses == OffStatuses \cup {"new", "whitelist", "exclusive"}
AllLevels == {"boss", "auto", "confirm", "unattended", "ignored"}
Origins == {"new", "contact"}

Row == [exists : BOOLEAN, status : Statuses, active : BOOLEAN,
        conf : {"none", "discretion", "always"}, boss : BOOLEAN, touched : BOOLEAN,
        manual : BOOLEAN, contact : BOOLEAN, mode : Modes, modeManual : BOOLEAN,
        claim : Callers \cup {Free}]

ASSUME ChatsAssumption ==
    /\ Free \notin Callers
    /\ Rows \subseteq Row /\ Defaults \subseteq AllLevels \ {"boss"}
    /\ Levels \subseteq AllLevels
    /\ MaxCalls \in Nat

VARIABLES
    row,
    msgs,    \* absent, recent, old (the activation window has passed) or closed
    kv,      \* config_level_default_new and _contact
    router,  \* [cfg, file]: the mode router.json gives the chat, in memory and on disk
    caller,  \* the calls in flight
    hist     \* history, see History

vars == <<row, msgs, kv, router, caller, hist>>

(* job: none, level (set_config_level), decide (another setter of how the  *)
(* chat is served) or other; alone: no other such call has overlapped it.  *)
NoCall == [todo |-> <<>>, job |-> "none", level |-> "none", alone |-> TRUE]

(* level: what the last set_config_level asked for, unless another decision*)
(* overlapped it or began since.  stale: a default read before a decision  *)
(* was written after it.  boss, mode: the last decided, if any.  off:      *)
(* old messages whose chat was switched off at some time since they are    *)
(* old.  holders: who was told it holds the claim.  before: senders that   *)
(* looked before that and have yet to send.  trespass: one queued a reply  *)
(* that had not.                                                           *)
History == [level : AllLevels \cup {"none"}, stale : BOOLEAN,
            boss : Switch \cup {"none"}, mode : Modes \cup {"none"},
            off : SUBSET Messages, holders : SUBSET Callers,
            before : SUBSET Callers, trespass : BOOLEAN,
            calls : 0..MaxCalls]

Old == {m \in Messages : msgs[m] = "old"}
Deciding(c) == caller[c].job \in {"level", "decide"}
Next1(c) == Head(caller[c].todo)
Op(c) == IF caller[c].todo = <<>> THEN "none" ELSE Next1(c)[1]
Arg(c) == Next1(c)[2]

(* The caller goes on with these statements before the rest of its own.    *)
GoOn(c, first) == caller' = [caller EXCEPT ![c].todo = first \o Tail(@)]
Leave(c) == caller' = [caller EXCEPT ![c].todo = <<>>]

-----------------------------------------------------------------------------
(* The level of a chat                                                     *)

(* ConfigLevel *)
LevelOf(r) ==
    CASE r.boss                  -> "boss"
      [] ~r.boss /\ r.status = "ignored" -> "ignored"
      [] ~r.boss /\ r.status # "ignored" /\ ~r.active -> "unattended"
      [] OTHER                   -> IF r.conf = "none" THEN "auto" ELSE "confirm"

Do(op, arg) == <<<<op, arg>>>>

(* SetActive: a mutant sweeps without looking.                             *)
ActivateBlindly == Do("sweep", "chat") \o Do("active", "on")
Activate == Do("lookActive", "chat") \o Do("active", "on")

(* SetConfigLevel; the mutant leaves the status as it is.                  *)
SetConfigLevelKeepingStatus(level) ==
    CASE level = "boss"       -> Do("boss", "on") \o Activate \o Do("conf", "none")
      [] level = "auto"       -> Do("boss", "off") \o Activate \o Do("conf", "none")
      [] level = "confirm"    -> Do("boss", "off") \o Activate \o Do("conf", "always")
      [] level = "unattended" -> Do("boss", "off") \o Do("active", "off")
      [] level = "ignored"    -> Do("status", "ignored") \o Do("active", "off") \o Do("boss", "off")

SetConfigLevel(level) ==
    CASE level = "boss"       -> Do("boss", "on") \o Activate \o Do("conf", "none")
                                 \o Do("clearOff", "whitelist")
      [] level = "auto"       -> Do("boss", "off") \o Activate \o Do("conf", "none")
                                 \o Do("clearOff", "whitelist")
      [] level = "confirm"    -> Do("boss", "off") \o Activate \o Do("conf", "always")
                                 \o Do("clearOff", "whitelist")
      [] level = "unattended" -> Do("boss", "off") \o Do("active", "off")
                                 \o Do("clearIgnored", "new")
      [] level = "ignored"    -> Do("status", "ignored") \o Do("active", "off")
                                 \o Do("boss", "off")

(* TouchChat ends in applyOriginDefaultIfUnset, and so does SetContactName.*)
OriginDefault == Do("lookSource", "chat")
Touch == Do("touch", "chat") \o OriginDefault

(* handleInbound and the AddMessage in it.                                 *)
HandleInbound(m) == Touch \o Do("arrive", m) \o Touch \o Do("resolve", "chat")

-----------------------------------------------------------------------------
(* What one statement does to the row                                      *)

(* A row any setter but TouchChat creates has the columns' own defaults.   *)
Put(r) ==
    IF r.exists THEN r
    ELSE [r EXCEPT !.exists = TRUE, !.status = "new", !.active = FALSE,
                   !.conf = "always", !.manual = TRUE]

(* TouchChat's row.                                                        *)
Touched(r) ==
    IF r.exists THEN r ELSE [Put(r) EXCEPT !.conf = "none", !.manual = FALSE]

(* applyConfigLevelDefault *)
Defaulted(r, level) ==
    CASE ~r.exists            -> r
      [] level = "auto"       -> [r EXCEPT !.active = TRUE, !.conf = "none"]
      [] level = "confirm"    -> [r EXCEPT !.active = TRUE, !.conf = "always"]
      [] level = "unattended" -> [r EXCEPT !.active = FALSE]
      [] level = "ignored"    -> [r EXCEPT !.active = FALSE, !.status = "ignored"]

(* MarkOwnerIfUntouched *)
OwnerMarked(r) == IF r.exists /\ ~r.touched THEN [r EXCEPT !.boss = TRUE, !.touched = TRUE] ELSE r

(* SyncRouterMode *)
ModeSynced(r, mode) ==
    IF r.exists /\ r.modeManual THEN r
    ELSE [Put(r) EXCEPT !.mode = mode]

Writes == {"boss", "active", "conf", "status", "manual", "touch", "name", "apply",
           "owner", "mode", "sync"}

After(r, op, arg) ==
    CASE op = "boss"    -> [Put(r) EXCEPT !.boss = (arg = "on"), !.touched = TRUE, !.manual = TRUE]
      [] op = "active"  -> [Put(r) EXCEPT !.active = (arg = "on"), !.manual = TRUE]
      [] op = "conf"    -> [Put(r) EXCEPT !.conf = arg, !.manual = TRUE]
      [] op = "status"  -> [Put(r) EXCEPT !.status = arg]
      [] op = "manual"  -> [Put(r) EXCEPT !.manual = TRUE]
      [] op = "touch"   -> Touched(r)
      [] op = "name"    -> [Put(r) EXCEPT !.contact = (arg = "on")]
      [] op = "apply"   -> Defaulted(r, arg)
      [] op = "owner"   -> OwnerMarked(r)
      [] op = "mode"    -> [Put(r) EXCEPT !.mode = arg, !.modeManual = TRUE]
      [] op = "sync"    -> ModeSynced(r, arg)

-----------------------------------------------------------------------------
(* The statements                                                          *)

Write(c) ==
    /\ Op(c) \in Writes
    /\ row' = After(row, Op(c), Arg(c))
    /\ GoOn(c, <<>>)
    /\ hist' = [hist EXCEPT
          !.stale = @ \/ (Op(c) = "apply" /\ row.manual),
          !.boss = IF Op(c) = "boss" THEN Arg(c) ELSE @,
          !.mode = IF Op(c) = "mode" THEN Arg(c) ELSE @,
          !.off = IF row'.active THEN @ ELSE @ \cup Old]
    /\ UNCHANGED <<msgs, kv, router>>

LookActive(c) ==
    /\ Op(c) = "lookActive"
    /\ GoOn(c, IF row.active THEN <<>> ELSE Do("sweep", "chat"))
    /\ UNCHANGED <<row, msgs, kv, router, hist>>

(* MarkHandledBefore, an hour back.                                        *)
Sweep(c) ==
    /\ Op(c) = "sweep"
    /\ msgs' = [m \in Messages |-> IF m \in Old THEN "closed" ELSE msgs[m]]
    /\ GoOn(c, <<>>)
    /\ UNCHANGED <<row, kv, router, hist>>

(* clearIgnoredStatus, and what SetConfigLevel does itself for unattended. *)
LookStatus(c) ==
    /\ \/ Op(c) = "clearOff" /\ GoOn(c, IF row.status \in OffStatuses
                                        THEN Do("status", Arg(c)) ELSE <<>>)
       \/ Op(c) = "clearIgnored" /\ GoOn(c, IF row.exists /\ row.status = "ignored"
                                            THEN Do("status", Arg(c)) ELSE <<>>)
    /\ UNCHANGED <<row, msgs, kv, router, hist>>

(* applyOriginDefaultIfUnset: the source and the contact's name, then the  *)
(* owner's setting for that origin, then the UPDATE.                       *)
LookSource(c) ==
    /\ Op(c) = "lookSource"
    /\ GoOn(c, IF row.exists /\ ~row.manual
               THEN Do("readDefault", IF row.contact THEN "contact" ELSE "new")
               ELSE <<>>)
    /\ UNCHANGED <<row, msgs, kv, router, hist>>

ReadDefault(c) ==
    /\ Op(c) = "readDefault"
    /\ GoOn(c, Do("apply", kv[Arg(c)]))
    /\ UNCHANGED <<row, msgs, kv, router, hist>>

(* AddMessage's INSERT OR IGNORE.                                          *)
Insert(c) ==
    /\ Op(c) = "arrive"
    /\ msgs' = [msgs EXCEPT ![Arg(c)] = IF @ = "absent" THEN "recent" ELSE @]
    /\ GoOn(c, <<>>)
    /\ UNCHANGED <<row, kv, router, hist>>

Resolve(c) ==
    /\ Op(c) = "resolve"
    /\ GoOn(c, Do("sync", router.cfg))
    /\ UNCHANGED <<row, msgs, kv, router, hist>>

(* Manager.Update: the configuration under its lock, the file after it.    *)
UpdateRouter(c) ==
    /\ \/ Op(c) = "config" /\ router' = [router EXCEPT !.cfg = Arg(c)]
       \/ Op(c) = "file"   /\ router' = [router EXCEPT !.file = Arg(c)]
    /\ GoOn(c, <<>>)
    /\ UNCHANGED <<row, msgs, kv, hist>>

SetDefault(c) ==
    /\ Op(c) \in Origins
    /\ kv' = [kv EXCEPT ![Op(c)] = Arg(c)]
    /\ GoOn(c, <<>>)
    /\ UNCHANGED <<row, msgs, router, hist>>

(* claim_chat: a chat that does not exist, then ClaimChat's guarded UPDATE;*)
(* a mutant takes the claim whoever holds it.                              *)
MayClaimAlways(c) == TRUE
MayClaim(c) == row.claim \in {Free, c}

LookChat(c) ==
    /\ Op(c) = "lookChat"
    /\ (IF row.exists THEN GoOn(c, <<>>) ELSE Leave(c))
    /\ UNCHANGED <<row, msgs, kv, router, hist>>

Claim(c) ==
    /\ Op(c) = "claim"
    /\ IF MayClaim(c)
       THEN /\ row' = [row EXCEPT !.claim = c]
            /\ hist' = [hist EXCEPT !.holders = @ \cup {c},
                                    !.before = {k \in Callers : Op(k) = "send"}]
       ELSE UNCHANGED <<row, hist>>
    /\ GoOn(c, <<>>)
    /\ UNCHANGED <<msgs, kv, router>>

(* ReleaseChat *)
Release(c) ==
    /\ Op(c) = "release"
    /\ IF row.claim = c
       THEN row' = [row EXCEPT !.claim = Free] /\ hist' = [hist EXCEPT !.holders = @ \ {c}]
       ELSE UNCHANGED <<row, hist>>
    /\ GoOn(c, <<>>)
    /\ UNCHANGED <<msgs, kv, router>>

(* send_message: the row is read once, or created and read again; the rest *)
(* of the call goes by what it said.                                       *)
LookToSend(c) ==
    /\ Op(c) = "gate"
    /\ CASE ~row.exists -> GoOn(c, Touch \o Do("gate", "chat"))
         [] row.exists /\ (row.claim \notin {Free, c} \/ row.status \in OffStatuses)
                        -> Leave(c)
         [] OTHER       -> GoOn(c, IF row.conf = "always" THEN <<>> ELSE Do("send", "chat"))
    /\ UNCHANGED <<row, msgs, kv, router, hist>>

Send(c) ==
    /\ Op(c) = "send"
    /\ hist' = [hist EXCEPT !.trespass =
                  @ \/ (hist.holders \ {c} # {} /\ c \notin hist.before),
                            !.before = @ \ {c}]
    /\ GoOn(c, <<>>)
    /\ UNCHANGED <<row, msgs, kv, router>>

(* The call returns.                                                       *)
Return(c) ==
    /\ caller[c].job # "none" /\ caller[c].todo = <<>>
    /\ hist' = [hist EXCEPT !.level =
                  IF caller[c].job = "level" /\ caller[c].alone THEN caller[c].level ELSE @]
    /\ caller' = [caller EXCEPT ![c] = NoCall]
    /\ UNCHANGED <<row, msgs, kv, router>>

-----------------------------------------------------------------------------
(* The calls                                                               *)

Begin(c, job, level, script) ==
    /\ caller[c].job = "none" /\ hist.calls < MaxCalls
    /\ LET decides == job \in {"level", "decide"}
           met == decides /\ \E k \in Callers : Deciding(k)
       IN  /\ caller' = [k \in Callers |->
                  IF k = c THEN [todo |-> script, job |-> job, level |-> level, alone |-> ~met]
                  ELSE [caller[k] EXCEPT !.alone = @ /\ ~decides]]
           /\ hist' = [hist EXCEPT !.calls = @ + 1,
                                   !.level = IF decides THEN "none" ELSE @,
                                   !.stale = @ /\ ~decides]
    /\ UNCHANGED <<row, msgs, kv, router>>

(* set_config_level and handleSetConfigLevel; only the dashboard asks for  *)
(* boss, and only it and a boss's dispatch for auto.                       *)
SetLevel(c) == \E l \in Levels : Begin(c, "level", l, SetConfigLevel(l))

SetActive(c) ==
    \/ Begin(c, "decide", "none", Activate)
    \/ Begin(c, "decide", "none", Do("active", "off"))

SetOneField(c) ==
    \/ \E m \in {"none", "discretion", "always"} : Begin(c, "decide", "none", Do("conf", m))
    \/ \E b \in Switch : Begin(c, "decide", "none", Do("boss", b))

(* set_chat_status and handleSetIgnored; assigning an agent, or nobody,    *)
(* leaves the source alone.                                                *)
SetStatus(c) ==
    \/ \E s \in Statuses \ {"exclusive"} :
          Begin(c, "decide", "none", Do("status", s) \o Do("manual", "chat"))
    \/ \E s \in {"exclusive", "new"} : Begin(c, "decide", "none", Do("status", s))

SetMode(c) == \E m \in Modes : Begin(c, "other", "none", Do("mode", m))
Inbound(c) == \E m \in Messages : Begin(c, "other", "none", HandleInbound(m))

(* backfillContacts and handleSetContactName; markOwner.                   *)
SyncContact(c) ==
    \/ Begin(c, "other", "none", Touch \o Do("name", "on") \o OriginDefault)
    \/ Begin(c, "other", "none", Do("name", "on") \o OriginDefault)
    \/ Begin(c, "other", "none", Do("name", "off"))
Reconnect(c) == Begin(c, "other", "none", Touch \o Do("owner", "chat"))

Configure(c) ==
    \/ \E o \in Origins, l \in Defaults : Begin(c, "other", "none", Do(o, l))
    \/ \E m \in Modes : Begin(c, "other", "none", Do("config", m) \o Do("file", m))

ClaimChat(c) == Begin(c, "other", "none", Do("lookChat", "chat") \o Do("claim", "chat"))
ReleaseChat(c) == Begin(c, "other", "none", Do("release", "chat"))
SendMessage(c) == Begin(c, "other", "none", Do("gate", "chat"))

-----------------------------------------------------------------------------
(* Time and failure                                                        *)

(* The activation window passes; no call lasts that long.                  *)
Age(m) ==
    /\ msgs[m] = "recent" /\ \A c \in Callers : caller[c].job = "none"
    /\ msgs' = [msgs EXCEPT ![m] = "old"]
    /\ hist' = [hist EXCEPT !.off = IF row.active THEN @ ELSE @ \cup {m}]
    /\ UNCHANGED <<row, kv, router, caller>>

(* An agent answers the message.                                           *)
Answer(m) ==
    /\ msgs[m] \in {"recent", "old"} /\ row.active
    /\ msgs' = [msgs EXCEPT ![m] = "closed"]
    /\ UNCHANGED <<row, kv, router, caller, hist>>

Expire ==
    /\ row.claim # Free
    /\ row' = [row EXCEPT !.claim = Free]
    /\ hist' = [hist EXCEPT !.holders = @ \ {row.claim}]
    /\ UNCHANGED <<msgs, kv, router, caller>>

Crash ==
    /\ caller' = [c \in Callers |-> NoCall]
    /\ router' = [router EXCEPT !.cfg = router.file]
    /\ UNCHANGED <<row, msgs, kv, hist>>

-----------------------------------------------------------------------------
Init ==
    /\ row \in Rows
    /\ msgs \in [Messages -> {"absent", "old"}]
    /\ kv \in [Origins -> Defaults]
    /\ router = [cfg |-> "dedicated", file |-> "dedicated"]
    /\ caller = [c \in Callers |-> NoCall]
    /\ hist = [level |-> "none", stale |-> FALSE, boss |-> "none", mode |-> "none",
               off |-> IF row.active THEN {} ELSE Old,
               holders |-> {row.claim} \ {Free}, before |-> {},
               trespass |-> FALSE, calls |-> 0]

Statement(c) ==
    \/ Write(c) \/ LookActive(c) \/ Sweep(c) \/ LookStatus(c)
    \/ LookSource(c) \/ ReadDefault(c) \/ Insert(c)
    \/ Resolve(c) \/ UpdateRouter(c) \/ SetDefault(c)
    \/ LookChat(c) \/ Claim(c) \/ Release(c) \/ LookToSend(c) \/ Send(c)
    \/ Return(c)

Call(c) ==
    \/ SetLevel(c) \/ SetActive(c) \/ SetOneField(c) \/ SetStatus(c) \/ SetMode(c)
    \/ Inbound(c) \/ SyncContact(c) \/ Reconnect(c) \/ Configure(c)
    \/ ClaimChat(c) \/ ReleaseChat(c) \/ SendMessage(c)

Next ==
    \/ \E c \in Callers : Statement(c) \/ Call(c)
    \/ \E m \in Messages : Age(m) \/ Answer(m)
    \/ Expire \/ Crash

Spec == Init /\ [][Next]_vars

-----------------------------------------------------------------------------
(* Properties                                                              *)

ChatsTypeOK ==
    /\ row \in Row
    /\ msgs \in [Messages -> {"absent", "recent", "old", "closed"}]
    /\ kv \in [Origins -> Defaults]
    /\ router \in [cfg : Modes, file : Modes]
    /\ hist \in History
    /\ \A c \in Callers : /\ caller[c].job \in {"none", "level", "decide", "other"}
                          /\ caller[c].level \in AllLevels \cup {"none"}
                          /\ caller[c].job = "none" => caller[c].todo = <<>>

(* The level asked for is the one the chat reads back, and it stays so     *)
(* through messages, syncs of the contacts, reconnections of the owner's   *)
(* number, changes of the defaults and restarts, until somebody decides    *)
(* again.  (SetConfigLevel writes four fields in four statements, in an    *)
(* order of its own per level; ConfigLevel puts them together again.)  A   *)
(* default read before the decision and written after it is the exception. *)
LevelKept == hist.level # "none" /\ ~hist.stale => LevelOf(row) = hist.level

(* Whether the chat is the boss's, and its mode, are what was last decided *)
(* by hand: reconnecting as that number, or the router, never revises them.*)
DecisionsKept ==
    /\ hist.boss # "none" => row.boss = (hist.boss = "on")
    /\ hist.mode # "none" => row.mode = hist.mode

(* What the owner decided about a chat stands.                             *)
ChatsSafe == ChatsTypeOK /\ LevelKept /\ DecisionsKept

(* Who was told it holds the chat holds it until it releases it or the     *)
(* claim expires, and meanwhile nobody else sends to the chat, but for a   *)
(* call that had read the row before.                                      *)
ClaimHonoured == hist.holders = {row.claim} \ {Free} /\ ~hist.trespass

(* Switching a chat on closes nothing an agent may still be about to       *)
(* answer: only messages that were old while the chat was off.             *)
ServedIsNotSwept ==
    [][\A c \in Callers : Sweep(c) =>
          \A m \in Messages : msgs'[m] # msgs[m] => m \in hist.off]_vars
=============================================================================
