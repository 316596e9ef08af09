---------------------------- MODULE Chats_proofs ----------------------------
(***************************************************************************)
(* Theorems about Chats for any callers, messages, rows, levels and        *)
(* defaults: ChatsSafe and ClaimHonoured are invariants, and every step    *)
(* keeps ServedIsNotSwept.                                                 *)
(***************************************************************************)
EXTENDS Chats, SequenceTheorems, TLAPS

-----------------------------------------------------------------------------
(* The inductive invariant                                                 *)

(* The statements calls are made of, and those a statement that reads may  *)
(* put before the rest.                                                    *)
LevelSteps ==
    ({"boss", "active"} \X Switch) \cup ({"conf"} \X {"none", "discretion", "always"})
    \cup ({"status"} \X Statuses) \cup ({"lookActive", "manual"} \X {"chat"})
    \cup {<<"clearOff", "whitelist">>, <<"clearIgnored", "new">>}
OtherSteps ==
    ({"touch", "lookSource", "resolve", "owner", "lookChat", "claim", "release", "gate"}
        \X {"chat"})
    \cup ({"name"} \X Switch) \cup ({"arrive"} \X Messages)
    \cup ({"mode", "config", "file"} \X Modes) \cup (Origins \X Defaults)
Starts(job) == IF job = "other" THEN OtherSteps ELSE LevelSteps
Heads(job) ==
    IF job = "other"
    THEN OtherSteps \cup ({"readDefault"} \X Origins) \cup ({"apply"} \X Defaults)
         \cup ({"sync"} \X Modes) \cup {<<"send", "chat">>}
    ELSE LevelSteps \cup {<<"sweep", "chat">>}

(* What a call has left to do, by its job: one of the latter, if any, and  *)
(* then the former.                                                        *)
AllSteps == Heads("other") \cup Heads("level")
ListOf(job) == {t \in Seq(AllSteps) :
                   /\ t # <<>> => Head(t) \in Heads(job) /\ Tail(t) \in Seq(Starts(job))
                   /\ job = "none" => t = <<>>}
TodoInv == \A c \in Callers : caller[c].todo \in ListOf(caller[c].job)

Jobs == {"none", "level", "decide", "other"}
Calls == [todo : Seq(AllSteps), job : Jobs, level : AllLevels \cup {"none"},
          alone : BOOLEAN]

ChatsTypes ==
    /\ row \in Row
    /\ msgs \in [Messages -> {"absent", "recent", "old", "closed"}]
    /\ kv \in [Origins -> Defaults]
    /\ router \in [cfg : Modes, file : Modes]
    /\ caller \in [Callers -> Calls] /\ TodoInv
    /\ hist \in History

(* A flag once decided is on a row that says so.                           *)
MarkedInv ==
    /\ hist.boss # "none" => row.exists /\ row.touched
    /\ hist.mode # "none" => row.exists /\ row.modeManual

(* Whoever is about to send read a row that nobody else had claimed.       *)
SendInv ==
    \A c \in Callers : Op(c) = "send" => row.claim \in {Free, c} \/ c \in hist.before

(* Whoever is about to sweep read a row that was off.                      *)
SweepInv ==
    /\ ~row.active => Old \subseteq hist.off
    /\ \A c \in Callers : Op(c) = "sweep" => Old \subseteq hist.off

(* Deciding alone.                                                         *)
AloneInv ==
    \A c, k \in Callers : Deciding(c) /\ caller[c].alone /\ Deciding(k) => k = c

(* What the script of a level still has to do.                             *)
Elements(t) == {t[i] : i \in 1..Len(t)}
Left(c) == Elements(caller[c].todo)
First(l) == CASE l = "boss" -> <<"boss", "on">>
              [] l = "ignored" -> <<"status", "ignored">>
              [] OTHER -> <<"boss", "off">>
ConfOf(l) == IF l = "confirm" THEN "always" ELSE "none"
ScriptSteps(l) ==
    CASE l = "boss" -> {<<"boss", "on">>, <<"lookActive", "chat">>, <<"sweep", "chat">>,
                        <<"active", "on">>, <<"conf", "none">>, <<"clearOff", "whitelist">>,
                        <<"status", "whitelist">>}
      [] l \in {"auto", "confirm"} ->
                       {<<"boss", "off">>, <<"lookActive", "chat">>, <<"sweep", "chat">>,
                        <<"active", "on">>, <<"conf", ConfOf(l)>>, <<"clearOff", "whitelist">>,
                        <<"status", "whitelist">>}
      [] l = "unattended" -> {<<"boss", "off">>, <<"active", "off">>,
                              <<"clearIgnored", "new">>, <<"status", "new">>}
      [] l = "ignored" -> {<<"status", "ignored">>, <<"active", "off">>, <<"boss", "off">>}

(* The part of the level already written, once the first statement is.     *)
Written(r, l, left) ==
    /\ r.exists
    /\ l # "ignored" => r.touched /\ r.manual
    /\ l = "boss" => r.boss
    /\ l \in {"auto", "confirm"} =>
          /\ ~r.boss
          /\ <<"active", "on">> \notin left => r.active
          /\ <<"conf", ConfOf(l)>> \notin left => r.conf = ConfOf(l)
          /\ <<"clearOff", "whitelist">> \notin left /\ <<"status", "whitelist">> \notin left
                => r.status \notin OffStatuses
    /\ l = "unattended" =>
          /\ ~r.boss
          /\ <<"active", "off">> \notin left => ~r.active
          /\ <<"clearIgnored", "new">> \notin left /\ <<"status", "new">> \notin left
                => r.status # "ignored"
    /\ l = "ignored" =>
          /\ r.status = "ignored"
          /\ <<"active", "off">> \notin left => r.manual
          /\ <<"boss", "off">> \notin left => ~r.boss /\ r.touched

Progress(c) ==
    LET l == caller[c].level IN
    /\ l \in AllLevels /\ Left(c) \subseteq ScriptSteps(l)
    /\ \/ caller[c].todo = SetConfigLevel(l)
       \/ /\ First(l) \notin Left(c)
          /\ caller[c].alone /\ ~hist.stale => Written(row, l, Left(c))
LevelInv == \A c \in Callers : caller[c].job = "level" => Progress(c)

(* The level on record was written by a call no other overlapped, and      *)
(* nobody has decided since.                                               *)
SettledInv ==
    hist.level # "none" =>
        /\ \A c \in Callers : ~Deciding(c)
        /\ ~hist.stale => Written(row, hist.level, {})

ChatsIInv ==
    /\ ChatsTypes /\ MarkedInv /\ DecisionsKept
    /\ ClaimHonoured /\ SendInv /\ SweepInv
    /\ AloneInv /\ LevelInv /\ SettledInv

-----------------------------------------------------------------------------
(* Lists of statements                                                     *)

LEMMA DoIs == \A op, arg : Do(op, arg) = <<<<op, arg>>>>
BY DEF Do

LEMMA Cat ==
    ASSUME NEW S, NEW s \in Seq(S), NEW t \in Seq(S)
    PROVE  s \o t \in Seq(S)
OBVIOUS

LEMMA One ==
    ASSUME NEW S, NEW x \in S
    PROVE  <<x>> \in Seq(S)
OBVIOUS

LEMMA StartsAreHeads ==
    ASSUME NEW job
    PROVE  Starts(job) \subseteq Heads(job) /\ Heads(job) \subseteq AllSteps
BY DEF Starts, Heads, AllSteps

LEMMA Wider ==
    ASSUME NEW S, NEW T, S \subseteq T, NEW t \in Seq(S)
    PROVE  t \in Seq(T)
<1>1. \A i \in 1..Len(t) : t[i] \in T
  OBVIOUS
<1>2. QED BY <1>1

(* A list of first statements is one a call may have left.                 *)
LEMMA StartList ==
    ASSUME NEW job \in Jobs \ {"none"}, NEW t \in Seq(Starts(job))
    PROVE  t \in ListOf(job)
<1>1. t \in Seq(AllSteps)
  <2>1. Starts(job) \subseteq AllSteps
    BY StartsAreHeads
  <2>2. QED BY <2>1, Wider
<1>2. ASSUME t # <<>> PROVE Head(t) \in Heads(job) /\ Tail(t) \in Seq(Starts(job))
  BY <1>2, StartsAreHeads
<1>3. QED BY <1>1, <1>2 DEF ListOf

(* So is one behind a statement that was read into.                        *)
LEMMA PutFirst ==
    ASSUME NEW job \in Jobs \ {"none"}, NEW t \in Seq(Starts(job)), NEW x \in Heads(job)
    PROVE  <<x>> \o t \in ListOf(job) /\ Head(<<x>> \o t) = x /\ Tail(<<x>> \o t) = t
<1>1. t \in Seq(AllSteps) /\ x \in AllSteps
  <2>1. Starts(job) \subseteq AllSteps /\ Heads(job) \subseteq AllSteps
    BY StartsAreHeads
  <2>2. QED BY <2>1, Wider
<1>2. <<x>> \o t \in Seq(AllSteps) /\ <<x>> \o t # <<>>
  BY <1>1
<1>3. Head(<<x>> \o t) = x /\ Tail(<<x>> \o t) = t
  BY <1>1
<1>4. QED BY <1>2, <1>3 DEF ListOf

LEMMA JoinedThree ==
    ASSUME NEW a, NEW b, NEW c
    PROVE  (<<a>> \o <<b>>) \o <<c>> = <<a, b, c>>
<1> DEFINE S == {a, b, c}
<1>1. <<a>> \o <<b>> = <<a, b>>
  <2>1. /\ <<a>> \o <<b>> \in Seq(S) /\ <<a, b>> \in Seq(S)
        /\ Len(<<a>> \o <<b>>) = 2
    OBVIOUS
  <2>2. \A i \in 1..2 : (<<a>> \o <<b>>)[i] = <<a, b>>[i]
    OBVIOUS
  <2>3. QED BY <2>1, <2>2, SeqEqual
<1>2. <<a, b>> \o <<c>> = <<a, b, c>>
  <2>1. /\ <<a, b>> \o <<c>> \in Seq(S) /\ <<a, b, c>> \in Seq(S)
        /\ Len(<<a, b>> \o <<c>>) = 3
    OBVIOUS
  <2>2. \A i \in 1..3 : (<<a, b>> \o <<c>>)[i] = <<a, b, c>>[i]
    OBVIOUS
  <2>3. QED BY <2>1, <2>2, SeqEqual
<1>3. QED BY <1>1, <1>2

LEMMA JoinedFive ==
    ASSUME NEW a, NEW b, NEW c, NEW d, NEW e
    PROVE  ((<<a>> \o (<<b>> \o <<c>>)) \o <<d>>) \o <<e>> = <<a, b, c, d, e>>
<1> DEFINE S == {a, b, c, d, e}
<1>1. <<b>> \o <<c>> = <<b, c>>
  <2>1. /\ <<b>> \o <<c>> \in Seq(S) /\ <<b, c>> \in Seq(S)
        /\ Len(<<b>> \o <<c>>) = 2
    OBVIOUS
  <2>2. \A i \in 1..2 : (<<b>> \o <<c>>)[i] = <<b, c>>[i]
    OBVIOUS
  <2>3. QED BY <2>1, <2>2, SeqEqual
<1>2. <<a>> \o <<b, c>> = <<a, b, c>>
  <2>1. /\ <<a>> \o <<b, c>> \in Seq(S) /\ <<a, b, c>> \in Seq(S)
        /\ Len(<<a>> \o <<b, c>>) = 3
    OBVIOUS
  <2>2. \A i \in 1..3 : (<<a>> \o <<b, c>>)[i] = <<a, b, c>>[i]
    OBVIOUS
  <2>3. QED BY <2>1, <2>2, SeqEqual
<1>3. <<a, b, c>> \o <<d>> = <<a, b, c, d>>
  <2>1. /\ <<a, b, c>> \o <<d>> \in Seq(S) /\ <<a, b, c, d>> \in Seq(S)
        /\ Len(<<a, b, c>> \o <<d>>) = 4
    OBVIOUS
  <2>2. \A i \in 1..4 : (<<a, b, c>> \o <<d>>)[i] = <<a, b, c, d>>[i]
    OBVIOUS
  <2>3. QED BY <2>1, <2>2, SeqEqual
<1>4. <<a, b, c, d>> \o <<e>> = <<a, b, c, d, e>>
  <2>1. /\ <<a, b, c, d>> \o <<e>> \in Seq(S) /\ <<a, b, c, d, e>> \in Seq(S)
        /\ Len(<<a, b, c, d>> \o <<e>>) = 5
    OBVIOUS
  <2>2. \A i \in 1..5 : (<<a, b, c, d>> \o <<e>>)[i] = <<a, b, c, d, e>>[i]
    OBVIOUS
  <2>3. QED BY <2>1, <2>2, SeqEqual
<1>5. QED BY <1>1, <1>2, <1>3, <1>4

(* The scripts, statement by statement.                                    *)
LEMMA ScriptIs ==
    /\ SetConfigLevel("boss") =
         << <<"boss", "on">>, <<"lookActive", "chat">>, <<"active", "on">>, <<"conf", "none">>,
            <<"clearOff", "whitelist">> >>
    /\ SetConfigLevel("auto") =
         << <<"boss", "off">>, <<"lookActive", "chat">>, <<"active", "on">>, <<"conf", "none">>,
            <<"clearOff", "whitelist">> >>
    /\ SetConfigLevel("confirm") =
         << <<"boss", "off">>, <<"lookActive", "chat">>, <<"active", "on">>, <<"conf", "always">>,
            <<"clearOff", "whitelist">> >>
    /\ SetConfigLevel("unattended") =
         << <<"boss", "off">>, <<"active", "off">>, <<"clearIgnored", "new">> >>
    /\ SetConfigLevel("ignored") =
         << <<"status", "ignored">>, <<"active", "off">>, <<"boss", "off">> >>
<1>2. SetConfigLevel("boss") =
      << <<"boss", "on">>, <<"lookActive", "chat">>, <<"active", "on">>,
         <<"conf", "none">>, <<"clearOff", "whitelist">> >>
  <2>1. PICK a, b, c, d, e : /\ a = <<"boss", "on">> /\ b = <<"lookActive", "chat">> /\ c = <<"active", "on">>
                            /\ d = <<"conf", "none">> /\ e = <<"clearOff", "whitelist">>
    OBVIOUS
  <2>2. SetConfigLevel("boss") = ((<<a>> \o (<<b>> \o <<c>>)) \o <<d>>) \o <<e>>
    BY <2>1, DoIs DEF SetConfigLevel, Activate
  <2>3. ((<<a>> \o (<<b>> \o <<c>>)) \o <<d>>) \o <<e>> = <<a, b, c, d, e>>
    BY JoinedFive
  <2>4. QED BY <2>1, <2>2, <2>3
<1>3. SetConfigLevel("auto") =
      << <<"boss", "off">>, <<"lookActive", "chat">>, <<"active", "on">>,
         <<"conf", "none">>, <<"clearOff", "whitelist">> >>
  <2>1. PICK a, b, c, d, e : /\ a = <<"boss", "off">> /\ b = <<"lookActive", "chat">> /\ c = <<"active", "on">>
                            /\ d = <<"conf", "none">> /\ e = <<"clearOff", "whitelist">>
    OBVIOUS
  <2>2. SetConfigLevel("auto") = ((<<a>> \o (<<b>> \o <<c>>)) \o <<d>>) \o <<e>>
    BY <2>1, DoIs DEF SetConfigLevel, Activate
  <2>3. ((<<a>> \o (<<b>> \o <<c>>)) \o <<d>>) \o <<e>> = <<a, b, c, d, e>>
    BY JoinedFive
  <2>4. QED BY <2>1, <2>2, <2>3
<1>4. SetConfigLevel("confirm") =
      << <<"boss", "off">>, <<"lookActive", "chat">>, <<"active", "on">>,
         <<"conf", "always">>, <<"clearOff", "whitelist">> >>
  <2>1. PICK a, b, c, d, e : /\ a = <<"boss", "off">> /\ b = <<"lookActive", "chat">> /\ c = <<"active", "on">>
                            /\ d = <<"conf", "always">> /\ e = <<"clearOff", "whitelist">>
    OBVIOUS
  <2>2. SetConfigLevel("confirm") = ((<<a>> \o (<<b>> \o <<c>>)) \o <<d>>) \o <<e>>
    BY <2>1, DoIs DEF SetConfigLevel, Activate
  <2>3. ((<<a>> \o (<<b>> \o <<c>>)) \o <<d>>) \o <<e>> = <<a, b, c, d, e>>
    BY JoinedFive
  <2>4. QED BY <2>1, <2>2, <2>3
<1>5. SetConfigLevel("unattended") = <<<<"boss", "off">>, <<"active", "off">>, <<"clearIgnored", "new">>>>
  <2>1. SetConfigLevel("unattended") =
          (Do("boss", "off") \o Do("active", "off")) \o Do("clearIgnored", "new")
    BY DEF SetConfigLevel, Activate
  <2>2. SetConfigLevel("unattended") =
          (<<<<"boss", "off">>>> \o <<<<"active", "off">>>>) \o <<<<"clearIgnored", "new">>>>
    BY <2>1, DoIs
  <2>3. QED BY <2>2, JoinedThree
<1>6. SetConfigLevel("ignored") = <<<<"status", "ignored">>, <<"active", "off">>, <<"boss", "off">>>>
  <2>1. SetConfigLevel("ignored") =
          (Do("status", "ignored") \o Do("active", "off")) \o Do("boss", "off")
    BY DEF SetConfigLevel, Activate
  <2>2. SetConfigLevel("ignored") =
          (<<<<"status", "ignored">>>> \o <<<<"active", "off">>>>) \o <<<<"boss", "off">>>>
    BY <2>1, DoIs
  <2>3. QED BY <2>2, JoinedThree
<1>7. QED BY <1>2, <1>3, <1>4, <1>5, <1>6

LEMMA ElementsOf ==
    ASSUME NEW S, NEW t \in Seq(S), t # <<>>
    PROVE  Elements(t) = {Head(t)} \cup Elements(Tail(t))
<1>1. ASSUME NEW i \in 1..Len(t), i # 1 PROVE t[i] = Tail(t)[i - 1] /\ i - 1 \in 1..Len(Tail(t))
  BY <1>1
<1>2. ASSUME NEW i \in 1..Len(Tail(t)) PROVE Tail(t)[i] = t[i + 1] /\ i + 1 \in 1..Len(t)
  BY <1>2
<1>3. Head(t) = t[1] /\ 1 \in 1..Len(t)
  OBVIOUS
<1>4. QED BY <1>1, <1>2, <1>3 DEF Elements

LEMMA ThreeElements ==
    ASSUME NEW S, NEW a \in S, NEW b \in S, NEW c \in S
    PROVE  LET t == <<a, b, c>> IN
           /\ t \in Seq(S) /\ t # <<>> /\ Head(t) = a
           /\ Elements(t) = {a, b, c}
           /\ Elements(Tail(t)) = {b, c}
<1> DEFINE t == <<a, b, c>>
<1>1. t \in Seq(S) /\ Len(t) = 3 /\ t # <<>> /\ Head(t) = a
  OBVIOUS
<1>2. 1..3 = {1, 2, 3} /\ 1..2 = {1, 2}
  OBVIOUS
<1>3. t[1] = a /\ t[2] = b /\ t[3] = c
  OBVIOUS
<1>4. Len(Tail(t)) = 2 /\ \A i \in 1..2 : Tail(t)[i] = t[i + 1]
  BY <1>1
<1>5. Elements(t) = {a, b, c}
  BY <1>1, <1>2, <1>3 DEF Elements
<1>6. Elements(Tail(t)) = {b, c}
  <2>1. Tail(t)[1] = b /\ Tail(t)[2] = c
    BY <1>2, <1>3, <1>4
  <2>2. QED BY <1>2, <1>4, <2>1 DEF Elements
<1>7. QED BY <1>1, <1>5, <1>6

LEMMA FiveElements ==
    ASSUME NEW S, NEW a \in S, NEW b \in S, NEW c \in S, NEW d \in S, NEW e \in S
    PROVE  LET t == <<a, b, c, d, e>> IN
           /\ t \in Seq(S) /\ t # <<>> /\ Head(t) = a
           /\ Elements(t) = {a, b, c, d, e}
           /\ Elements(Tail(t)) = {b, c, d, e}
<1> DEFINE t == <<a, b, c, d, e>>
<1>1. t \in Seq(S) /\ Len(t) = 5 /\ t # <<>> /\ Head(t) = a
  OBVIOUS
<1>2. 1..5 = {1, 2, 3, 4, 5} /\ 1..4 = {1, 2, 3, 4}
  OBVIOUS
<1>3. t[1] = a /\ t[2] = b /\ t[3] = c /\ t[4] = d /\ t[5] = e
  OBVIOUS
<1>4. Len(Tail(t)) = 4 /\ \A i \in 1..4 : Tail(t)[i] = t[i + 1]
  BY <1>1
<1>5. Elements(t) = {a, b, c, d, e}
  BY <1>1, <1>2, <1>3 DEF Elements
<1>6. Elements(Tail(t)) = {b, c, d, e}
  <2>1. Tail(t)[1] = b /\ Tail(t)[2] = c /\ Tail(t)[3] = d /\ Tail(t)[4] = e
    BY <1>2, <1>3, <1>4
  <2>2. QED BY <1>2, <1>4, <2>1 DEF Elements
<1>7. QED BY <1>1, <1>5, <1>6

(* A script begins with the statement after which the row is decided.      *)
LEMMA ScriptFacts ==
    ASSUME NEW l \in AllLevels
    PROVE  LET t == SetConfigLevel(l) IN
           /\ t \in Seq(LevelSteps) /\ t # <<>> /\ Head(t) = First(l)
           /\ Elements(t) \subseteq ScriptSteps(l)
           /\ First(l) \notin Elements(Tail(t))
           /\ l \in {"auto", "confirm"} =>
                 {<<"active", "on">>, <<"conf", ConfOf(l)>>, <<"clearOff", "whitelist">>}
                    \subseteq Elements(Tail(t))
           /\ l = "unattended" =>
                 {<<"active", "off">>, <<"clearIgnored", "new">>} \subseteq Elements(Tail(t))
           /\ l = "ignored" =>
                 {<<"active", "off">>, <<"boss", "off">>} \subseteq Elements(Tail(t))
<1> DEFINE t == SetConfigLevel(l)
<1>1. CASE l = "boss"
  <2>1. PICK a, b, c, d, e : /\ a = <<"boss", "on">> /\ b = <<"lookActive", "chat">> /\ c = <<"active", "on">>
                            /\ d = <<"conf", "none">> /\ e = <<"clearOff", "whitelist">>
    OBVIOUS
  <2>2. t = <<a, b, c, d, e>>
    BY <1>1, <2>1, ScriptIs
  <2>3. /\ a \in LevelSteps
        /\ b \in LevelSteps
        /\ c \in LevelSteps
        /\ d \in LevelSteps
        /\ e \in LevelSteps
    BY <2>1 DEF LevelSteps, Switch, Statuses, OffStatuses
  <2>4. /\ t \in Seq(LevelSteps) /\ t # <<>> /\ Head(t) = a
        /\ Elements(t) = {a, b, c, d, e} /\ Elements(Tail(t)) = {b, c, d, e}
    BY <2>2, <2>3, FiveElements
  <2>5. a = First(l) /\ a # b /\ a # c /\ a # d /\ a # e
    BY <1>1, <2>1 DEF First
  <2>6. {a, b, c, d, e} \subseteq ScriptSteps(l)
    BY <1>1, <2>1 DEF ScriptSteps, ConfOf
  <2>7. QED BY <1>1, <2>1, <2>4, <2>5, <2>6 DEF ConfOf
<1>2. CASE l = "auto"
  <2>1. PICK a, b, c, d, e : /\ a = <<"boss", "off">> /\ b = <<"lookActive", "chat">> /\ c = <<"active", "on">>
                            /\ d = <<"conf", "none">> /\ e = <<"clearOff", "whitelist">>
    OBVIOUS
  <2>2. t = <<a, b, c, d, e>>
    BY <1>2, <2>1, ScriptIs
  <2>3. /\ a \in LevelSteps
        /\ b \in LevelSteps
        /\ c \in LevelSteps
        /\ d \in LevelSteps
        /\ e \in LevelSteps
    BY <2>1 DEF LevelSteps, Switch, Statuses, OffStatuses
  <2>4. /\ t \in Seq(LevelSteps) /\ t # <<>> /\ Head(t) = a
        /\ Elements(t) = {a, b, c, d, e} /\ Elements(Tail(t)) = {b, c, d, e}
    BY <2>2, <2>3, FiveElements
  <2>5. a = First(l) /\ a # b /\ a # c /\ a # d /\ a # e
    BY <1>2, <2>1 DEF First
  <2>6. {a, b, c, d, e} \subseteq ScriptSteps(l)
    BY <1>2, <2>1 DEF ScriptSteps, ConfOf
  <2>7. QED BY <1>2, <2>1, <2>4, <2>5, <2>6 DEF ConfOf
<1>3. CASE l = "confirm"
  <2>1. PICK a, b, c, d, e : /\ a = <<"boss", "off">> /\ b = <<"lookActive", "chat">> /\ c = <<"active", "on">>
                            /\ d = <<"conf", "always">> /\ e = <<"clearOff", "whitelist">>
    OBVIOUS
  <2>2. t = <<a, b, c, d, e>>
    BY <1>3, <2>1, ScriptIs
  <2>3. /\ a \in LevelSteps
        /\ b \in LevelSteps
        /\ c \in LevelSteps
        /\ d \in LevelSteps
        /\ e \in LevelSteps
    BY <2>1 DEF LevelSteps, Switch, Statuses, OffStatuses
  <2>4. /\ t \in Seq(LevelSteps) /\ t # <<>> /\ Head(t) = a
        /\ Elements(t) = {a, b, c, d, e} /\ Elements(Tail(t)) = {b, c, d, e}
    BY <2>2, <2>3, FiveElements
  <2>5. a = First(l) /\ a # b /\ a # c /\ a # d /\ a # e
    BY <1>3, <2>1 DEF First
  <2>6. {a, b, c, d, e} \subseteq ScriptSteps(l)
    BY <1>3, <2>1 DEF ScriptSteps, ConfOf
  <2>7. QED BY <1>3, <2>1, <2>4, <2>5, <2>6 DEF ConfOf
<1>4. CASE l = "unattended"
  <2>1. PICK a, b, c : /\ a = <<"boss", "off">> /\ b = <<"active", "off">> /\ c = <<"clearIgnored", "new">>
    OBVIOUS
  <2>2. t = <<a, b, c>>
    BY <1>4, <2>1, ScriptIs
  <2>3. /\ a \in LevelSteps
        /\ b \in LevelSteps
        /\ c \in LevelSteps
    BY <2>1 DEF LevelSteps, Switch, Statuses, OffStatuses
  <2>4. /\ t \in Seq(LevelSteps) /\ t # <<>> /\ Head(t) = a
        /\ Elements(t) = {a, b, c} /\ Elements(Tail(t)) = {b, c}
    BY <2>2, <2>3, ThreeElements
  <2>5. a = First(l) /\ a # b /\ a # c
    BY <1>4, <2>1 DEF First
  <2>6. {a, b, c} \subseteq ScriptSteps(l)
    BY <1>4, <2>1 DEF ScriptSteps, ConfOf
  <2>7. QED BY <1>4, <2>1, <2>4, <2>5, <2>6 DEF ConfOf
<1>5. CASE l = "ignored"
  <2>1. PICK a, b, c : /\ a = <<"status", "ignored">> /\ b = <<"active", "off">> /\ c = <<"boss", "off">>
    OBVIOUS
  <2>2. t = <<a, b, c>>
    BY <1>5, <2>1, ScriptIs
  <2>3. /\ a \in LevelSteps
        /\ b \in LevelSteps
        /\ c \in LevelSteps
    BY <2>1 DEF LevelSteps, Switch, Statuses, OffStatuses
  <2>4. /\ t \in Seq(LevelSteps) /\ t # <<>> /\ Head(t) = a
        /\ Elements(t) = {a, b, c} /\ Elements(Tail(t)) = {b, c}
    BY <2>2, <2>3, ThreeElements
  <2>5. a = First(l) /\ a # b /\ a # c
    BY <1>5, <2>1 DEF First
  <2>6. {a, b, c} \subseteq ScriptSteps(l)
    BY <1>5, <2>1 DEF ScriptSteps, ConfOf
  <2>7. QED BY <1>5, <2>1, <2>4, <2>5, <2>6 DEF ConfOf
<1>6. QED BY <1>1, <1>2, <1>3, <1>4, <1>5 DEF AllLevels

(* What the next statement of a call may be, with what argument.           *)
DecidingOps == {"boss", "active", "conf", "status", "manual", "lookActive", "clearOff",
                "clearIgnored", "sweep"}
LEMMA HeadIs ==
    ASSUME ChatsAssumption, NEW job \in Jobs, NEW h \in Heads(job)
    PROVE  /\ h = <<h[1], h[2]>> /\ h[1] # "none"
           /\ job # "other" <=> h[1] \in DecidingOps
           /\ h[1] \in {"boss", "active", "name"} => h[2] \in Switch
           /\ h[1] = "conf" => h[2] \in {"none", "discretion", "always"}
           /\ h[1] = "status" => h[2] \in Statuses
           /\ h[1] \in {"mode", "sync", "config", "file"} => h[2] \in Modes
           /\ h[1] \in Origins \cup {"apply"} => h[2] \in Defaults
           /\ h[1] = "arrive" => h[2] \in Messages
           /\ h[1] = "readDefault" => h[2] \in Origins
           /\ h[1] = "clearOff" => h[2] = "whitelist"
           /\ h[1] = "clearIgnored" => h[2] = "new"
<1>1. CASE job = "other"
  <2>1. CASE h \in {"touch", "lookSource", "resolve", "owner", "lookChat", "claim", "release", "gate"}
                   \X {"chat"}
    <3>1. /\ h = <<h[1], h[2]>>
          /\ h[1] \in {"touch", "lookSource", "resolve", "owner", "lookChat", "claim",
                       "release", "gate"}
      BY <2>1
    <3>2. h[1] \notin DecidingOps \cup Origins
      BY <3>1 DEF DecidingOps, Origins
    <3>3. h[1] \notin {"boss", "active", "name", "conf", "status", "mode", "sync", "config",
                      "file", "apply", "arrive", "readDefault", "clearOff", "clearIgnored",
                      "none"}
      BY <3>1
    <3>4. QED BY <1>1, <3>1, <3>2, <3>3
  <2>2. CASE h \in {"name"} \X Switch
    BY <1>1, <2>2 DEF DecidingOps, Origins, Switch
  <2>3. CASE h \in {"arrive"} \X Messages
    BY <1>1, <2>3 DEF DecidingOps, Origins, Switch
  <2>4. CASE h \in {"mode", "config", "file"} \X Modes
    BY <1>1, <2>4 DEF DecidingOps, Origins, Switch
  <2>5. CASE h \in Origins \X Defaults
    BY <1>1, <2>5 DEF DecidingOps, Origins, Switch
  <2>6. CASE h \in {"readDefault"} \X Origins
    BY <1>1, <2>6 DEF DecidingOps, Origins, Switch
  <2>7. CASE h \in {"apply"} \X Defaults
    BY <1>1, <2>7 DEF DecidingOps, Origins, Switch
  <2>8. CASE h \in {"sync"} \X Modes
    BY <1>1, <2>8 DEF DecidingOps, Origins, Switch
  <2>9. CASE h = <<"send", "chat">>
    BY <1>1, <2>9 DEF DecidingOps, Origins, Switch
  <2>10. QED BY <1>1, <2>1, <2>2, <2>3, <2>4, <2>5, <2>6, <2>7, <2>8, <2>9 DEF Heads, OtherSteps
<1>2. CASE job # "other"
  <2>1. CASE h \in {"boss", "active"} \X Switch
    BY <1>2, <2>1 DEF DecidingOps, Origins, Switch
  <2>2. CASE h \in {"conf"} \X {"none", "discretion", "always"}
    BY <1>2, <2>2 DEF DecidingOps, Origins, Switch
  <2>3. CASE h \in {"status"} \X Statuses
    BY <1>2, <2>3 DEF DecidingOps, Origins, Switch
  <2>4. CASE h \in {"lookActive", "manual"} \X {"chat"}
    <3>1. h = <<h[1], h[2]>> /\ h[1] \in {"lookActive", "manual"}
      BY <2>4
    <3>2. h[1] \in DecidingOps /\ h[1] \notin Origins
      BY <3>1 DEF DecidingOps, Origins
    <3>3. h[1] \notin {"boss", "active", "name", "conf", "status", "mode", "sync", "config",
                      "file", "apply", "arrive", "readDefault", "clearOff", "clearIgnored",
                      "none"}
      BY <3>1
    <3>4. QED BY <1>2, <3>1, <3>2, <3>3
  <2>5. CASE h = <<"clearOff", "whitelist">>
    BY <1>2, <2>5 DEF DecidingOps, Origins, Switch
  <2>6. CASE h = <<"clearIgnored", "new">>
    BY <1>2, <2>6 DEF DecidingOps, Origins, Switch
  <2>7. CASE h = <<"sweep", "chat">>
    BY <1>2, <2>7 DEF DecidingOps, Origins, Switch
  <2>8. QED BY <1>2, <2>1, <2>2, <2>3, <2>4, <2>5, <2>6, <2>7 DEF Heads, LevelSteps
<1>3. QED BY <1>1, <1>2

(* A call goes on with this list.                                          *)
Moved(c, rest) ==
    /\ caller' \in [Callers -> Calls] /\ TodoInv'
    /\ \A k \in Callers \ {c} : caller'[k] = caller[k]
    /\ caller'[c].todo = rest /\ caller'[c].job = caller[c].job
    /\ caller'[c].level = caller[c].level /\ caller'[c].alone = caller[c].alone

LEMMA Moving ==
    ASSUME ChatsTypes, NEW c \in Callers, NEW rest \in ListOf(caller[c].job),
           caller' = [caller EXCEPT ![c].todo = rest]
    PROVE  Moved(c, rest)
<1>1. caller \in [Callers -> Calls] /\ caller[c] \in Calls /\ rest \in Seq(AllSteps)
  BY DEF ChatsTypes, ListOf
<1>2. caller'[c] = [caller[c] EXCEPT !.todo = rest]
  BY <1>1
<1>3. /\ caller'[c].todo = rest /\ caller'[c].job = caller[c].job
      /\ caller'[c].level = caller[c].level /\ caller'[c].alone = caller[c].alone
      /\ caller'[c] \in Calls
  BY <1>1, <1>2 DEF Calls
<1>4. \A k \in Callers \ {c} : caller'[k] = caller[k]
  BY <1>1
<1>5. caller' \in [Callers -> Calls]
  BY <1>1, <1>3, <1>4
<1>6. TodoInv'
  BY <1>3, <1>4 DEF TodoInv, ChatsTypes
<1>7. QED BY <1>3, <1>4, <1>5, <1>6 DEF Moved

(* Where a call stands that has something to do.                           *)
LEMMA Standing ==
    ASSUME ChatsAssumption, ChatsTypes, NEW c \in Callers, Op(c) # "none"
    PROVE  /\ caller[c].todo # <<>> /\ caller[c].todo \in Seq(AllSteps)
           /\ caller[c].job \in Jobs \ {"none"}
           /\ Head(caller[c].todo) \in Heads(caller[c].job)
           /\ Head(caller[c].todo) = <<Op(c), Arg(c)>>
           /\ Tail(caller[c].todo) \in Seq(Starts(caller[c].job))
           /\ Tail(caller[c].todo) \in ListOf(caller[c].job)
<1>1. /\ caller[c].todo # <<>> /\ Op(c) = Head(caller[c].todo)[1]
      /\ Arg(c) = Head(caller[c].todo)[2]
  BY DEF Op, Arg, Next1
<1>2. caller[c] \in Calls /\ caller[c].todo \in ListOf(caller[c].job)
  BY DEF ChatsTypes, TodoInv
<1>3. /\ caller[c].todo \in Seq(AllSteps) /\ caller[c].job \in Jobs \ {"none"}
      /\ Head(caller[c].todo) \in Heads(caller[c].job)
      /\ Tail(caller[c].todo) \in Seq(Starts(caller[c].job))
  BY <1>1, <1>2 DEF Calls, ListOf
<1>4. Tail(caller[c].todo) \in ListOf(caller[c].job)
  BY <1>3, StartList
<1>5. Head(caller[c].todo) = <<Op(c), Arg(c)>>
  BY <1>1, <1>3, HeadIs
<1>6. QED BY <1>1, <1>3, <1>4, <1>5

LEMMA GoesOn ==
    ASSUME ChatsAssumption, ChatsTypes, NEW c \in Callers, Op(c) # "none"
    PROVE  /\ GoOn(c, <<>>) => Moved(c, Tail(caller[c].todo))
           /\ \A x \in Heads(caller[c].job) :
                 GoOn(c, <<x>>) => Moved(c, <<x>> \o Tail(caller[c].todo))
           /\ Leave(c) => Moved(c, <<>>)
<1>1. /\ caller \in [Callers -> Calls] /\ caller[c].job \in Jobs \ {"none"}
      /\ Tail(caller[c].todo) \in Seq(Starts(caller[c].job))
      /\ Tail(caller[c].todo) \in ListOf(caller[c].job)
  BY Standing DEF ChatsTypes
<1>2. ASSUME GoOn(c, <<>>) PROVE Moved(c, Tail(caller[c].todo))
  <2>1. <<>> \o Tail(caller[c].todo) = Tail(caller[c].todo)
    BY <1>1
  <2>2. caller' = [caller EXCEPT ![c].todo = Tail(caller[c].todo)]
    BY <1>2, <2>1 DEF GoOn
  <2>3. QED BY <1>1, <2>2, Moving
<1>3. ASSUME NEW x \in Heads(caller[c].job), GoOn(c, <<x>>)
      PROVE  Moved(c, <<x>> \o Tail(caller[c].todo))
  <2>1. <<x>> \o Tail(caller[c].todo) \in ListOf(caller[c].job)
    BY <1>1, PutFirst
  <2>2. caller' = [caller EXCEPT ![c].todo = <<x>> \o Tail(caller[c].todo)]
    BY <1>3 DEF GoOn
  <2>3. QED BY <2>1, <2>2, Moving
<1>4. ASSUME Leave(c) PROVE Moved(c, <<>>)
  <2>1. <<>> \in ListOf(caller[c].job)
    BY DEF ListOf
  <2>2. QED BY <1>4, <2>1, Moving DEF Leave
<1>5. QED BY <1>2, <1>3, <1>4

(* How a list goes on: with its rest, with what was read into it before    *)
(* the rest, or, where a chat is looked at first, differently.             *)
Turns(c, rest) ==
    LET tail == Tail(caller[c].todo) IN
    \/ rest = tail
    \/ rest = <<<<"sweep", "chat">>>> \o tail /\ Op(c) = "lookActive" /\ ~row.active
    \/ rest = <<<<"status", "whitelist">>>> \o tail /\ Op(c) = "clearOff"
    \/ rest = <<<<"status", "new">>>> \o tail /\ Op(c) = "clearIgnored"
    \/ rest = <<<<"send", "chat">>>> \o tail /\ Op(c) = "gate" /\ row.claim \in {Free, c}
    \/ /\ caller[c].job = "other"
       /\ \/ \E x \in Heads("other") :
                rest = <<x>> \o tail /\ x[1] \in {"readDefault", "apply", "sync"}
          \/ rest \in Seq(OtherSteps)

LEMMA Heads1 ==
    /\ <<"sweep", "chat">> \in Heads("level") /\ <<"send", "chat">> \in Heads("other")
    /\ \A s \in {"whitelist", "new"} : <<"status", s>> \in Heads("level")
    /\ \A job \in Jobs \ {"other"} : Heads(job) = Heads("level")
    /\ \A o \in Origins : <<"readDefault", o>> \in Heads("other")
    /\ \A l \in Defaults : <<"apply", l>> \in Heads("other")
    /\ \A m \in Modes : <<"sync", m>> \in Heads("other")
    /\ <<"touch", "chat">> \in OtherSteps /\ <<"lookSource", "chat">> \in OtherSteps
    /\ <<"gate", "chat">> \in OtherSteps
<1>1. <<"sweep", "chat">> \in Heads("level") /\ <<"send", "chat">> \in Heads("other")
  BY DEF Heads
<1>2. \A s \in {"whitelist", "new"} : <<"status", s>> \in Heads("level")
  BY DEF Heads, LevelSteps, Statuses
<1>3. \A job \in Jobs \ {"other"} : Heads(job) = Heads("level")
  BY DEF Heads
<1>4. /\ \A o \in Origins : <<"readDefault", o>> \in Heads("other")
      /\ \A l \in Defaults : <<"apply", l>> \in Heads("other")
      /\ \A m \in Modes : <<"sync", m>> \in Heads("other")
  BY DEF Heads
<1>5. /\ <<"touch", "chat">> \in OtherSteps /\ <<"lookSource", "chat">> \in OtherSteps
      /\ <<"gate", "chat">> \in OtherSteps
  BY DEF OtherSteps
<1>6. QED BY <1>1, <1>2, <1>3, <1>4, <1>5

(* Looking at the chat before sending.                                     *)
LEMMA SendingIs ==
    ASSUME ChatsAssumption, ChatsTypes, NEW c \in Callers, LookToSend(c)
    PROVE  \E rest : Moved(c, rest) /\ Turns(c, rest)
<1>1. Op(c) = "gate" /\ Op(c) # "none"
  BY DEF LookToSend
<1>2. caller[c].job = "other"
  BY <1>1, Standing, HeadIs DEF DecidingOps
<1>3. CASE GoOn(c, Touch \o Do("gate", "chat"))
  <2>1. Tail(caller[c].todo) \in Seq(OtherSteps)
    BY <1>1, <1>2, Standing DEF Starts
  <2>2. Touch \o Do("gate", "chat") \in Seq(OtherSteps)
    BY DoIs, Heads1, One, Cat DEF Touch, OriginDefault
  <2>3. PICK rest \in Seq(OtherSteps) :
           rest = (Touch \o Do("gate", "chat")) \o Tail(caller[c].todo)
    BY <2>1, <2>2, Cat
  <2>4. rest \in ListOf(caller[c].job)
    BY <1>2, <2>3, StartList DEF Starts, Jobs
  <2>5. caller' = [caller EXCEPT ![c].todo = rest]
    BY <1>3, <2>3 DEF GoOn, ChatsTypes
  <2>6. QED BY <1>2, <2>3, <2>4, <2>5, Moving DEF Turns
<1>4. CASE Leave(c)
  <2>1. <<>> \in Seq(OtherSteps)
    OBVIOUS
  <2>2. QED BY <1>1, <1>2, <1>4, <2>1, GoesOn DEF Turns
<1>5. CASE GoOn(c, <<>>)
  BY <1>1, <1>5, GoesOn DEF Turns
<1>6. CASE GoOn(c, Do("send", "chat")) /\ row.claim \in {Free, c}
  BY <1>1, <1>2, <1>6, GoesOn, DoIs, Heads1 DEF Turns
<1>7. QED BY <1>3, <1>4, <1>5, <1>6 DEF LookToSend

LEMMA StatementIs ==
    ASSUME ChatsAssumption, ChatsTypes, NEW c \in Callers, Statement(c), ~Return(c)
    PROVE  Op(c) # "none" /\ \E rest : Moved(c, rest) /\ Turns(c, rest)
<1>1. Op(c) # "none"
  BY DEF Statement, Write, Writes, LookActive, Sweep, LookStatus, LookSource, ReadDefault,
         Insert, Resolve, UpdateRouter, SetDefault, Origins, LookChat, Claim, Release,
         LookToSend, Send
<1>2. /\ Head(caller[c].todo) \in Heads(caller[c].job)
      /\ Head(caller[c].todo)[1] = Op(c) /\ Head(caller[c].todo)[2] = Arg(c)
      /\ caller[c].job \in Jobs
  BY <1>1, Standing
<1>3. caller[c].job = "other" => Heads(caller[c].job) = Heads("other")
  OBVIOUS
<1>4. CASE GoOn(c, <<>>)
  BY <1>1, <1>4, GoesOn DEF Turns
<1>5. CASE LookActive(c) /\ ~row.active
  <2>1. caller[c].job # "other"
    BY <1>2, <1>5, HeadIs DEF LookActive, DecidingOps
  <2>2. <<"sweep", "chat">> \in Heads(caller[c].job)
    BY <1>2, <2>1, Heads1
  <2>3. GoOn(c, <<<<"sweep", "chat">>>>)
    BY <1>5, DoIs DEF LookActive
  <2>4. QED BY <1>1, <1>5, <2>2, <2>3, GoesOn DEF Turns, LookActive
<1>6. CASE LookStatus(c) /\ ~GoOn(c, <<>>)
  <2>1. Op(c) \in {"clearOff", "clearIgnored"} /\ GoOn(c, Do("status", Arg(c)))
    BY <1>6 DEF LookStatus
  <2>2. caller[c].job # "other"
    BY <1>2, <2>1, HeadIs DEF DecidingOps
  <2>3. CASE Op(c) = "clearOff"
    <3>1. Arg(c) = "whitelist"
      BY <1>2, <2>3, HeadIs
    <3>2. <<"status", "whitelist">> \in Heads(caller[c].job)
      BY <1>2, <2>2, Heads1
    <3>3. GoOn(c, <<<<"status", "whitelist">>>>)
      BY <2>1, <3>1, DoIs
    <3>4. QED BY <1>1, <2>3, <3>2, <3>3, GoesOn DEF Turns
  <2>4. CASE Op(c) = "clearIgnored"
    <3>1. Arg(c) = "new"
      BY <1>2, <2>4, HeadIs
    <3>2. <<"status", "new">> \in Heads(caller[c].job)
      BY <1>2, <2>2, Heads1
    <3>3. GoOn(c, <<<<"status", "new">>>>)
      BY <2>1, <3>1, DoIs
    <3>4. QED BY <1>1, <2>4, <3>2, <3>3, GoesOn DEF Turns
  <2>5. QED BY <2>1, <2>3, <2>4
<1>7. ASSUME NEW x, GoOn(c, <<x>>), caller[c].job = "other", x \in Heads("other"),
             x[1] \in {"readDefault", "apply", "sync"}
      PROVE  \E rest : Moved(c, rest) /\ Turns(c, rest)
  BY <1>1, <1>7, GoesOn DEF Turns
<1>8. CASE LookSource(c) /\ ~GoOn(c, <<>>)
  <2>1. caller[c].job = "other"
    BY <1>2, <1>8, HeadIs DEF LookSource, DecidingOps
  <2>2. PICK o \in Origins : GoOn(c, <<<<"readDefault", o>>>>)
    BY <1>8, DoIs DEF LookSource, Origins
  <2>3. PICK x : x = <<"readDefault", o>>
    OBVIOUS
  <2>4. x \in Heads("other") /\ x[1] = "readDefault" /\ GoOn(c, <<x>>)
    BY <2>2, <2>3, Heads1
  <2>5. QED BY <1>1, <1>7, <2>1, <2>4
<1>9. CASE ReadDefault(c)
  <2>1. caller[c].job = "other"
    BY <1>2, <1>9, HeadIs DEF ReadDefault, DecidingOps
  <2>2. kv[Arg(c)] \in Defaults
    BY <1>2, <1>9, HeadIs DEF ReadDefault, ChatsTypes
  <2>3. GoOn(c, <<<<"apply", kv[Arg(c)]>>>>)
    BY <1>9, DoIs DEF ReadDefault
  <2>4. PICK x : x = <<"apply", kv[Arg(c)]>>
    OBVIOUS
  <2>5. x \in Heads("other") /\ x[1] = "apply" /\ GoOn(c, <<x>>)
    BY <2>2, <2>3, <2>4, Heads1
  <2>6. QED BY <1>1, <1>7, <2>1, <2>5
<1>10. CASE Resolve(c)
  <2>1. caller[c].job = "other"
    BY <1>2, <1>10, HeadIs DEF Resolve, DecidingOps
  <2>2. router.cfg \in Modes
    BY DEF ChatsTypes
  <2>3. GoOn(c, <<<<"sync", router.cfg>>>>)
    BY <1>10, DoIs DEF Resolve
  <2>4. PICK x : x = <<"sync", router.cfg>>
    OBVIOUS
  <2>5. x \in Heads("other") /\ x[1] = "sync" /\ GoOn(c, <<x>>)
    BY <2>2, <2>3, <2>4, Heads1
  <2>6. QED BY <1>1, <1>7, <2>1, <2>5
<1>11. CASE LookChat(c) /\ ~GoOn(c, <<>>)
  <2>1. caller[c].job = "other"
    BY <1>2, <1>11, HeadIs DEF LookChat, DecidingOps
  <2>2. <<>> \in Seq(OtherSteps) /\ Leave(c)
    BY <1>11 DEF LookChat
  <2>3. Moved(c, <<>>)
    BY <1>1, <2>2, GoesOn
  <2>4. Turns(c, <<>>)
    BY <2>1, <2>2 DEF Turns
  <2>5. QED BY <1>1, <2>3, <2>4
<1>12. CASE LookToSend(c)
  BY <1>1, <1>12, SendingIs
<1>13. QED
  BY <1>1, <1>4, <1>5, <1>6, <1>8, <1>9, <1>10, <1>11, <1>12
     DEF Statement, Write, LookActive, Sweep, Insert, UpdateRouter, SetDefault, Claim,
         Release, Send

-----------------------------------------------------------------------------
(* What one statement does to the row                                      *)

LEMMA PutIs ==
    ASSUME NEW r \in Row
    PROVE  /\ Put(r) \in Row /\ Put(r).exists /\ Put(r).claim = r.claim
           /\ r.exists => Put(r) = r
           /\ Touched(r) \in Row /\ Touched(r).exists /\ Touched(r).claim = r.claim
           /\ r.exists => Touched(r) = r
BY DEF Put, Touched, Row, Statuses, OffStatuses

(* The fields a level is read from stay, but for the boss of a row that    *)
(* nobody has decided on; the marks of a decision stay.                    *)
SameLevel(r, s) ==
    /\ s.exists /\ s.active = r.active /\ s.conf = r.conf /\ s.status = r.status
    /\ s.touched = r.touched /\ s.boss = r.boss /\ s.manual = r.manual
SameMode(r, s) == s.mode = r.mode /\ s.modeManual = r.modeManual

LEMMA DecidingWrites ==
    ASSUME NEW r \in Row
    PROVE  /\ \A b \in Switch : LET s == After(r, "boss", b) IN
                 /\ s \in Row /\ s.claim = r.claim /\ s.exists /\ s.touched /\ s.manual
                 /\ s.boss = (b = "on")
                 /\ r.exists => /\ SameMode(r, s) /\ s.active = r.active /\ s.conf = r.conf
                                /\ s.status = r.status
           /\ \A b \in Switch : LET s == After(r, "active", b) IN
                 /\ s \in Row /\ s.claim = r.claim /\ s.exists /\ s.manual
                 /\ s.active = (b = "on")
                 /\ r.exists => /\ SameMode(r, s) /\ s.boss = r.boss /\ s.conf = r.conf
                                /\ s.status = r.status /\ s.touched = r.touched
           /\ \A m \in {"none", "discretion", "always"} : LET s == After(r, "conf", m) IN
                 /\ s \in Row /\ s.claim = r.claim /\ s.exists /\ s.manual /\ s.conf = m
                 /\ r.exists => /\ SameMode(r, s) /\ s.boss = r.boss /\ s.active = r.active
                                /\ s.status = r.status /\ s.touched = r.touched
           /\ \A t \in Statuses : LET s == After(r, "status", t) IN
                 /\ s \in Row /\ s.claim = r.claim /\ s.exists /\ s.status = t
                 /\ r.exists => /\ SameMode(r, s) /\ s.boss = r.boss /\ s.active = r.active
                                /\ s.conf = r.conf /\ s.touched = r.touched
                                /\ s.manual = r.manual
           /\ \A x : LET s == After(r, "manual", x) IN
                 /\ s \in Row /\ s.claim = r.claim /\ s.exists /\ s.manual
                 /\ r.exists => /\ SameMode(r, s) /\ s.boss = r.boss /\ s.active = r.active
                                /\ s.conf = r.conf /\ s.touched = r.touched
                                /\ s.status = r.status
<1>1. ASSUME NEW b \in Switch
      PROVE  LET s == After(r, "boss", b) IN
                 /\ s \in Row /\ s.claim = r.claim /\ s.exists /\ s.touched /\ s.manual
                 /\ s.boss = (b = "on")
                 /\ r.exists => /\ SameMode(r, s) /\ s.active = r.active /\ s.conf = r.conf
                                /\ s.status = r.status
  <2>1. After(r, "boss", b) = [Put(r) EXCEPT !.boss = (b = "on"), !.touched = TRUE,
                                             !.manual = TRUE]
    BY DEF After
  <2>2. PICK p \in Row : p = Put(r)
    BY PutIs
  <2>3. PICK s : s = After(r, "boss", b)
    OBVIOUS
  <2>4. s \in Row
    BY <2>1, <2>2, <2>3 DEF Row
  <2>5. /\ s.exists = p.exists /\ s.status = p.status /\ s.active = p.active /\ s.conf = p.conf
        /\ s.boss = (b = "on") /\ s.touched = TRUE /\ s.manual = TRUE /\ s.contact = p.contact
        /\ s.mode = p.mode /\ s.modeManual = p.modeManual /\ s.claim = p.claim
    BY <2>1, <2>2, <2>3 DEF Row
  <2>6. p.exists = TRUE /\ p.claim = r.claim /\ (r.exists => p = r)
    BY <2>2, PutIs DEF Row
  <2>7. QED BY <2>3, <2>4, <2>5, <2>6 DEF SameMode
<1>2. ASSUME NEW b \in Switch
      PROVE  LET s == After(r, "active", b) IN
                 /\ s \in Row /\ s.claim = r.claim /\ s.exists /\ s.manual
                 /\ s.active = (b = "on")
                 /\ r.exists => /\ SameMode(r, s) /\ s.boss = r.boss /\ s.conf = r.conf
                                /\ s.status = r.status /\ s.touched = r.touched
  <2>1. After(r, "active", b) = [Put(r) EXCEPT !.active = (b = "on"), !.manual = TRUE]
    BY DEF After
  <2>2. PICK p \in Row : p = Put(r)
    BY PutIs
  <2>3. PICK s : s = After(r, "active", b)
    OBVIOUS
  <2>4. s \in Row
    BY <2>1, <2>2, <2>3 DEF Row
  <2>5. /\ s.exists = p.exists /\ s.status = p.status /\ s.active = (b = "on") /\ s.conf = p.conf
        /\ s.boss = p.boss /\ s.touched = p.touched /\ s.manual = TRUE /\ s.contact = p.contact
        /\ s.mode = p.mode /\ s.modeManual = p.modeManual /\ s.claim = p.claim
    BY <2>1, <2>2, <2>3 DEF Row
  <2>6. p.exists = TRUE /\ p.claim = r.claim /\ (r.exists => p = r)
    BY <2>2, PutIs DEF Row
  <2>7. QED BY <2>3, <2>4, <2>5, <2>6 DEF SameMode
<1>3. ASSUME NEW m \in {"none", "discretion", "always"}
      PROVE  LET s == After(r, "conf", m) IN
                 /\ s \in Row /\ s.claim = r.claim /\ s.exists /\ s.manual /\ s.conf = m
                 /\ r.exists => /\ SameMode(r, s) /\ s.boss = r.boss /\ s.active = r.active
                                /\ s.status = r.status /\ s.touched = r.touched
  <2>1. After(r, "conf", m) = [Put(r) EXCEPT !.conf = m, !.manual = TRUE]
    BY DEF After
  <2>2. PICK p \in Row : p = Put(r)
    BY PutIs
  <2>3. PICK s : s = After(r, "conf", m)
    OBVIOUS
  <2>4. s \in Row
    BY <2>1, <2>2, <2>3 DEF Row
  <2>5. /\ s.exists = p.exists /\ s.status = p.status /\ s.active = p.active /\ s.conf = m
        /\ s.boss = p.boss /\ s.touched = p.touched /\ s.manual = TRUE /\ s.contact = p.contact
        /\ s.mode = p.mode /\ s.modeManual = p.modeManual /\ s.claim = p.claim
    BY <2>1, <2>2, <2>3 DEF Row
  <2>6. p.exists = TRUE /\ p.claim = r.claim /\ (r.exists => p = r)
    BY <2>2, PutIs DEF Row
  <2>7. QED BY <2>3, <2>4, <2>5, <2>6 DEF SameMode
<1>4. ASSUME NEW t \in Statuses
      PROVE  LET s == After(r, "status", t) IN
                 /\ s \in Row /\ s.claim = r.claim /\ s.exists /\ s.status = t
                 /\ r.exists => /\ SameMode(r, s) /\ s.boss = r.boss /\ s.active = r.active
                                /\ s.conf = r.conf /\ s.touched = r.touched
                                /\ s.manual = r.manual
  <2>1. After(r, "status", t) = [Put(r) EXCEPT !.status = t]
    BY DEF After
  <2>2. QED BY <2>1, PutIs DEF Row, SameMode
<1>5. ASSUME NEW x
      PROVE  LET s == After(r, "manual", x) IN
                 /\ s \in Row /\ s.claim = r.claim /\ s.exists /\ s.manual
                 /\ r.exists => /\ SameMode(r, s) /\ s.boss = r.boss /\ s.active = r.active
                                /\ s.conf = r.conf /\ s.touched = r.touched
                                /\ s.status = r.status
  <2>1. After(r, "manual", x) = [Put(r) EXCEPT !.manual = TRUE]
    BY DEF After
  <2>2. PICK p \in Row : p = Put(r)
    BY PutIs
  <2>3. PICK s : s = After(r, "manual", x)
    OBVIOUS
  <2>4. s \in Row
    BY <2>1, <2>2, <2>3 DEF Row
  <2>5. /\ s.exists = p.exists /\ s.status = p.status /\ s.active = p.active /\ s.conf = p.conf
        /\ s.boss = p.boss /\ s.touched = p.touched /\ s.manual = TRUE /\ s.contact = p.contact
        /\ s.mode = p.mode /\ s.modeManual = p.modeManual /\ s.claim = p.claim
    BY <2>1, <2>2, <2>3 DEF Row
  <2>6. p.exists = TRUE /\ p.claim = r.claim /\ (r.exists => p = r)
    BY <2>2, PutIs DEF Row
  <2>7. QED BY <2>3, <2>4, <2>5, <2>6 DEF SameMode
<1>6. QED BY <1>1, <1>2, <1>3, <1>4, <1>5

LEMMA OtherWrites ==
    ASSUME ChatsAssumption, NEW r \in Row
    PROVE  /\ \A x : LET s == After(r, "touch", x) IN
                 /\ s \in Row /\ s.claim = r.claim
                 /\ r.exists => SameLevel(r, s) /\ SameMode(r, s)
           /\ \A b \in Switch : LET s == After(r, "name", b) IN
                 /\ s \in Row /\ s.claim = r.claim
                 /\ r.exists => SameLevel(r, s) /\ SameMode(r, s)
           /\ \A x : LET s == After(r, "owner", x) IN
                 /\ s \in Row /\ s.claim = r.claim
                 /\ r.exists => /\ SameMode(r, s) /\ (r.touched => SameLevel(r, s))
                                /\ s.exists /\ s.active = r.active /\ s.conf = r.conf
                                /\ s.status = r.status /\ s.manual = r.manual
           /\ \A m \in Modes : LET s == After(r, "mode", m) IN
                 /\ s \in Row /\ s.claim = r.claim /\ s.exists /\ s.mode = m /\ s.modeManual
                 /\ r.exists => SameLevel(r, s)
           /\ \A m \in Modes : LET s == After(r, "sync", m) IN
                 /\ s \in Row /\ s.claim = r.claim
                 /\ r.exists => /\ SameLevel(r, s)
                                /\ r.modeManual => SameMode(r, s)
           /\ \A l \in Defaults : LET s == After(r, "apply", l) IN
                 /\ s \in Row /\ s.claim = r.claim
                 /\ r.exists => /\ SameMode(r, s) /\ s.exists /\ s.boss = r.boss
                                /\ s.touched = r.touched /\ s.manual = r.manual
                                /\ r.status = "ignored" => s.status = "ignored"
<1>1. ASSUME NEW x
      PROVE  LET s == After(r, "touch", x) IN
                 /\ s \in Row /\ s.claim = r.claim
                 /\ r.exists => SameLevel(r, s) /\ SameMode(r, s)
  <2>1. After(r, "touch", x) = Touched(r)
    BY DEF After
  <2>2. QED BY <2>1, PutIs DEF SameLevel, SameMode
<1>2. ASSUME NEW b \in Switch
      PROVE  LET s == After(r, "name", b) IN
                 /\ s \in Row /\ s.claim = r.claim
                 /\ r.exists => SameLevel(r, s) /\ SameMode(r, s)
  <2>1. After(r, "name", b) = [Put(r) EXCEPT !.contact = (b = "on")]
    BY DEF After
  <2>2. PICK p \in Row : p = Put(r)
    BY PutIs
  <2>3. PICK s : s = After(r, "name", b)
    OBVIOUS
  <2>4. s \in Row
    BY <2>1, <2>2, <2>3 DEF Row
  <2>5. /\ s.exists = p.exists /\ s.status = p.status /\ s.active = p.active /\ s.conf = p.conf
        /\ s.boss = p.boss /\ s.touched = p.touched /\ s.manual = p.manual /\ s.contact = (b = "on")
        /\ s.mode = p.mode /\ s.modeManual = p.modeManual /\ s.claim = p.claim
    BY <2>1, <2>2, <2>3 DEF Row
  <2>6. p.exists = TRUE /\ p.claim = r.claim /\ (r.exists => p = r)
    BY <2>2, PutIs DEF Row
  <2>7. QED BY <2>3, <2>4, <2>5, <2>6 DEF SameLevel, SameMode
<1>3. ASSUME NEW x
      PROVE  LET s == After(r, "owner", x) IN
                 /\ s \in Row /\ s.claim = r.claim
                 /\ r.exists => /\ SameMode(r, s) /\ (r.touched => SameLevel(r, s))
                                /\ s.exists /\ s.active = r.active /\ s.conf = r.conf
                                /\ s.status = r.status /\ s.manual = r.manual
  <2>1. After(r, "owner", x) = IF r.exists /\ ~r.touched
                               THEN [r EXCEPT !.boss = TRUE, !.touched = TRUE] ELSE r
    BY DEF After, OwnerMarked
  <2>2. QED BY <2>1 DEF Row, SameLevel, SameMode
<1>4. ASSUME NEW m \in Modes
      PROVE  /\ LET s == After(r, "mode", m) IN
                 /\ s \in Row /\ s.claim = r.claim /\ s.exists /\ s.mode = m /\ s.modeManual
                 /\ r.exists => SameLevel(r, s)
             /\ LET s == After(r, "sync", m) IN
                 /\ s \in Row /\ s.claim = r.claim
                 /\ r.exists => /\ SameLevel(r, s)
                                /\ r.modeManual => SameMode(r, s)
  <2>1. After(r, "mode", m) = [Put(r) EXCEPT !.mode = m, !.modeManual = TRUE]
    BY DEF After
  <2>2. After(r, "sync", m) = IF r.exists /\ r.modeManual THEN r ELSE [Put(r) EXCEPT !.mode = m]
    BY DEF After, ModeSynced
  <2>3. PICK p \in Row : p = Put(r)
    BY PutIs
  <2>4. p.exists = TRUE /\ p.claim = r.claim /\ (r.exists => p = r)
    BY <2>3, PutIs DEF Row
  <2>5. PICK s : s = [p EXCEPT !.mode = m, !.modeManual = TRUE]
    OBVIOUS
  <2>6. s \in Row
    BY <2>5 DEF Row
  <2>7. /\ s.exists = p.exists /\ s.status = p.status /\ s.active = p.active /\ s.conf = p.conf
        /\ s.boss = p.boss /\ s.touched = p.touched /\ s.manual = p.manual /\ s.contact = p.contact
        /\ s.mode = m /\ s.modeManual = TRUE /\ s.claim = p.claim
    BY <2>5 DEF Row
  <2>8. PICK u : u = [p EXCEPT !.mode = m]
    OBVIOUS
  <2>9. u \in Row
    BY <2>8 DEF Row
  <2>10. /\ u.exists = p.exists /\ u.status = p.status /\ u.active = p.active /\ u.conf = p.conf
         /\ u.boss = p.boss /\ u.touched = p.touched /\ u.manual = p.manual /\ u.contact = p.contact
         /\ u.mode = m /\ u.modeManual = p.modeManual /\ u.claim = p.claim
    BY <2>8 DEF Row
  <2>11. After(r, "mode", m) = s /\ After(r, "sync", m) \in {r, u}
    BY <2>1, <2>2, <2>3, <2>5, <2>8
  <2>12. r.modeManual /\ r.exists => After(r, "sync", m) = r
    BY <2>2
  <2>13. r.exists => SameLevel(r, s) /\ SameLevel(r, u) /\ SameLevel(r, r) /\ SameMode(r, r)
    BY <2>4, <2>7, <2>10 DEF SameLevel, SameMode
  <2>14. QED BY <2>4, <2>6, <2>7, <2>9, <2>10, <2>11, <2>12, <2>13
<1>5. ASSUME NEW l \in Defaults
      PROVE  LET s == After(r, "apply", l) IN
                 /\ s \in Row /\ s.claim = r.claim
                 /\ r.exists => /\ SameMode(r, s) /\ s.exists /\ s.boss = r.boss
                                /\ s.touched = r.touched /\ s.manual = r.manual
                                /\ r.status = "ignored" => s.status = "ignored"
  <2>1. After(r, "apply", l) = Defaulted(r, l)
    BY DEF After
  <2>2. l \in {"auto", "confirm", "unattended", "ignored"}
    BY DEF ChatsAssumption, AllLevels
  <2>3. \/ Defaulted(r, l) = r
        \/ Defaulted(r, l) = [r EXCEPT !.active = TRUE, !.conf = "none"]
        \/ Defaulted(r, l) = [r EXCEPT !.active = TRUE, !.conf = "always"]
        \/ Defaulted(r, l) = [r EXCEPT !.active = FALSE]
        \/ Defaulted(r, l) = [r EXCEPT !.active = FALSE, !.status = "ignored"]
    BY <2>2 DEF Defaulted
  <2>4. PICK s : s = Defaulted(r, l)
    OBVIOUS
  <2>5. s \in Row
    BY <2>3, <2>4 DEF Row, Statuses, OffStatuses
  <2>6. /\ s.exists = r.exists /\ s.boss = r.boss /\ s.touched = r.touched
        /\ s.manual = r.manual /\ s.mode = r.mode /\ s.modeManual = r.modeManual
        /\ s.claim = r.claim /\ s.status \in {r.status, "ignored"}
    <3>1. CASE s = r
      BY <3>1
    <3>2. CASE s # r
      BY <2>3, <2>4, <3>2 DEF Row
    <3>3. QED BY <3>1, <3>2
  <2>7. QED BY <2>1, <2>4, <2>5, <2>6 DEF SameMode
<1>6. QED BY <1>1, <1>2, <1>3, <1>4, <1>5

-----------------------------------------------------------------------------
(* Types                                                                   *)

LEMMA Typed ==
    ASSUME ChatsTypes
    PROVE  /\ row \in Row /\ kv \in [Origins -> Defaults]
           /\ msgs \in [Messages -> {"absent", "recent", "old", "closed"}]
           /\ router \in [cfg : Modes, file : Modes]
           /\ caller \in [Callers -> Calls] /\ TodoInv
           /\ hist \in History
BY DEF ChatsTypes

LEMMA WriteIs ==
    ASSUME ChatsAssumption, ChatsTypes, NEW c \in Callers, Write(c)
    PROVE  /\ row' = After(row, Op(c), Arg(c)) /\ row' \in Row /\ row'.claim = row.claim
           /\ Op(c) \in Writes
           /\ Op(c) \in {"boss", "active", "name"} => Arg(c) \in Switch
           /\ Op(c) = "conf" => Arg(c) \in {"none", "discretion", "always"}
           /\ Op(c) = "status" => Arg(c) \in Statuses
           /\ Op(c) \in {"mode", "sync"} => Arg(c) \in Modes
           /\ Op(c) = "apply" => Arg(c) \in Defaults
<1>1. Op(c) \in Writes /\ Op(c) # "none" /\ row' = After(row, Op(c), Arg(c))
  BY DEF Write, Writes
<1>2. /\ Op(c) \in {"boss", "active", "name"} => Arg(c) \in Switch
      /\ Op(c) = "conf" => Arg(c) \in {"none", "discretion", "always"}
      /\ Op(c) = "status" => Arg(c) \in Statuses
      /\ Op(c) \in {"mode", "sync"} => Arg(c) \in Modes
      /\ Op(c) = "apply" => Arg(c) \in Defaults
  <2>1. PICK h \in Heads(caller[c].job) : h = <<Op(c), Arg(c)>>
    BY <1>1, Standing
  <2>2. caller[c].job \in Jobs /\ h[1] = Op(c) /\ h[2] = Arg(c)
    BY <1>1, <2>1, Standing
  <2>3. QED BY <2>2, HeadIs
<1>3. row \in Row
  BY Typed
<1>4. CASE Op(c) \in {"boss", "active", "conf", "status", "manual"}
  BY <1>1, <1>2, <1>3, <1>4, DecidingWrites
<1>5. CASE Op(c) \in {"touch", "name", "owner", "mode", "sync", "apply"}
  BY <1>1, <1>2, <1>3, <1>5, OtherWrites
<1>6. QED BY <1>1, <1>2, <1>4, <1>5 DEF Writes

LEMMA ClaimsAre ==
    ASSUME NEW r \in Row, NEW c \in Callers \cup {Free}
    PROVE  LET s == [r EXCEPT !.claim = c] IN
           /\ s \in Row /\ s.claim = c /\ SameMode(r, s) /\ (r.exists => SameLevel(r, s))
           /\ s.active = r.active /\ s.exists = r.exists
<1>1. PICK s : s = [r EXCEPT !.claim = c]
  OBVIOUS
<1>2. s \in Row
  BY <1>1 DEF Row
<1>3. /\ s.claim = c /\ s.mode = r.mode /\ s.modeManual = r.modeManual
      /\ s.exists = r.exists /\ s.active = r.active /\ s.conf = r.conf
      /\ s.status = r.status /\ s.touched = r.touched /\ s.boss = r.boss
      /\ s.manual = r.manual
  BY <1>1 DEF Row
<1>4. QED BY <1>1, <1>2, <1>3 DEF SameMode, SameLevel

LEMMA HistoryIs ==
    ASSUME hist \in History
    PROVE  /\ hist.level \in AllLevels \cup {"none"} /\ hist.stale \in BOOLEAN
           /\ hist.boss \in Switch \cup {"none"} /\ hist.mode \in Modes \cup {"none"}
           /\ hist.off \subseteq Messages /\ hist.holders \subseteq Callers
           /\ hist.before \subseteq Callers /\ hist.trespass \in BOOLEAN
           /\ hist.calls \in 0..MaxCalls
BY DEF History

(* What a write leaves on record.                                          *)
LEMMA WriteRecords ==
    ASSUME ChatsAssumption, ChatsTypes, NEW c \in Callers, Write(c)
    PROVE  /\ hist' \in History
           /\ hist'.level = hist.level /\ hist'.holders = hist.holders
           /\ hist'.before = hist.before /\ hist'.trespass = hist.trespass
           /\ hist'.stale = (hist.stale \/ (Op(c) = "apply" /\ row.manual))
           /\ hist'.boss = (IF Op(c) = "boss" THEN Arg(c) ELSE hist.boss)
           /\ hist'.mode = (IF Op(c) = "mode" THEN Arg(c) ELSE hist.mode)
           /\ hist'.off = (IF row'.active THEN hist.off ELSE hist.off \cup Old)
<1>1. /\ row \in Row /\ row' \in Row /\ hist \in History
      /\ Op(c) = "boss" => Arg(c) \in Switch
      /\ Op(c) = "mode" => Arg(c) \in Modes
  BY Typed, WriteIs
<1>2. PICK stale \in BOOLEAN : stale = (hist.stale \/ (Op(c) = "apply" /\ row.manual))
  OBVIOUS
<1>3. PICK boss \in Switch \cup {"none"} :
         boss = (IF Op(c) = "boss" THEN Arg(c) ELSE hist.boss)
  BY <1>1, HistoryIs
<1>4. PICK mode \in Modes \cup {"none"} :
         mode = (IF Op(c) = "mode" THEN Arg(c) ELSE hist.mode)
  BY <1>1, HistoryIs
<1>5. PICK off \in SUBSET Messages :
         off = (IF row'.active THEN hist.off ELSE hist.off \cup Old)
  BY <1>1, HistoryIs DEF Old
<1>6. hist' = [hist EXCEPT !.stale = stale, !.boss = boss, !.mode = mode, !.off = off]
  BY <1>1, <1>2, <1>3, <1>4, <1>5 DEF Write
<1>7. hist' \in History
  BY <1>1, <1>6 DEF History
<1>8. /\ hist'.level = hist.level /\ hist'.holders = hist.holders
      /\ hist'.before = hist.before /\ hist'.trespass = hist.trespass
      /\ hist'.stale = stale /\ hist'.boss = boss /\ hist'.mode = mode /\ hist'.off = off
  BY <1>1, <1>6 DEF History
<1>9. QED BY <1>2, <1>3, <1>4, <1>5, <1>7, <1>8

(* What is not a call, typed.                                              *)
DataTypes ==
    /\ row \in Row
    /\ msgs \in [Messages -> {"absent", "recent", "old", "closed"}]
    /\ kv \in [Origins -> Defaults]
    /\ router \in [cfg : Modes, file : Modes]
    /\ hist \in History

LEMMA StatementTypes ==
    ASSUME ChatsAssumption, ChatsTypes, NEW c \in Callers, Statement(c)
    PROVE  DataTypes'
<1>0. /\ row \in Row /\ kv \in [Origins -> Defaults] /\ hist \in History
      /\ msgs \in [Messages -> {"absent", "recent", "old", "closed"}]
      /\ router \in [cfg : Modes, file : Modes]
  BY Typed
<1>1. CASE Write(c)
  <2>1. row' \in Row /\ hist' \in History
    BY <1>1, WriteIs, WriteRecords
  <2>2. UNCHANGED <<msgs, kv, router>>
    BY <1>1 DEF Write
  <2>3. QED BY <1>0, <2>1, <2>2 DEF DataTypes
<1>2. CASE UNCHANGED <<row, msgs, kv, router, hist>>
  BY <1>0, <1>2 DEF DataTypes
<1>3. CASE Sweep(c)
  <2>1. msgs' = [m \in Messages |-> IF m \in Old THEN "closed" ELSE msgs[m]]
    BY <1>3 DEF Sweep
  <2>2. msgs' \in [Messages -> {"absent", "recent", "old", "closed"}]
    BY <1>0, <2>1
  <2>3. QED BY <1>0, <1>3, <2>2 DEF DataTypes, Sweep
<1>4. CASE Insert(c)
  <2>1. msgs' = [msgs EXCEPT ![Arg(c)] = IF @ = "absent" THEN "recent" ELSE @]
    BY <1>4 DEF Insert
  <2>2. msgs' \in [Messages -> {"absent", "recent", "old", "closed"}]
    BY <1>0, <2>1
  <2>3. QED BY <1>0, <1>4, <2>2 DEF DataTypes, Insert
<1>5. CASE UpdateRouter(c)
  <2>1. Op(c) # "none" /\ Op(c) \in {"config", "file"}
    BY <1>5 DEF UpdateRouter
  <2>2. PICK h \in Heads(caller[c].job) : h = <<Op(c), Arg(c)>> /\ caller[c].job \in Jobs
    BY <2>1, Standing
  <2>3. Arg(c) \in Modes
    BY <2>1, <2>2, HeadIs
  <2>4. router' \in [cfg : Modes, file : Modes]
    BY <1>0, <1>5, <2>3 DEF UpdateRouter
  <2>5. QED BY <1>0, <1>5, <2>4 DEF DataTypes, UpdateRouter
<1>6. CASE SetDefault(c)
  <2>1. Op(c) # "none" /\ Op(c) \in Origins
    BY <1>6 DEF SetDefault, Origins
  <2>2. PICK h \in Heads(caller[c].job) : h = <<Op(c), Arg(c)>> /\ caller[c].job \in Jobs
    BY <2>1, Standing
  <2>3. Arg(c) \in Defaults
    BY <2>1, <2>2, HeadIs
  <2>4. kv' \in [Origins -> Defaults]
    BY <1>0, <1>6, <2>3 DEF SetDefault
  <2>5. QED BY <1>0, <1>6, <2>4 DEF DataTypes, SetDefault
<1>7. CASE Claim(c)
  <2>1. row' \in Row
    BY <1>0, <1>7, ClaimsAre DEF Claim
  <2>2. hist' \in History
    <3>1. CASE MayClaim(c)
      <4>1. PICK holders \in SUBSET Callers, before \in SUBSET Callers :
               hist' = [hist EXCEPT !.holders = holders, !.before = before]
        <5>1. hist' = [hist EXCEPT !.holders = hist.holders \cup {c},
                                   !.before = {k \in Callers : Op(k) = "send"}]
          BY <1>0, <1>7, <3>1 DEF Claim, History
        <5>2. hist.holders \cup {c} \subseteq Callers
          BY <1>0, HistoryIs
        <5>3. QED BY <5>1, <5>2
      <4>2. QED BY <1>0, <4>1 DEF History
    <3>2. CASE ~MayClaim(c)
      BY <1>0, <1>7, <3>2 DEF Claim
    <3>3. QED BY <3>1, <3>2
  <2>3. QED BY <1>0, <1>7, <2>1, <2>2 DEF DataTypes, Claim
<1>8. CASE Release(c)
  <2>1. row' \in Row
    BY <1>0, <1>8, ClaimsAre DEF Release
  <2>2. hist' \in History
    BY <1>0, <1>8 DEF Release, History
  <2>3. QED BY <1>0, <1>8, <2>1, <2>2 DEF DataTypes, Release
<1>9. CASE Send(c)
  <2>1. PICK trespass \in BOOLEAN, before \in SUBSET Callers :
           hist' = [hist EXCEPT !.trespass = trespass, !.before = before]
    <3>1. PICK trespass \in BOOLEAN :
             trespass = (hist.trespass \/ (hist.holders \ {c} # {} /\ c \notin hist.before))
      OBVIOUS
    <3>2. hist' = [hist EXCEPT !.trespass = trespass, !.before = hist.before \ {c}]
      BY <1>0, <1>9, <3>1 DEF Send, History
    <3>3. QED BY <1>0, <3>2, HistoryIs
  <2>2. hist' \in History
    BY <1>0, <2>1 DEF History
  <2>3. QED BY <1>0, <1>9, <2>2 DEF DataTypes, Send
<1>10. CASE Return(c)
  <2>1. caller[c].level \in AllLevels \cup {"none"}
    BY Typed DEF Calls
  <2>2. PICK level \in AllLevels \cup {"none"} : hist' = [hist EXCEPT !.level = level]
    <3>1. hist' = [hist EXCEPT !.level = IF caller[c].job = "level" /\ caller[c].alone
                                         THEN caller[c].level ELSE hist.level]
      BY <1>0, <1>10 DEF Return, History
    <3>2. QED BY <1>0, <2>1, <3>1, HistoryIs
  <2>3. hist' \in History
    BY <1>0, <2>2 DEF History
  <2>4. QED BY <1>0, <1>10, <2>3 DEF DataTypes, Return
<1>11. QED
  BY <1>1, <1>2, <1>3, <1>4, <1>5, <1>6, <1>7, <1>8, <1>9, <1>10
     DEF Statement, LookActive, LookStatus, LookSource, ReadDefault, Resolve, LookChat,
         LookToSend

(* What a call that begins does.                                           *)
Begins(c, job, level, script) ==
    /\ caller[c].job = "none"
    /\ caller' \in [Callers -> Calls] /\ TodoInv'
    /\ caller'[c].todo = script /\ caller'[c].job = job /\ caller'[c].level = level
    /\ job \in {"level", "decide"} /\ caller'[c].alone => \A k \in Callers : ~Deciding(k)
    /\ \A k \in Callers \ {c} :
          /\ caller'[k].todo = caller[k].todo /\ caller'[k].job = caller[k].job
          /\ caller'[k].level = caller[k].level
          /\ caller'[k].alone = (caller[k].alone /\ job \notin {"level", "decide"})
    /\ hist' \in History
    /\ hist'.level = (IF job \in {"level", "decide"} THEN "none" ELSE hist.level)
    /\ hist'.stale = (hist.stale /\ job \notin {"level", "decide"})
    /\ hist'.boss = hist.boss /\ hist'.mode = hist.mode /\ hist'.off = hist.off
    /\ hist'.holders = hist.holders /\ hist'.before = hist.before
    /\ hist'.trespass = hist.trespass
    /\ UNCHANGED <<row, msgs, kv, router>>

LEMMA BeginIs ==
    ASSUME ChatsAssumption, ChatsTypes, NEW c \in Callers,
           NEW job \in Jobs \ {"none"}, NEW level \in AllLevels \cup {"none"},
           NEW script \in Seq(Starts(job)), Begin(c, job, level, script)
    PROVE  Begins(c, job, level, script)
<1> DEFINE decides == job \in {"level", "decide"}
           met == decides /\ \E k \in Callers : Deciding(k)
           new == [todo |-> script, job |-> job, level |-> level, alone |-> ~met]
<1>0. caller \in [Callers -> Calls] /\ hist \in History /\ script \in ListOf(job)
  BY Typed, StartList
<1>1. /\ caller[c].job = "none" /\ hist.calls < MaxCalls
      /\ caller' = [k \in Callers |->
            IF k = c THEN new ELSE [caller[k] EXCEPT !.alone = @ /\ ~decides]]
      /\ hist' = [hist EXCEPT !.calls = @ + 1,
                              !.level = IF decides THEN "none" ELSE @,
                              !.stale = @ /\ ~decides]
      /\ UNCHANGED <<row, msgs, kv, router>>
  BY DEF Begin
<1>2. script \in Seq(AllSteps) /\ new \in Calls
  <2>1. script \in Seq(AllSteps)
    BY <1>0 DEF ListOf
  <2>2. QED BY <2>1 DEF Calls
<1>3. caller'[c] = new
  BY <1>1
<1>4. ASSUME NEW k \in Callers \ {c}
      PROVE  /\ caller'[k] \in Calls
             /\ caller'[k].todo = caller[k].todo /\ caller'[k].job = caller[k].job
             /\ caller'[k].level = caller[k].level
             /\ caller'[k].alone = (caller[k].alone /\ ~decides)
  <2>1. caller[k] \in Calls
    BY <1>0
  <2>2. PICK alone \in BOOLEAN : alone = (caller[k].alone /\ ~decides)
    OBVIOUS
  <2>3. caller'[k] = [caller[k] EXCEPT !.alone = alone]
    BY <1>1, <2>1, <2>2 DEF Calls
  <2>4. QED BY <2>1, <2>2, <2>3 DEF Calls
<1>5. caller' \in [Callers -> Calls]
  BY <1>1, <1>2, <1>3, <1>4
<1>6. TodoInv'
  BY <1>0, <1>3, <1>4 DEF TodoInv, ChatsTypes
<1>7. decides /\ caller'[c].alone => \A k \in Callers : ~Deciding(k)
  <2>1. PICK alone \in BOOLEAN : alone = ~met
    OBVIOUS
  <2>2. caller'[c].alone = alone
    BY <1>3, <2>1
  <2>3. QED BY <2>1, <2>2
<1>8. /\ hist' \in History
      /\ hist'.level = (IF decides THEN "none" ELSE hist.level)
      /\ hist'.stale = (hist.stale /\ ~decides)
      /\ hist'.boss = hist.boss /\ hist'.mode = hist.mode /\ hist'.off = hist.off
      /\ hist'.holders = hist.holders /\ hist'.before = hist.before
      /\ hist'.trespass = hist.trespass
  <2>1. PICK stale \in BOOLEAN : stale = (hist.stale /\ ~decides)
    OBVIOUS
  <2>2. PICK lv \in AllLevels \cup {"none"} : lv = (IF decides THEN "none" ELSE hist.level)
    BY <1>0, HistoryIs
  <2>3. PICK calls \in 0..MaxCalls : calls = hist.calls + 1
    BY <1>0, <1>1, HistoryIs DEF ChatsAssumption
  <2>4. hist' = [hist EXCEPT !.calls = calls, !.level = lv, !.stale = stale]
    BY <1>0, <1>1, <2>1, <2>2, <2>3 DEF History
  <2>5. QED BY <1>0, <2>1, <2>2, <2>4 DEF History
<1>9. QED BY <1>1, <1>3, <1>4, <1>5, <1>6, <1>7, <1>8 DEF Begins

(* The calls there are.                                                    *)
LevelScript(job, level, script) ==
    job = "level" => level \in AllLevels /\ script = SetConfigLevel(level)

LEMMA CallIs ==
    ASSUME ChatsAssumption, ChatsTypes, NEW c \in Callers, Call(c)
    PROVE  \E job \in Jobs \ {"none"}, level \in AllLevels \cup {"none"} :
             \E script \in Seq(Starts(job)) :
                Begins(c, job, level, script) /\ LevelScript(job, level, script)
<1> DEFINE Goal == \E job \in Jobs \ {"none"}, level \in AllLevels \cup {"none"} :
                     \E script \in Seq(Starts(job)) :
                       Begins(c, job, level, script) /\ LevelScript(job, level, script)
<1>1. ASSUME NEW script \in Seq(LevelSteps), Begin(c, "decide", "none", script) PROVE Goal
  <2>1. script \in Seq(Starts("decide")) /\ "decide" \in Jobs \ {"none"}
    BY DEF Starts, Jobs
  <2>2. Begins(c, "decide", "none", script)
    BY <1>1, <2>1, BeginIs
  <2>3. LevelScript("decide", "none", script)
    BY DEF LevelScript
  <2>4. QED BY <2>1, <2>2, <2>3
<1>2. ASSUME NEW script \in Seq(OtherSteps), Begin(c, "other", "none", script) PROVE Goal
  <2>1. script \in Seq(Starts("other")) /\ "other" \in Jobs \ {"none"}
    BY DEF Starts, Jobs
  <2>2. Begins(c, "other", "none", script)
    BY <1>2, <2>1, BeginIs
  <2>3. LevelScript("other", "none", script)
    BY DEF LevelScript
  <2>4. QED BY <2>1, <2>2, <2>3
<1>0. SUFFICES Goal
  OBVIOUS
<1> HIDE DEF Goal
<1>3. CASE SetLevel(c)
  <2>1. PICK l \in AllLevels : Begin(c, "level", l, SetConfigLevel(l))
    BY <1>3 DEF SetLevel, ChatsAssumption
  <2>2. SetConfigLevel(l) \in Seq(Starts("level")) /\ "level" \in Jobs \ {"none"}
    BY ScriptFacts DEF Starts, Jobs
  <2>3. Begins(c, "level", l, SetConfigLevel(l))
    BY <2>1, <2>2, BeginIs
  <2>4. LevelScript("level", l, SetConfigLevel(l))
    BY DEF LevelScript
  <2>5. QED BY <2>2, <2>3, <2>4 DEF Goal
<1>4. \A x \in LevelSteps, y \in LevelSteps :
         <<x>> \in Seq(LevelSteps) /\ <<x>> \o <<y>> \in Seq(LevelSteps)
  BY One, Cat
<1>5. CASE SetActive(c)
  <2>1. {<<"lookActive", "chat">>, <<"active", "on">>, <<"active", "off">>} \subseteq LevelSteps
    BY DEF LevelSteps, Switch
  <2>2. Activate \in Seq(LevelSteps) /\ Do("active", "off") \in Seq(LevelSteps)
    BY <1>4, <2>1, DoIs DEF Activate
  <2>3. QED BY <1>1, <1>5, <2>2 DEF SetActive
<1>6. CASE SetOneField(c)
  <2>1. /\ \A m \in {"none", "discretion", "always"} : <<"conf", m>> \in LevelSteps
        /\ \A b \in Switch : <<"boss", b>> \in LevelSteps
    BY DEF LevelSteps
  <2>2. /\ \A m \in {"none", "discretion", "always"} : Do("conf", m) \in Seq(LevelSteps)
        /\ \A b \in Switch : Do("boss", b) \in Seq(LevelSteps)
    BY <1>4, <2>1, DoIs
  <2>3. QED BY <1>1, <1>6, <2>2 DEF SetOneField
<1>7. CASE SetStatus(c)
  <2>1. /\ \A s \in Statuses : <<"status", s>> \in LevelSteps
        /\ <<"manual", "chat">> \in LevelSteps
    BY DEF LevelSteps
  <2>2. \A s \in Statuses : /\ Do("status", s) \in Seq(LevelSteps)
                            /\ Do("status", s) \o Do("manual", "chat") \in Seq(LevelSteps)
    BY <1>4, <2>1, DoIs
  <2>3. {"exclusive", "new"} \subseteq Statuses
    BY DEF Statuses
  <2>4. QED BY <1>1, <1>7, <2>2, <2>3 DEF SetStatus
<1>8. /\ \A x \in OtherSteps : Do(x[1], x[2]) = <<<<x[1], x[2]>>>>
      /\ \A x \in OtherSteps : <<x>> \in Seq(OtherSteps)
      /\ \A s, t \in Seq(OtherSteps) : s \o t \in Seq(OtherSteps)
  BY DoIs, One, Cat
<1>9. Touch \in Seq(OtherSteps) /\ OriginDefault \in Seq(OtherSteps)
  BY <1>8, DoIs, Heads1 DEF Touch, OriginDefault
<1>10. CASE SetMode(c)
  <2>1. \A m \in Modes : <<"mode", m>> \in OtherSteps
    BY DEF OtherSteps
  <2>2. \A m \in Modes : Do("mode", m) \in Seq(OtherSteps)
    BY <1>8, <2>1, DoIs
  <2>3. QED BY <1>2, <1>10, <2>2 DEF SetMode
<1>11. CASE Inbound(c)
  <2>1. (\A m \in Messages : <<"arrive", m>> \in OtherSteps) /\ <<"resolve", "chat">> \in OtherSteps
    BY DEF OtherSteps
  <2>2. PICK m \in Messages : Begin(c, "other", "none", HandleInbound(m))
    BY <1>11 DEF Inbound
  <2>3. Do("arrive", m) \in Seq(OtherSteps) /\ Do("resolve", "chat") \in Seq(OtherSteps)
    BY <1>8, <2>1, DoIs
  <2>4. HandleInbound(m) \in Seq(OtherSteps)
    <3>1. Touch \o Do("arrive", m) \in Seq(OtherSteps)
      BY <1>9, <2>3, Cat
    <3>2. (Touch \o Do("arrive", m)) \o Touch \in Seq(OtherSteps)
      BY <1>9, <3>1, Cat
    <3>3. QED BY <2>3, <3>2, Cat DEF HandleInbound
  <2>5. QED BY <1>2, <2>2, <2>4
<1>12. CASE SyncContact(c)
  <2>1. \A b \in Switch : <<"name", b>> \in OtherSteps
    BY DEF OtherSteps
  <2>2. Do("name", "on") \in Seq(OtherSteps) /\ Do("name", "off") \in Seq(OtherSteps)
    BY <1>8, <2>1, DoIs DEF Switch
  <2>3. /\ Touch \o Do("name", "on") \o OriginDefault \in Seq(OtherSteps)
        /\ Do("name", "on") \o OriginDefault \in Seq(OtherSteps)
    BY <1>8, <1>9, <2>2
  <2>4. QED BY <1>2, <1>12, <2>2, <2>3 DEF SyncContact
<1>13. CASE Reconnect(c)
  <2>1. <<"owner", "chat">> \in OtherSteps
    BY DEF OtherSteps
  <2>2. Touch \o Do("owner", "chat") \in Seq(OtherSteps)
    BY <1>8, <1>9, <2>1, DoIs
  <2>3. QED BY <1>2, <1>13, <2>2 DEF Reconnect
<1>14. CASE Configure(c)
  <2>1. /\ \A o \in Origins, l \in Defaults : <<o, l>> \in OtherSteps
        /\ \A m \in Modes : <<"config", m>> \in OtherSteps /\ <<"file", m>> \in OtherSteps
    BY DEF OtherSteps
  <2>2. /\ \A o \in Origins, l \in Defaults : Do(o, l) \in Seq(OtherSteps)
        /\ \A m \in Modes : Do("config", m) \o Do("file", m) \in Seq(OtherSteps)
    BY <1>8, <2>1, DoIs
  <2>3. QED BY <1>2, <1>14, <2>2 DEF Configure
<1>15. CASE ClaimChat(c) \/ ReleaseChat(c) \/ SendMessage(c)
  <2>1. /\ <<"lookChat", "chat">> \in OtherSteps /\ <<"claim", "chat">> \in OtherSteps
        /\ <<"release", "chat">> \in OtherSteps /\ <<"gate", "chat">> \in OtherSteps
    BY DEF OtherSteps
  <2>2. /\ Do("lookChat", "chat") \o Do("claim", "chat") \in Seq(OtherSteps)
        /\ Do("release", "chat") \in Seq(OtherSteps) /\ Do("gate", "chat") \in Seq(OtherSteps)
    BY <1>8, <2>1, DoIs
  <2>3. QED BY <1>2, <1>15, <2>2 DEF ClaimChat, ReleaseChat, SendMessage
<1>16. QED
  BY <1>3, <1>5, <1>6, <1>7, <1>10, <1>11, <1>12, <1>13, <1>14, <1>15 DEF Call

LEMMA NextIs ==
    ASSUME [Next]_vars
    PROVE  \/ \E c \in Callers : Statement(c) /\ ~Return(c)
           \/ \E c \in Callers : Return(c)
           \/ \E c \in Callers : Call(c)
           \/ \E m \in Messages : Age(m)
           \/ \E m \in Messages : Answer(m)
           \/ Expire
           \/ Crash
           \/ UNCHANGED vars
BY DEF Next, Statement

(* A call is over, or the process is.                                      *)
LEMMA Dropping ==
    ASSUME ChatsTypes
    PROVE  /\ \A c \in Callers : caller' = [caller EXCEPT ![c] = NoCall] =>
                 caller' \in [Callers -> Calls] /\ TodoInv'
           /\ caller' = [c \in Callers |-> NoCall] =>
                 caller' \in [Callers -> Calls] /\ TodoInv'
<1>1. NoCall \in Calls /\ NoCall.todo \in ListOf(NoCall.job)
  BY DEF NoCall, Calls, ListOf, Jobs
<1>2. caller \in [Callers -> Calls] /\ TodoInv
  BY Typed
<1>3. QED BY <1>1, <1>2 DEF TodoInv

LEMMA ChatsTypesStep ==
    ASSUME ChatsAssumption, ChatsTypes, [Next]_vars
    PROVE  ChatsTypes'
<1>0. /\ row \in Row /\ kv \in [Origins -> Defaults] /\ hist \in History
      /\ msgs \in [Messages -> {"absent", "recent", "old", "closed"}]
      /\ router \in [cfg : Modes, file : Modes]
      /\ caller \in [Callers -> Calls] /\ TodoInv
  BY Typed
<1>1. ASSUME NEW c \in Callers, Statement(c), ~Return(c) PROVE ChatsTypes'
  <2>1. caller' \in [Callers -> Calls] /\ TodoInv'
    BY <1>1, StatementIs DEF Moved
  <2>2. QED BY <1>1, <2>1, StatementTypes DEF ChatsTypes, DataTypes
<1>2. ASSUME NEW c \in Callers, Return(c) PROVE ChatsTypes'
  <2>1. caller' \in [Callers -> Calls] /\ TodoInv'
    BY <1>2, Dropping DEF Return
  <2>2. Statement(c)
    BY <1>2 DEF Statement
  <2>3. QED BY <2>1, <2>2, StatementTypes DEF ChatsTypes, DataTypes
<1>3. ASSUME NEW c \in Callers, Call(c) PROVE ChatsTypes'
  <2>1. PICK job, level, script : Begins(c, job, level, script)
    BY <1>3, CallIs
  <2>2. QED BY <1>0, <2>1 DEF Begins, ChatsTypes
<1>4. ASSUME NEW m \in Messages, Age(m) PROVE ChatsTypes'
  <2>1. msgs' \in [Messages -> {"absent", "recent", "old", "closed"}]
    BY <1>0, <1>4 DEF Age
  <2>2. hist' \in History
    BY <1>0, <1>4 DEF Age, History
  <2>3. QED BY <1>0, <1>4, <2>1, <2>2 DEF Age, ChatsTypes, TodoInv
<1>5. ASSUME NEW m \in Messages, Answer(m) PROVE ChatsTypes'
  <2>1. msgs' \in [Messages -> {"absent", "recent", "old", "closed"}]
    BY <1>0, <1>5 DEF Answer
  <2>2. QED BY <1>0, <1>5, <2>1 DEF Answer, ChatsTypes, TodoInv
<1>6. CASE Expire
  <2>1. row' \in Row
    BY <1>0, <1>6, ClaimsAre DEF Expire
  <2>2. hist' \in History
    BY <1>0, <1>6 DEF Expire, History
  <2>3. QED BY <1>0, <1>6, <2>1, <2>2 DEF Expire, ChatsTypes, TodoInv
<1>7. CASE Crash
  <2>1. caller' \in [Callers -> Calls] /\ TodoInv'
    BY <1>7, Dropping DEF Crash
  <2>2. router' \in [cfg : Modes, file : Modes]
    BY <1>0, <1>7 DEF Crash
  <2>3. QED BY <1>0, <1>7, <2>1, <2>2 DEF Crash, ChatsTypes
<1>8. CASE UNCHANGED vars
  BY <1>0, <1>8 DEF vars, ChatsTypes, TodoInv
<1>9. QED BY <1>1, <1>2, <1>3, <1>4, <1>5, <1>6, <1>7, <1>8, NextIs

-----------------------------------------------------------------------------
(* What a step leaves alone                                                *)

(* The next statement after one statement.                                 *)
LEMMA NextOp ==
    ASSUME ChatsAssumption, ChatsTypes, NEW c \in Callers, Op(c) # "none",
           NEW rest, Moved(c, rest), Turns(c, rest)
    PROVE  /\ Op(c)' = "send" => Op(c) = "gate" /\ row.claim \in {Free, c}
           /\ Op(c)' = "sweep" => Op(c) = "lookActive" /\ ~row.active
           /\ \A k \in Callers \ {c} : Op(k)' = Op(k)
<1> DEFINE tail == Tail(caller[c].todo)
<1>1. caller'[c].todo = rest /\ \A k \in Callers \ {c} : caller'[k] = caller[k]
  BY DEF Moved
<1>2. \A k \in Callers \ {c} : Op(k)' = Op(k)
  BY <1>1 DEF Op, Next1
<1>3. Op(c)' = IF rest = <<>> THEN "none" ELSE Head(rest)[1]
  BY <1>1 DEF Op, Next1
<1>4. tail \in Seq(Starts(caller[c].job)) /\ caller[c].job \in Jobs
  BY Standing
<1>5. ASSUME NEW job \in Jobs, NEW h \in Starts(job) PROVE h[1] \notin {"send", "sweep"}
  BY <1>5 DEF Starts, OtherSteps, LevelSteps, Origins
<1>6. ASSUME NEW job \in Jobs, NEW t \in Seq(Starts(job)), t # <<>>
      PROVE  Head(t)[1] \notin {"send", "sweep"}
  BY <1>5, <1>6
<1>7. CASE rest = tail
  BY <1>2, <1>3, <1>4, <1>6, <1>7
<1>8. ASSUME NEW x, rest = <<x>> \o tail PROVE Op(c)' = x[1]
  <2>1. rest # <<>> /\ Head(rest) = x
    BY <1>4, <1>8
  <2>2. QED BY <1>3, <2>1
<1>9. CASE rest \in Seq(OtherSteps)
  <2>1. rest \in Seq(Starts("other")) /\ "other" \in Jobs
    BY <1>9 DEF Starts, Jobs
  <2>2. QED BY <1>2, <1>3, <1>6, <2>1
<1>10. CASE rest = <<<<"sweep", "chat">>>> \o tail /\ Op(c) = "lookActive" /\ ~row.active
  <2>1. Op(c)' = <<"sweep", "chat">>[1]
    BY <1>8, <1>10
  <2>2. QED BY <1>2, <1>10, <2>1
<1>11. CASE rest = <<<<"status", "whitelist">>>> \o tail
  <2>1. Op(c)' = <<"status", "whitelist">>[1]
    BY <1>8, <1>11
  <2>2. QED BY <1>2, <2>1
<1>12. CASE rest = <<<<"status", "new">>>> \o tail
  <2>1. Op(c)' = <<"status", "new">>[1]
    BY <1>8, <1>12
  <2>2. QED BY <1>2, <2>1
<1>13. CASE rest = <<<<"send", "chat">>>> \o tail /\ Op(c) = "gate" /\ row.claim \in {Free, c}
  <2>1. Op(c)' = <<"send", "chat">>[1]
    BY <1>8, <1>13
  <2>2. QED BY <1>2, <1>13, <2>1
<1>14. CASE \E x \in Heads("other") :
               rest = <<x>> \o tail /\ x[1] \in {"readDefault", "apply", "sync"}
  BY <1>2, <1>8, <1>14
<1>15. QED BY <1>7, <1>9, <1>10, <1>11, <1>12, <1>13, <1>14 DEF Turns

(* A call that begins does not begin by sending or sweeping.               *)
LEMMA FirstOp ==
    ASSUME ChatsAssumption, NEW c \in Callers, NEW job \in Jobs \ {"none"}, NEW level,
           NEW script \in Seq(Starts(job)), Begins(c, job, level, script)
    PROVE  /\ Op(c)' \notin {"send", "sweep"}
           /\ \A k \in Callers \ {c} : Op(k)' = Op(k)
<1>1. caller'[c].todo = script /\ \A k \in Callers \ {c} : caller'[k].todo = caller[k].todo
  BY DEF Begins
<1>2. Op(c)' = IF script = <<>> THEN "none" ELSE Head(script)[1]
  BY <1>1 DEF Op, Next1
<1>3. ASSUME NEW h \in Starts(job) PROVE h[1] \notin {"send", "sweep"}
  BY <1>3 DEF Starts, OtherSteps, LevelSteps, Origins
<1>4. \A k \in Callers \ {c} : Op(k)' = Op(k)
  BY <1>1 DEF Op, Next1
<1>5. QED BY <1>2, <1>3, <1>4

(* The row outside writes: at most the claim on it changes.                *)
SameRow(r, s) ==
    /\ s.exists = r.exists /\ s.active = r.active /\ SameMode(r, s)
    /\ r.exists => SameLevel(r, s)

LEMMA RowStands ==
    ASSUME ChatsAssumption, ChatsTypes, [Next]_vars, \A c \in Callers : ~Write(c)
    PROVE  SameRow(row, row') /\ hist'.boss = hist.boss /\ hist'.mode = hist.mode
<1>0. row \in Row /\ hist \in History
  BY Typed
<1>1. SameRow(row, row)
  BY DEF SameRow, SameLevel, SameMode
<1>2. ASSUME NEW x \in Callers \cup {Free}, row' = [row EXCEPT !.claim = x]
      PROVE  SameRow(row, row')
  BY <1>0, <1>2, ClaimsAre DEF SameRow
<1>3. CASE UNCHANGED <<row, hist>>
  BY <1>1, <1>3
<1>4. ASSUME NEW c \in Callers, Statement(c), ~UNCHANGED <<row, hist>>
      PROVE  SameRow(row, row') /\ hist'.boss = hist.boss /\ hist'.mode = hist.mode
  <2>1. CASE Claim(c)
    <3>1. MayClaim(c)
      BY <1>4, <2>1 DEF Claim
    <3>2. SameRow(row, row')
      BY <1>2, <2>1, <3>1 DEF Claim
    <3>3. hist'.boss = hist.boss /\ hist'.mode = hist.mode
      BY <1>0, <2>1, <3>1 DEF Claim, History
    <3>4. QED BY <3>2, <3>3
  <2>2. CASE Release(c)
    <3>1. row.claim = c
      BY <1>4, <2>2 DEF Release
    <3>2. SameRow(row, row')
      BY <1>2, <2>2, <3>1 DEF Release
    <3>3. hist'.boss = hist.boss /\ hist'.mode = hist.mode
      BY <1>0, <2>2, <3>1 DEF Release, History
    <3>4. QED BY <3>2, <3>3
  <2>3. CASE Send(c)
    BY <1>0, <1>1, <2>3 DEF Send, History
  <2>4. CASE Return(c)
    BY <1>0, <1>1, <2>4 DEF Return, History
  <2>5. QED
    BY <1>4, <2>1, <2>2, <2>3, <2>4
       DEF Statement, LookActive, Sweep, LookStatus, LookSource, ReadDefault, Insert, Resolve,
           UpdateRouter, SetDefault, LookChat, LookToSend
<1>5. ASSUME NEW c \in Callers, Call(c)
      PROVE  SameRow(row, row') /\ hist'.boss = hist.boss /\ hist'.mode = hist.mode
  <2>1. PICK job, level, script : Begins(c, job, level, script)
    BY <1>5, CallIs
  <2>2. QED BY <1>1, <2>1 DEF Begins
<1>6. ASSUME NEW m \in Messages, Age(m)
      PROVE  SameRow(row, row') /\ hist'.boss = hist.boss /\ hist'.mode = hist.mode
  BY <1>0, <1>1, <1>6 DEF Age, History
<1>7. ASSUME NEW m \in Messages, Answer(m)
      PROVE  SameRow(row, row') /\ hist'.boss = hist.boss /\ hist'.mode = hist.mode
  BY <1>1, <1>7 DEF Answer
<1>8. CASE Expire
  <2>1. hist'.boss = hist.boss /\ hist'.mode = hist.mode
    BY <1>0, <1>8 DEF Expire, History
  <2>2. QED BY <1>2, <1>8, <2>1 DEF Expire
<1>9. CASE Crash \/ UNCHANGED vars
  BY <1>1, <1>9 DEF Crash, vars
<1>10. QED BY <1>3, <1>4, <1>5, <1>6, <1>7, <1>8, <1>9, NextIs DEF Statement

-----------------------------------------------------------------------------
(* What was decided by hand                                                *)

LEMMA MarkedStep ==
    ASSUME ChatsAssumption, ChatsTypes, MarkedInv, DecisionsKept, [Next]_vars
    PROVE  MarkedInv' /\ DecisionsKept'
<1>0. row \in Row /\ hist \in History
  BY Typed
<1>1. CASE \A c \in Callers : ~Write(c)
  <2>1. SameRow(row, row') /\ hist'.boss = hist.boss /\ hist'.mode = hist.mode
    BY <1>1, RowStands
  <2>2. QED BY <2>1 DEF MarkedInv, DecisionsKept, SameRow, SameMode, SameLevel
<1>2. ASSUME NEW c \in Callers, Write(c) PROVE MarkedInv' /\ DecisionsKept'
  <2>1. /\ row' = After(row, Op(c), Arg(c)) /\ Op(c) \in Writes
        /\ Op(c) \in {"boss", "active", "name"} => Arg(c) \in Switch
        /\ Op(c) = "conf" => Arg(c) \in {"none", "discretion", "always"}
        /\ Op(c) = "status" => Arg(c) \in Statuses
        /\ Op(c) \in {"mode", "sync"} => Arg(c) \in Modes
        /\ Op(c) = "apply" => Arg(c) \in Defaults
    BY <1>2, WriteIs
  <2>2. /\ hist'.boss = (IF Op(c) = "boss" THEN Arg(c) ELSE hist.boss)
        /\ hist'.mode = (IF Op(c) = "mode" THEN Arg(c) ELSE hist.mode)
    BY <1>2, WriteRecords
  <2>3. CASE Op(c) = "boss"
    <3>1. /\ row'.exists /\ row'.touched /\ row'.boss = (Arg(c) = "on")
          /\ row.exists => SameMode(row, row')
      BY <1>0, <2>1, <2>3, DecidingWrites
    <3>2. hist'.boss = Arg(c) /\ hist'.mode = hist.mode
      BY <2>2, <2>3
    <3>3. QED BY <3>1, <3>2 DEF MarkedInv, DecisionsKept, SameMode
  <2>4. CASE Op(c) \in {"active", "conf", "status", "manual"}
    <3>1. /\ row'.exists
          /\ row.exists => /\ SameMode(row, row') /\ row'.boss = row.boss
                           /\ row'.touched = row.touched
      <4>1. CASE Op(c) = "active"
        <5>1. PICK a : a = Arg(c)
          OBVIOUS
        <5>2. row' = After(row, "active", a) /\ a \in Switch
          BY <2>1, <4>1, <5>1
        <5>3. \A b \in Switch : LET s == After(row, "active", b) IN
                 /\ s.exists
                 /\ row.exists => SameMode(row, s) /\ s.boss = row.boss
                                   /\ s.touched = row.touched
          BY <1>0, DecidingWrites
        <5>4. QED BY <5>2, <5>3
      <4>2. CASE Op(c) = "conf"
        BY <1>0, <2>1, <4>2, DecidingWrites
      <4>3. CASE Op(c) = "status"
        BY <1>0, <2>1, <4>3, DecidingWrites
      <4>4. CASE Op(c) = "manual"
        <5>1. PICK a : a = Arg(c)
          OBVIOUS
        <5>2. row' = After(row, "manual", a)
          BY <2>1, <4>4, <5>1
        <5>3. QED BY <1>0, <5>2, DecidingWrites
      <4>5. QED BY <2>4, <4>1, <4>2, <4>3, <4>4
    <3>2. hist'.boss = hist.boss /\ hist'.mode = hist.mode
      BY <2>2, <2>4
    <3>3. QED BY <3>1, <3>2 DEF MarkedInv, DecisionsKept, SameMode
  <2>5. CASE Op(c) \in {"touch", "name", "owner"}
    BY <1>0, <2>1, <2>2, <2>5, OtherWrites DEF MarkedInv, DecisionsKept, SameMode, SameLevel
  <2>6. CASE Op(c) = "mode"
    BY <1>0, <2>1, <2>2, <2>6, OtherWrites DEF MarkedInv, DecisionsKept, SameLevel
  <2>7. CASE Op(c) \in {"sync", "apply"}
    BY <1>0, <2>1, <2>2, <2>7, OtherWrites DEF MarkedInv, DecisionsKept, SameMode, SameLevel
  <2>8. QED BY <2>1, <2>3, <2>4, <2>5, <2>6, <2>7 DEF Writes
<1>3. QED BY <1>1, <1>2

-----------------------------------------------------------------------------
(* Claims                                                                  *)

LEMMA ClaimStep ==
    ASSUME ChatsAssumption, ChatsTypes, ClaimHonoured, SendInv, [Next]_vars
    PROVE  ClaimHonoured' /\ SendInv'
<1>0. row \in Row /\ hist \in History /\ caller \in [Callers -> Calls]
  BY Typed
<1> DEFINE Same == /\ row'.claim = row.claim /\ hist'.holders = hist.holders
                   /\ hist'.before = hist.before /\ hist'.trespass = hist.trespass
<1>1. ASSUME Same, \A k \in Callers : Op(k)' = "send" =>
                      Op(k) = "send" \/ row.claim \in {Free, k}
      PROVE  ClaimHonoured' /\ SendInv'
  BY <1>1 DEF ClaimHonoured, SendInv
<1>2. ASSUME NEW c \in Callers, Statement(c), ~Return(c) PROVE ClaimHonoured' /\ SendInv'
  <2>1. /\ Op(c) # "none"
        /\ Op(c)' = "send" => Op(c) = "gate" /\ row.claim \in {Free, c}
        /\ \A k \in Callers \ {c} : Op(k)' = Op(k)
    BY <1>2, StatementIs, NextOp
  <2>2. ASSUME Same PROVE ClaimHonoured' /\ SendInv'
    BY <1>1, <2>1, <2>2
  <2>3. CASE Write(c)
    BY <2>2, <2>3, WriteIs, WriteRecords
  <2>4. CASE UNCHANGED <<row, hist>>
    BY <2>2, <2>4
  <2>5. CASE Claim(c) /\ MayClaim(c)
    <3>1. row' = [row EXCEPT !.claim = c] /\ row.claim \in {Free, c} /\ Op(c) = "claim"
      BY <2>5 DEF Claim, MayClaim
    <3>2. row'.claim = c
      BY <1>0, <3>1, ClaimsAre
    <3>3. PICK before : before = {k \in Callers : Op(k) = "send"}
      OBVIOUS
    <3>4. hist' = [hist EXCEPT !.holders = hist.holders \cup {c}, !.before = before]
      BY <1>0, <2>5, <3>3 DEF Claim, History
    <3>5. /\ hist'.holders = hist.holders \cup {c} /\ hist'.before = before
          /\ hist'.trespass = hist.trespass
      BY <1>0, <3>4 DEF History
    <3>6. ClaimHonoured'
      BY <3>1, <3>2, <3>5 DEF ClaimHonoured, ChatsAssumption
    <3>7. Op(c)' # "send"
      BY <2>1, <3>1
    <3>8. SendInv'
      BY <2>1, <3>3, <3>5, <3>7 DEF SendInv
    <3>9. QED BY <3>6, <3>8
  <2>6. CASE Release(c) /\ row.claim = c
    <3>1. row'.claim = Free
      <4>1. row' = [row EXCEPT !.claim = Free]
        BY <2>6 DEF Release
      <4>2. QED BY <1>0, <4>1, ClaimsAre
    <3>2. /\ hist'.holders = hist.holders \ {c} /\ hist'.before = hist.before
          /\ hist'.trespass = hist.trespass
      BY <1>0, <2>6 DEF Release, History
    <3>3. ClaimHonoured'
      BY <2>6, <3>1, <3>2 DEF ClaimHonoured
    <3>4. QED BY <3>1, <3>3 DEF SendInv
  <2>7. CASE Send(c)
    <3>1. Op(c) = "send" /\ row' = row
      BY <2>7 DEF Send
    <3>2. PICK trespass \in BOOLEAN :
             trespass = (hist.trespass \/ (hist.holders \ {c} # {} /\ c \notin hist.before))
      OBVIOUS
    <3>3. hist' = [hist EXCEPT !.trespass = trespass, !.before = hist.before \ {c}]
      BY <1>0, <2>7, <3>2 DEF Send, History
    <3>4. /\ hist'.trespass = trespass /\ hist'.before = hist.before \ {c}
          /\ hist'.holders = hist.holders
      BY <1>0, <3>3 DEF History
    <3>5. row.claim \in {Free, c} \/ c \in hist.before
      BY <3>1 DEF SendInv
    <3>6. ClaimHonoured'
      BY <3>1, <3>2, <3>4, <3>5 DEF ClaimHonoured
    <3>7. Op(c)' # "send"
      BY <2>1, <3>1
    <3>8. SendInv'
      BY <2>1, <3>1, <3>4, <3>7 DEF SendInv
    <3>9. QED BY <3>6, <3>8
  <2>8. QED
    BY <1>2, <2>3, <2>4, <2>5, <2>6, <2>7
       DEF Statement, LookActive, Sweep, LookStatus, LookSource, ReadDefault, Insert, Resolve,
           UpdateRouter, SetDefault, LookChat, LookToSend, Claim, Release
<1>3. ASSUME NEW c \in Callers, Return(c) PROVE ClaimHonoured' /\ SendInv'
  <2>1. Same
    BY <1>0, <1>3 DEF Return, History
  <2>2. caller' = [caller EXCEPT ![c] = NoCall]
    BY <1>3 DEF Return
  <2>3. \A k \in Callers : Op(k)' = (IF k = c THEN "none" ELSE Op(k))
    BY <1>0, <2>2 DEF Op, Next1, NoCall
  <2>4. QED BY <1>1, <2>1, <2>3
<1>4. ASSUME NEW c \in Callers, Call(c) PROVE ClaimHonoured' /\ SendInv'
  <2>1. PICK job \in Jobs \ {"none"}, level \in AllLevels \cup {"none"} :
           \E script \in Seq(Starts(job)) : Begins(c, job, level, script)
    BY <1>4, CallIs
  <2>2. PICK script \in Seq(Starts(job)) : Begins(c, job, level, script)
    BY <2>1
  <2>3. Same
    BY <2>2 DEF Begins
  <2>4. Op(c)' \notin {"send", "sweep"} /\ \A k \in Callers \ {c} : Op(k)' = Op(k)
    BY <2>2, FirstOp
  <2>5. QED BY <1>1, <2>3, <2>4
<1>5. ASSUME NEW m \in Messages, Age(m) PROVE ClaimHonoured' /\ SendInv'
  <2>1. Same /\ caller' = caller
    BY <1>0, <1>5 DEF Age, History
  <2>2. QED BY <1>1, <2>1 DEF Op, Next1
<1>6. ASSUME NEW m \in Messages, Answer(m) PROVE ClaimHonoured' /\ SendInv'
  BY <1>1, <1>6 DEF Answer, Op, Next1
<1>7. CASE Expire
  <2>1. row'.claim = Free
    BY <1>0, <1>7, ClaimsAre DEF Expire
  <2>2. hist'.holders = hist.holders \ {row.claim} /\ hist'.trespass = hist.trespass
    BY <1>0, <1>7 DEF Expire, History
  <2>3. QED BY <2>1, <2>2 DEF ClaimHonoured, SendInv
<1>8. CASE Crash
  <2>1. Same /\ caller' = [c \in Callers |-> NoCall]
    BY <1>8 DEF Crash
  <2>2. \A k \in Callers : Op(k)' = "none"
    BY <2>1 DEF Op, NoCall
  <2>3. QED BY <1>1, <2>1, <2>2
<1>9. CASE UNCHANGED vars
  BY <1>1, <1>9 DEF vars, Op, Next1
<1>10. QED BY <1>2, <1>3, <1>4, <1>5, <1>6, <1>7, <1>8, <1>9, NextIs

-----------------------------------------------------------------------------
(* Switching a chat on                                                     *)

LEMMA SweepStep ==
    ASSUME ChatsAssumption, ChatsTypes, SweepInv, [Next]_vars
    PROVE  SweepInv'
<1>0. /\ row \in Row /\ hist \in History /\ caller \in [Callers -> Calls]
      /\ msgs \in [Messages -> {"absent", "recent", "old", "closed"}]
  BY Typed
<1>1. ASSUME row'.active = row.active, hist.off \subseteq hist'.off, Old' \subseteq Old,
             \A k \in Callers : Op(k)' = "sweep" => Op(k) = "sweep" \/ ~row.active
      PROVE  SweepInv'
  BY <1>1 DEF SweepInv
<1>2. ASSUME NEW c \in Callers, Statement(c), ~Return(c) PROVE SweepInv'
  <2>1. /\ Op(c) # "none"
        /\ Op(c)' = "sweep" => Op(c) = "lookActive" /\ ~row.active
        /\ \A k \in Callers \ {c} : Op(k)' = Op(k)
    BY <1>2, StatementIs, NextOp
  <2>2. ASSUME row'.active = row.active, hist'.off = hist.off, Old' \subseteq Old
        PROVE  SweepInv'
    BY <1>1, <2>1, <2>2
  <2>3. CASE Write(c)
    <3>1. /\ hist'.off = (IF row'.active THEN hist.off ELSE hist.off \cup Old)
          /\ Op(c) \in Writes /\ msgs' = msgs
      BY <2>3, WriteIs, WriteRecords DEF Write
    <3>2. Old' = Old
      BY <3>1 DEF Old
    <3>3. Op(c)' # "sweep"
      BY <2>1, <3>1 DEF Writes
    <3>4. QED BY <2>1, <3>1, <3>2, <3>3 DEF SweepInv
  <2>4. CASE UNCHANGED <<row, msgs, hist>>
    BY <2>2, <2>4 DEF Old
  <2>5. CASE Sweep(c)
    <3>1. row' = row /\ hist' = hist
          /\ msgs' = [m \in Messages |-> IF m \in Old THEN "closed" ELSE msgs[m]]
      BY <2>5 DEF Sweep
    <3>2. Old' \subseteq Old
      BY <3>1 DEF Old
    <3>3. QED BY <2>2, <3>1, <3>2
  <2>6. CASE Insert(c)
    <3>1. row' = row /\ hist' = hist
          /\ msgs' = [msgs EXCEPT ![Arg(c)] = IF @ = "absent" THEN "recent" ELSE @]
      BY <2>6 DEF Insert
    <3>2. Old' \subseteq Old
      BY <1>0, <3>1 DEF Old
    <3>3. QED BY <2>2, <3>1, <3>2
  <2>7. CASE Claim(c) /\ MayClaim(c)
    <3>1. PICK before : before = {k \in Callers : Op(k) = "send"}
      OBVIOUS
    <3>2. hist' = [hist EXCEPT !.holders = hist.holders \cup {c}, !.before = before]
      BY <1>0, <2>7, <3>1 DEF Claim, History
    <3>3. hist'.off = hist.off
      BY <1>0, <3>2 DEF History
    <3>4. row'.active = row.active
      <4>1. row' = [row EXCEPT !.claim = c]
        BY <2>7 DEF Claim
      <4>2. QED BY <1>0, <4>1, ClaimsAre
    <3>5. QED BY <2>2, <2>7, <3>3, <3>4 DEF Claim, Old
  <2>8. CASE Release(c) /\ row.claim = c
    <3>1. hist'.off = hist.off
      BY <1>0, <2>8 DEF Release, History
    <3>2. row'.active = row.active
      <4>1. row' = [row EXCEPT !.claim = Free]
        BY <2>8 DEF Release
      <4>2. QED BY <1>0, <4>1, ClaimsAre
    <3>3. QED BY <2>2, <2>8, <3>1, <3>2 DEF Release, Old
  <2>9. CASE Send(c)
    <3>1. hist'.off = hist.off
      BY <1>0, <2>9 DEF Send, History
    <3>2. QED BY <2>2, <2>9, <3>1 DEF Send, Old
  <2>10. QED
    BY <1>2, <2>3, <2>4, <2>5, <2>6, <2>7, <2>8, <2>9
       DEF Statement, LookActive, LookStatus, LookSource, ReadDefault, Resolve,
           UpdateRouter, SetDefault, LookChat, LookToSend, Claim, Release
<1>3. ASSUME NEW c \in Callers, Return(c) PROVE SweepInv'
  <2>1. row' = row /\ msgs' = msgs /\ hist'.off = hist.off
    BY <1>0, <1>3 DEF Return, History
  <2>2. caller' = [caller EXCEPT ![c] = NoCall]
    BY <1>3 DEF Return
  <2>3. \A k \in Callers : Op(k)' = (IF k = c THEN "none" ELSE Op(k))
    BY <1>0, <2>2 DEF Op, Next1, NoCall
  <2>4. QED BY <1>1, <2>1, <2>3 DEF Old
<1>4. ASSUME NEW c \in Callers, Call(c) PROVE SweepInv'
  <2>1. PICK job \in Jobs \ {"none"}, level \in AllLevels \cup {"none"} :
           \E script \in Seq(Starts(job)) : Begins(c, job, level, script)
    BY <1>4, CallIs
  <2>2. PICK script \in Seq(Starts(job)) : Begins(c, job, level, script)
    BY <2>1
  <2>3. row' = row /\ msgs' = msgs /\ hist'.off = hist.off
    BY <2>2 DEF Begins
  <2>4. Op(c)' \notin {"send", "sweep"} /\ \A k \in Callers \ {c} : Op(k)' = Op(k)
    BY <2>2, FirstOp
  <2>5. QED BY <1>1, <2>3, <2>4 DEF Old
<1>5. ASSUME NEW m \in Messages, Age(m) PROVE SweepInv'
  <2>1. /\ row' = row /\ caller' = caller /\ Old' \subseteq Old \cup {m}
        /\ \A c \in Callers : caller[c].job = "none"
    BY <1>0, <1>5 DEF Age, Old
  <2>2. hist'.off = (IF row.active THEN hist.off ELSE hist.off \cup {m})
    BY <1>0, <1>5 DEF Age, History
  <2>3. \A c \in Callers : Op(c) = "none" /\ Op(c)' = "none"
    BY <2>1, Typed DEF TodoInv, ListOf, Op
  <2>4. QED BY <2>1, <2>2, <2>3 DEF SweepInv
<1>6. ASSUME NEW m \in Messages, Answer(m) PROVE SweepInv'
  <2>1. Old' \subseteq Old
    BY <1>0, <1>6 DEF Answer, Old
  <2>2. QED BY <1>1, <1>6, <2>1 DEF Answer, Op, Next1
<1>7. CASE Expire
  <2>1. row'.active = row.active
    BY <1>0, <1>7, ClaimsAre DEF Expire
  <2>2. hist'.off = hist.off
    BY <1>0, <1>7 DEF Expire, History
  <2>3. QED BY <1>1, <1>7, <2>1, <2>2 DEF Expire, Old, Op, Next1
<1>8. CASE Crash
  <2>1. /\ row' = row /\ msgs' = msgs /\ hist' = hist
        /\ caller' = [c \in Callers |-> NoCall]
    BY <1>8 DEF Crash
  <2>2. \A k \in Callers : Op(k)' = "none"
    BY <2>1 DEF Op, NoCall
  <2>3. QED BY <1>1, <2>1, <2>2 DEF Old
<1>9. CASE UNCHANGED vars
  BY <1>1, <1>9 DEF vars, Op, Next1, Old
<1>10. QED BY <1>2, <1>3, <1>4, <1>5, <1>6, <1>7, <1>8, <1>9, NextIs

-----------------------------------------------------------------------------
(* Deciding                                                                *)

LEMMA AloneStep ==
    ASSUME ChatsAssumption, ChatsTypes, AloneInv, [Next]_vars
    PROVE  AloneInv'
<1>0. caller \in [Callers -> Calls]
  BY Typed
<1>1. ASSUME \A k \in Callers : \/ ~Deciding(k)'
                                \/ Deciding(k) /\ (caller'[k].alone => caller[k].alone)
      PROVE  AloneInv'
  BY <1>1 DEF AloneInv
<1>2. ASSUME NEW c \in Callers, Statement(c), ~Return(c) PROVE AloneInv'
  <2>1. PICK rest : Moved(c, rest)
    BY <1>2, StatementIs
  <2>2. \A k \in Callers : caller'[k].job = caller[k].job /\ caller'[k].alone = caller[k].alone
    BY <2>1 DEF Moved
  <2>3. QED BY <1>1, <2>2 DEF Deciding
<1>3. ASSUME NEW c \in Callers, Return(c) PROVE AloneInv'
  <2>1. \A k \in Callers : caller'[k] = (IF k = c THEN NoCall ELSE caller[k])
    BY <1>0, <1>3 DEF Return
  <2>2. QED BY <1>1, <2>1 DEF Deciding, NoCall
<1>4. ASSUME NEW c \in Callers, Call(c) PROVE AloneInv'
  <2>1. PICK job, level, script : Begins(c, job, level, script)
    BY <1>4, CallIs
  <2>2. /\ caller[c].job = "none" /\ caller'[c].job = job
        /\ job \in {"level", "decide"} /\ caller'[c].alone => \A k \in Callers : ~Deciding(k)
        /\ \A k \in Callers \ {c} :
              /\ caller'[k].job = caller[k].job
              /\ caller'[k].alone = (caller[k].alone /\ job \notin {"level", "decide"})
    BY <2>1 DEF Begins
  <2>3. CASE job \notin {"level", "decide"}
    BY <1>1, <2>2, <2>3 DEF Deciding
  <2>4. CASE job \in {"level", "decide"}
    <3>1. \A k \in Callers \ {c} : ~caller'[k].alone /\ Deciding(k)' = Deciding(k)
      BY <2>2, <2>4 DEF Deciding
    <3>2. caller'[c].alone => \A k \in Callers \ {c} : ~Deciding(k)'
      BY <2>2, <2>4, <3>1
    <3>3. QED BY <3>1, <3>2 DEF AloneInv
  <2>5. QED BY <2>3, <2>4
<1>5. CASE Crash
  BY <1>1, <1>5 DEF Crash, Deciding, NoCall
<1>6. CASE UNCHANGED caller
  BY <1>1, <1>6 DEF Deciding
<1>7. QED BY <1>2, <1>3, <1>4, <1>5, <1>6, NextIs DEF Age, Answer, Expire, vars

(* What a level has written stays under what does not decide.              *)
LEMMA LevelStands ==
    ASSUME NEW r \in Row, NEW s \in Row, NEW l, NEW left, Written(r, l, left), SameLevel(r, s)
    PROVE  Written(s, l, left)
BY DEF Written, SameLevel

LEMMA WrittenStays ==
    ASSUME ChatsAssumption, ChatsTypes, NEW c \in Callers, Write(c), caller[c].job = "other",
           ~(Op(c) = "apply" /\ row.manual),
           NEW l \in AllLevels, NEW left, Written(row, l, left)
    PROVE  Written(row', l, left)
<1>0. row \in Row /\ row.exists
  BY Typed DEF Written
<1>1. /\ row' = After(row, Op(c), Arg(c)) /\ Op(c) \in Writes /\ row' \in Row
      /\ Op(c) \in {"boss", "active", "name"} => Arg(c) \in Switch
      /\ Op(c) \in {"mode", "sync"} => Arg(c) \in Modes
      /\ Op(c) = "apply" => Arg(c) \in Defaults
  BY WriteIs
<1>2. Op(c) \notin {"boss", "active", "conf", "status", "manual"}
  <2>1. caller[c].job = "other" /\ Op(c) # "none"
    BY <1>1 DEF Writes
  <2>2. PICK h \in Heads(caller[c].job) : h = <<Op(c), Arg(c)>>
    BY <2>1, Standing
  <2>3. h[1] = Op(c) /\ caller[c].job \in Jobs
    BY <2>1, <2>2 DEF Jobs
  <2>4. QED BY <2>1, <2>3, HeadIs DEF DecidingOps
<1>3. CASE Op(c) \in {"touch", "name", "mode", "sync"}
  <2>1. PICK a : a = Arg(c)
    OBVIOUS
  <2>2. SameLevel(row, row')
    BY <1>0, <1>1, <1>3, OtherWrites
  <2>3. QED BY <1>0, <1>1, <2>2, LevelStands
<1>4. CASE Op(c) = "owner"
  <2>1. /\ row.touched => SameLevel(row, row')
        /\ row'.exists /\ row'.active = row.active /\ row'.conf = row.conf
        /\ row'.status = row.status /\ row'.manual = row.manual
    BY <1>0, <1>1, <1>4, OtherWrites
  <2>2. CASE row.touched
    BY <1>0, <1>1, <2>1, <2>2, LevelStands
  <2>3. CASE ~row.touched
    BY <2>1, <2>3 DEF Written, AllLevels
  <2>4. QED BY <2>2, <2>3
<1>5. CASE Op(c) = "apply"
  <2>1. ~row.manual
    BY <1>5
  <2>2. l = "ignored"
    BY <2>1 DEF Written
  <2>3. PICK a \in Defaults : row' = After(row, "apply", a)
    BY <1>1, <1>5
  <2>4. /\ row'.exists /\ row'.boss = row.boss /\ row'.touched = row.touched
        /\ row'.manual = row.manual /\ (row.status = "ignored" => row'.status = "ignored")
    BY <1>0, <2>3, OtherWrites
  <2>5. QED BY <2>2, <2>4 DEF Written
<1>6. QED BY <1>1, <1>2, <1>3, <1>4, <1>5 DEF Writes

(* What a level has written as it goes on.                                 *)
LEMMA OwnWrite ==
    ASSUME NEW r \in Row, NEW s \in Row, NEW l \in AllLevels, NEW left, NEW left2,
           NEW h \in ScriptSteps(l) \ {First(l)}, Written(r, l, left),
           left \subseteq left2 \cup {h}, s = After(r, h[1], h[2]),
           h[1] \in {"boss", "active", "conf", "status"}
    PROVE  Written(s, l, left2)
<1>1. r.exists
  BY DEF Written
<1>2. CASE l = "boss"
  <2>1. h \in {<<"active", "on">>, <<"conf", "none">>, <<"status", "whitelist">>}
    BY <1>2 DEF ScriptSteps, First
  <2>2. s.exists /\ s.boss = r.boss /\ s.touched = r.touched /\ (r.manual => s.manual)
    <3>1. CASE h = <<"active", "on">>
      BY <1>1, <3>1, DecidingWrites DEF Switch
    <3>2. CASE h = <<"conf", "none">>
      BY <1>1, <3>2, DecidingWrites
    <3>3. CASE h = <<"status", "whitelist">>
      BY <1>1, <3>3, DecidingWrites DEF Statuses
    <3>4. QED BY <2>1, <3>1, <3>2, <3>3
  <2>3. QED BY <1>2, <2>2 DEF Written
<1>3. CASE l \in {"auto", "confirm"}
  <2>1. h \in {<<"active", "on">>, <<"conf", ConfOf(l)>>, <<"status", "whitelist">>}
    BY <1>3 DEF ScriptSteps, First
  <2>2. ConfOf(l) \in {"none", "discretion", "always"}
    BY DEF ConfOf
  <2>3. CASE h = <<"active", "on">>
    <3>1. /\ s.exists /\ s.boss = r.boss /\ s.touched = r.touched /\ s.manual
          /\ s.active /\ s.conf = r.conf /\ s.status = r.status
      <4>1. s = After(r, "active", "on") /\ Put(r) = r
        BY <1>1, <2>3, PutIs
      <4>2. s = [r EXCEPT !.active = TRUE, !.manual = TRUE]
        BY <4>1 DEF After
      <4>3. QED BY <1>1, <4>2 DEF Row
    <3>2. QED BY <1>3, <2>3, <3>1 DEF Written
  <2>4. CASE h = <<"conf", ConfOf(l)>>
    <3>1. /\ s.exists /\ s.boss = r.boss /\ s.touched = r.touched /\ s.manual
          /\ s.active = r.active /\ s.conf = ConfOf(l) /\ s.status = r.status
      BY <1>1, <2>2, <2>4, DecidingWrites
    <3>2. QED BY <1>3, <2>4, <3>1 DEF Written
  <2>5. CASE h = <<"status", "whitelist">>
    <3>1. /\ s.exists /\ s.boss = r.boss /\ s.touched = r.touched /\ s.manual = r.manual
          /\ s.active = r.active /\ s.conf = r.conf /\ s.status = "whitelist"
      BY <1>1, <2>5, DecidingWrites DEF Statuses
    <3>2. QED BY <1>3, <2>5, <3>1 DEF Written, OffStatuses
  <2>6. QED BY <2>1, <2>3, <2>4, <2>5
<1>4. CASE l = "unattended"
  <2>1. h \in {<<"active", "off">>, <<"status", "new">>}
    BY <1>4 DEF ScriptSteps, First
  <2>2. CASE h = <<"active", "off">>
    <3>1. /\ s.exists /\ s.boss = r.boss /\ s.touched = r.touched /\ s.manual
          /\ ~s.active /\ s.status = r.status
      <4>1. s = After(r, "active", "off") /\ Put(r) = r
        BY <1>1, <2>2, PutIs
      <4>2. s = [r EXCEPT !.active = FALSE, !.manual = TRUE]
        BY <4>1 DEF After
      <4>3. QED BY <1>1, <4>2 DEF Row
    <3>2. QED BY <1>4, <2>2, <3>1 DEF Written
  <2>3. CASE h = <<"status", "new">>
    <3>1. /\ s.exists /\ s.boss = r.boss /\ s.touched = r.touched /\ s.manual = r.manual
          /\ s.active = r.active /\ s.status = "new"
      BY <1>1, <2>3, DecidingWrites DEF Statuses
    <3>2. QED BY <1>4, <2>3, <3>1 DEF Written
  <2>4. QED BY <2>1, <2>2, <2>3
<1>5. CASE l = "ignored"
  <2>1. h \in {<<"active", "off">>, <<"boss", "off">>}
    BY <1>5 DEF ScriptSteps, First
  <2>2. CASE h = <<"active", "off">>
    <3>1. /\ s.exists /\ s.boss = r.boss /\ s.touched = r.touched /\ s.manual
          /\ s.status = r.status
      BY <1>1, <2>2, DecidingWrites DEF Switch
    <3>2. QED BY <1>5, <2>2, <3>1 DEF Written
  <2>3. CASE h = <<"boss", "off">>
    <3>1. /\ s.exists /\ ~s.boss /\ s.touched /\ s.manual /\ s.status = r.status
      BY <1>1, <2>3, DecidingWrites DEF Switch
    <3>2. QED BY <1>5, <2>3, <3>1 DEF Written
  <2>4. QED BY <2>1, <2>2, <2>3
<1>6. QED BY <1>2, <1>3, <1>4, <1>5 DEF AllLevels

LEMMA OwnLook ==
    ASSUME NEW r \in Row, NEW l \in AllLevels, NEW left, NEW left2, NEW h,
           Written(r, l, left), left \subseteq left2 \cup {h},
           \/ h[1] \in {"lookActive", "sweep"}
           \/ /\ h = <<"clearOff", "whitelist">>
              /\ r.status \in OffStatuses => <<"status", "whitelist">> \in left2
           \/ /\ h = <<"clearIgnored", "new">>
              /\ r.status = "ignored" => <<"status", "new">> \in left2
    PROVE  Written(r, l, left2)
<1>1. CASE h[1] \in {"lookActive", "sweep"}
  <2>1. /\ \A b \in Switch : h # <<"active", b>> /\ h # <<"boss", b>>
        /\ h # <<"conf", ConfOf(l)>> /\ \A t \in Statuses : h # <<"status", t>>
        /\ h # <<"clearOff", "whitelist">> /\ h # <<"clearIgnored", "new">>
    BY <1>1
  <2>2. QED BY <2>1 DEF Written, Switch, Statuses
<1>2. CASE /\ h = <<"clearOff", "whitelist">>
           /\ r.status \in OffStatuses => <<"status", "whitelist">> \in left2
  <2>1. \A x \in left : x = <<"clearOff", "whitelist">> \/ x \in left2
    BY <1>2
  <2>2. CASE l \in {"auto", "confirm"}
    BY <1>2, <2>1, <2>2 DEF Written
  <2>3. CASE l \notin {"auto", "confirm"}
    BY <1>2, <2>1, <2>3 DEF Written
  <2>4. QED BY <2>2, <2>3
<1>3. CASE /\ h = <<"clearIgnored", "new">>
           /\ r.status = "ignored" => <<"status", "new">> \in left2
  <2>1. \A x \in left : x = <<"clearIgnored", "new">> \/ x \in left2
    BY <1>3
  <2>2. CASE l = "unattended"
    BY <1>3, <2>1, <2>2 DEF Written
  <2>3. CASE l # "unattended"
    BY <1>3, <2>1, <2>3 DEF Written
  <2>4. QED BY <2>2, <2>3
<1>4. QED BY <1>1, <1>2, <1>3

(* What the first statement of a level writes.                             *)
LEMMA FirstWrite ==
    ASSUME NEW r \in Row, NEW l \in AllLevels, NEW left,
           l \in {"auto", "confirm"} =>
              {<<"active", "on">>, <<"conf", ConfOf(l)>>, <<"clearOff", "whitelist">>}
                 \subseteq left,
           l = "unattended" => {<<"active", "off">>, <<"clearIgnored", "new">>} \subseteq left,
           l = "ignored" => {<<"active", "off">>, <<"boss", "off">>} \subseteq left
    PROVE  Written(After(r, First(l)[1], First(l)[2]), l, left)
<1>1. PICK s : s = After(r, First(l)[1], First(l)[2])
  OBVIOUS
<1>2. CASE l = "boss"
  <2>1. s = After(r, "boss", "on")
    BY <1>1, <1>2 DEF First
  <2>2. s.exists /\ s.touched /\ s.manual /\ s.boss = ("on" = "on")
    BY <2>1, DecidingWrites DEF Switch
  <2>3. QED BY <1>1, <1>2, <2>2 DEF Written
<1>3. CASE l \in {"auto", "confirm", "unattended"}
  <2>1. s = After(r, "boss", "off")
    BY <1>1, <1>3 DEF First
  <2>2. s.exists /\ s.touched /\ s.manual /\ s.boss = ("off" = "on")
    BY <2>1, DecidingWrites DEF Switch
  <2>3. QED BY <1>1, <1>3, <2>2 DEF Written
<1>4. CASE l = "ignored"
  <2>1. s = After(r, "status", "ignored")
    BY <1>1, <1>4 DEF First
  <2>2. s.exists /\ s.status = "ignored"
    BY <2>1, DecidingWrites DEF Statuses, OffStatuses
  <2>3. QED BY <1>1, <1>4, <2>2 DEF Written
<1>5. QED BY <1>2, <1>3, <1>4 DEF AllLevels

(* What is left of a list as it goes on.                                   *)
LEMMA LeftIs ==
    ASSUME ChatsAssumption, ChatsTypes, NEW c \in Callers, Op(c) # "none",
           caller[c].job = "level", NEW rest, Moved(c, rest), Turns(c, rest)
    PROVE  LET tail == Elements(Tail(caller[c].todo)) IN
           /\ Left(c) = {<<Op(c), Arg(c)>>} \cup tail
           /\ \/ Left(c)' = tail
              \/ Left(c)' = {<<"sweep", "chat">>} \cup tail /\ Op(c) = "lookActive"
              \/ Left(c)' = {<<"status", "whitelist">>} \cup tail /\ Op(c) = "clearOff"
              \/ Left(c)' = {<<"status", "new">>} \cup tail /\ Op(c) = "clearIgnored"
<1> DEFINE tail == Tail(caller[c].todo)
<1>1. /\ caller[c].todo # <<>> /\ caller[c].todo \in Seq(AllSteps)
      /\ Head(caller[c].todo) = <<Op(c), Arg(c)>> /\ Head(caller[c].todo) \in Heads("level")
      /\ tail \in Seq(LevelSteps)
  BY Standing DEF Starts
<1>2. Left(c) = {<<Op(c), Arg(c)>>} \cup Elements(tail)
  BY <1>1, ElementsOf DEF Left
<1>3. Left(c)' = Elements(rest)
  BY DEF Left, Moved, Elements
<1>4. ASSUME NEW x \in Heads("level") PROVE Elements(<<x>> \o tail) = {x} \cup Elements(tail)
  <2>1. "level" \in Jobs \ {"none"} /\ tail \in Seq(Starts("level"))
    BY <1>1 DEF Jobs, Starts
  <2>2. /\ <<x>> \o tail \in Seq(AllSteps) /\ <<x>> \o tail # <<>>
        /\ Head(<<x>> \o tail) = x /\ Tail(<<x>> \o tail) = tail
    <3>1. /\ <<x>> \o tail \in ListOf("level")
          /\ Head(<<x>> \o tail) = x /\ Tail(<<x>> \o tail) = tail
      BY <2>1, PutFirst
    <3>2. <<x>> \o tail # <<>>
      BY <1>1
    <3>3. QED BY <3>1, <3>2 DEF ListOf
  <2>3. QED BY <2>2, ElementsOf
<1>5. Op(c) # "gate"
  <2>1. PICK h \in Heads("level") : h = <<Op(c), Arg(c)>>
    BY <1>1
  <2>2. "level" \in Jobs /\ h[1] = Op(c)
    BY <2>1 DEF Jobs
  <2>3. QED BY <2>2, HeadIs DEF DecidingOps
<1>6. /\ <<"sweep", "chat">> \in Heads("level") /\ <<"status", "whitelist">> \in Heads("level")
      /\ <<"status", "new">> \in Heads("level")
  BY Heads1
<1>7. CASE rest = tail
  BY <1>2, <1>3, <1>7
<1>8. CASE rest = <<<<"sweep", "chat">>>> \o tail /\ Op(c) = "lookActive"
  BY <1>2, <1>3, <1>4, <1>6, <1>8
<1>9. CASE rest = <<<<"status", "whitelist">>>> \o tail /\ Op(c) = "clearOff"
  BY <1>2, <1>3, <1>4, <1>6, <1>9
<1>10. CASE rest = <<<<"status", "new">>>> \o tail /\ Op(c) = "clearIgnored"
  BY <1>2, <1>3, <1>4, <1>6, <1>10
<1>11. QED BY <1>5, <1>7, <1>8, <1>9, <1>10 DEF Turns

(* Looking at the status puts the statement that clears it first.          *)
LEMMA ClearingIs ==
    ASSUME ChatsAssumption, ChatsTypes, NEW c \in Callers, LookStatus(c)
    PROVE  /\ Op(c) = "clearOff" /\ row.status \in OffStatuses =>
                 <<"status", Arg(c)>> \in Left(c)'
           /\ Op(c) = "clearIgnored" /\ row.exists /\ row.status = "ignored" =>
                 <<"status", Arg(c)>> \in Left(c)'
<1>1. Op(c) # "none" /\ caller \in [Callers -> Calls]
  BY Typed DEF LookStatus
<1>2. PICK x : x = <<"status", Arg(c)>>
  OBVIOUS
<1>3. Tail(caller[c].todo) \in Seq(AllSteps)
  BY <1>1, Standing
<1>4. PICK rest : rest = <<x>> \o Tail(caller[c].todo)
  OBVIOUS
<1>5. rest[1] = x /\ 1 \in 1..Len(rest)
  BY <1>3, <1>4
<1>6. ASSUME GoOn(c, <<x>>) PROVE x \in Left(c)'
  <2>1. caller'[c].todo = rest
    BY <1>1, <1>4, <1>6 DEF GoOn, Calls
  <2>2. QED BY <1>5, <2>1 DEF Left, Elements
<1>7. Do("status", Arg(c)) = <<x>>
  BY <1>2, DoIs
<1>8. QED BY <1>2, <1>6, <1>7 DEF LookStatus

(* What a statement leaves on record of the level.                         *)
LEMMA StatementRecords ==
    ASSUME ChatsAssumption, ChatsTypes, NEW c \in Callers, Statement(c), ~Return(c)
    PROVE  /\ hist'.level = hist.level
           /\ hist.stale => hist'.stale
           /\ Write(c) /\ Op(c) = "apply" /\ row.manual => hist'.stale
<1>0. hist \in History /\ row \in Row
  BY Typed
<1>1. CASE Write(c)
  BY <1>1, WriteRecords
<1>2. CASE ~Write(c) /\ hist' = hist
  BY <1>2
<1>3. CASE Claim(c) /\ MayClaim(c)
  <2>1. PICK before : before = {k \in Callers : Op(k) = "send"}
    OBVIOUS
  <2>2. hist' = [hist EXCEPT !.holders = hist.holders \cup {c}, !.before = before]
    BY <1>0, <1>3, <2>1 DEF Claim, History
  <2>3. hist'.level = hist.level /\ hist'.stale = hist.stale
    BY <1>0, <2>2 DEF History
  <2>4. ~Write(c)
    BY <1>3 DEF Claim, Write, Writes
  <2>5. QED BY <2>3, <2>4
<1>4. CASE Release(c) /\ row.claim = c
  <2>1. hist'.level = hist.level /\ hist'.stale = hist.stale
    BY <1>0, <1>4 DEF Release, History
  <2>2. ~Write(c)
    BY <1>4 DEF Release, Write, Writes
  <2>3. QED BY <2>1, <2>2
<1>5. CASE Send(c)
  <2>1. hist'.level = hist.level /\ hist'.stale = hist.stale
    BY <1>0, <1>5 DEF Send, History
  <2>2. ~Write(c)
    BY <1>5 DEF Send, Write, Writes
  <2>3. QED BY <2>1, <2>2
<1>6. QED
  BY <1>1, <1>2, <1>3, <1>4, <1>5
     DEF Statement, LookActive, Sweep, LookStatus, LookSource, ReadDefault, Insert, Resolve,
         UpdateRouter, SetDefault, LookChat, LookToSend, Claim, Release

(* The scripts hold no other statements that write.                        *)
LEMMA ScriptOps ==
    ASSUME NEW l \in AllLevels, NEW h \in ScriptSteps(l)
    PROVE  /\ h[1] \in {"boss", "active", "conf", "status", "lookActive", "sweep",
                        "clearOff", "clearIgnored"}
           /\ h[1] = "lookActive" => <<"sweep", "chat">> \in ScriptSteps(l)
           /\ h[1] = "clearOff" => /\ h = <<"clearOff", "whitelist">>
                                   /\ <<"status", "whitelist">> \in ScriptSteps(l)
           /\ h[1] = "clearIgnored" => /\ h = <<"clearIgnored", "new">>
                                       /\ <<"status", "new">> \in ScriptSteps(l)
           /\ First(l)[1] \in {"boss", "status"}
           /\ First(l) \notin {<<"sweep", "chat">>, <<"status", "whitelist">>,
                               <<"status", "new">>}
<1>1. CASE l = "boss"
  BY <1>1 DEF ScriptSteps, First, ConfOf
<1>2. CASE l \in {"auto", "confirm"}
  BY <1>2 DEF ScriptSteps, First, ConfOf
<1>3. CASE l = "unattended"
  BY <1>3 DEF ScriptSteps, First, ConfOf
<1>4. CASE l = "ignored"
  BY <1>4 DEF ScriptSteps, First, ConfOf
<1>5. QED BY <1>1, <1>2, <1>3, <1>4 DEF AllLevels

(* A level being set makes progress.                                       *)
LEMMA OwnStep ==
    ASSUME ChatsAssumption, ChatsTypes, NEW c \in Callers, Statement(c), ~Return(c),
           caller[c].job = "level", Progress(c)
    PROVE  Progress(c)'
<1>0. row \in Row /\ Op(c) # "none"
  BY StatementIs, Typed
<1>1. PICK rest : Moved(c, rest) /\ Turns(c, rest)
  BY StatementIs
<1>2. PICK l \in AllLevels : l = caller[c].level
  BY DEF Progress
<1>3. PICK left : left = Left(c)
  OBVIOUS
<1>4. PICK left2 : left2 = Left(c)'
  OBVIOUS
<1>5. PICK tail : tail = Elements(Tail(caller[c].todo))
  OBVIOUS
<1>6. PICK h : h = <<Op(c), Arg(c)>>
  OBVIOUS
<1>7. /\ left = {h} \cup tail
      /\ \/ left2 = tail
         \/ left2 = {<<"sweep", "chat">>} \cup tail /\ h[1] = "lookActive"
         \/ left2 = {<<"status", "whitelist">>} \cup tail /\ h[1] = "clearOff"
         \/ left2 = {<<"status", "new">>} \cup tail /\ h[1] = "clearIgnored"
  BY <1>0, <1>1, <1>3, <1>4, <1>5, <1>6, LeftIs
<1>8. /\ left \subseteq ScriptSteps(l)
      /\ \/ caller[c].todo = SetConfigLevel(l)
         \/ /\ First(l) \notin left
            /\ caller[c].alone /\ ~hist.stale => Written(row, l, left)
  BY <1>2, <1>3 DEF Progress
<1>9. h \in ScriptSteps(l) /\ Head(caller[c].todo) = h
  BY <1>0, <1>6, <1>7, <1>8, Standing
<1>10. left2 \subseteq ScriptSteps(l) /\ left \subseteq left2 \cup {h}
  BY <1>7, <1>8, <1>9, ScriptOps
<1>11. caller'[c].level = l /\ caller'[c].alone = caller[c].alone
  BY <1>1, <1>2 DEF Moved
<1>12. SUFFICES /\ First(l) \notin left2
                /\ caller[c].alone /\ ~hist'.stale => Written(row', l, left2)
  BY <1>4, <1>10, <1>11 DEF Progress
<1>13. h[1] \in Writes => Write(c)
  BY <1>6 DEF Statement, Writes, Write, LookActive, Sweep, LookStatus, LookSource, ReadDefault,
              Insert, Resolve, UpdateRouter, SetDefault, Origins, LookChat, Claim, Release,
              LookToSend, Send
<1>14. CASE caller[c].todo = SetConfigLevel(l)
  <2>1. /\ h = First(l) /\ First(l) \notin tail
        /\ l \in {"auto", "confirm"} =>
              {<<"active", "on">>, <<"conf", ConfOf(l)>>, <<"clearOff", "whitelist">>}
                 \subseteq tail
        /\ l = "unattended" => {<<"active", "off">>, <<"clearIgnored", "new">>} \subseteq tail
        /\ l = "ignored" => {<<"active", "off">>, <<"boss", "off">>} \subseteq tail
    BY <1>5, <1>9, <1>14, ScriptFacts
  <2>2. First(l)[1] \in {"boss", "status"}
    BY <1>9, ScriptOps
  <2>3. left2 = tail
    BY <1>7, <2>1, <2>2
  <2>4. row' = After(row, First(l)[1], First(l)[2])
    <3>1. Write(c)
      BY <1>13, <2>1, <2>2 DEF Writes
    <3>2. h[1] = Op(c) /\ h[2] = Arg(c)
      BY <1>6
    <3>3. QED BY <2>1, <3>1, <3>2 DEF Write
  <2>5. Written(row', l, left2)
    BY <1>0, <2>1, <2>3, <2>4, FirstWrite
  <2>6. QED BY <2>1, <2>3, <2>5
<1>15. CASE /\ First(l) \notin left
            /\ caller[c].alone /\ ~hist.stale => Written(row, l, left)
  <2>1. First(l) \notin left2
    BY <1>7, <1>9, <1>15, ScriptOps
  <2>2. ASSUME caller[c].alone, ~hist'.stale PROVE Written(row', l, left2)
    <3>1. Written(row, l, left)
      BY <1>15, <2>2, StatementRecords
    <3>2. h # First(l)
      BY <1>7, <1>15
    <3>3. h[1] = Op(c) /\ h[2] = Arg(c)
      BY <1>6
    <3>4. CASE h[1] \in {"boss", "active", "conf", "status"}
      <4>1. Write(c)
        BY <1>13, <3>4 DEF Writes
      <4>2. row' = After(row, h[1], h[2]) /\ row' \in Row
        BY <3>3, <4>1, WriteIs
      <4>3. QED BY <1>0, <1>9, <1>10, <3>1, <3>2, <3>4, <4>2, OwnWrite
    <3>5. CASE h[1] \in {"lookActive", "sweep", "clearOff", "clearIgnored"}
      <4>1. row' = row
        BY <3>3, <3>5 DEF Statement, Writes, Write, LookActive, Sweep, LookStatus, LookSource,
              ReadDefault, Insert, Resolve, UpdateRouter, SetDefault, Origins, LookChat, Claim,
              Release, LookToSend, Send
      <4>2. h[1] \in {"clearOff", "clearIgnored"} => LookStatus(c)
        BY <3>3 DEF Statement, Writes, Write, LookActive, Sweep, LookStatus, LookSource,
              ReadDefault, Insert, Resolve, UpdateRouter, SetDefault, Origins, LookChat, Claim,
              Release, LookToSend, Send
      <4>3. \/ h[1] \in {"lookActive", "sweep"}
            \/ /\ h = <<"clearOff", "whitelist">>
               /\ row.status \in OffStatuses => <<"status", "whitelist">> \in left2
            \/ /\ h = <<"clearIgnored", "new">>
               /\ row.status = "ignored" => <<"status", "new">> \in left2
        <5>1. CASE h[1] = "clearOff"
          <6>1. h = <<"clearOff", "whitelist">> /\ h[2] = "whitelist"
            BY <1>9, <5>1, ScriptOps
          <6>2. QED BY <1>4, <3>3, <4>2, <5>1, <6>1, ClearingIs
        <5>2. CASE h[1] = "clearIgnored"
          <6>1. h = <<"clearIgnored", "new">> /\ h[2] = "new"
            BY <1>9, <5>2, ScriptOps
          <6>2. row.exists
            BY <3>1 DEF Written
          <6>3. QED BY <1>4, <3>3, <4>2, <5>2, <6>1, <6>2, ClearingIs
        <5>3. QED BY <3>5, <5>1, <5>2
      <4>4. QED BY <1>0, <1>10, <3>1, <4>1, <4>3, OwnLook
    <3>6. QED BY <1>9, <3>4, <3>5, ScriptOps
  <2>3. QED BY <2>1, <2>2
<1>16. QED BY <1>8, <1>14, <1>15

(* A statement is no return.                                               *)
LEMMA WritesAre ==
    ASSUME ChatsAssumption, ChatsTypes, NEW c \in Callers, Write(c)
    PROVE  Statement(c) /\ ~Return(c) /\ (~Deciding(c) => caller[c].job = "other")
<1>1. Op(c) # "none" /\ Statement(c)
  BY DEF Write, Writes, Statement
<1>2. caller[c].todo # <<>> /\ caller[c].job \in Jobs \ {"none"}
  BY <1>1, Standing
<1>3. QED BY <1>1, <1>2 DEF Return, Deciding, Jobs

(* Whoever else steps leaves a level being set as far as it is.            *)
LEMMA OthersStep ==
    ASSUME NEW c \in Callers, Progress(c),
           caller'[c].todo = caller[c].todo, caller'[c].level = caller[c].level,
           caller'[c].alone => caller[c].alone,
           caller'[c].alone /\ ~hist'.stale => ~hist.stale,
           \A left : caller'[c].alone /\ ~hist'.stale /\ Written(row, caller[c].level, left)
                        => Written(row', caller[c].level, left)
    PROVE  Progress(c)'
<1>1. PICK left : left = Left(c) /\ left = Left(c)'
  BY DEF Left, Elements
<1>2. PICK l : l = caller[c].level /\ l = caller'[c].level
  OBVIOUS
<1>3. QED BY <1>1, <1>2 DEF Progress

LEMMA LevelStep ==
    ASSUME ChatsAssumption, ChatsTypes, AloneInv, LevelInv, [Next]_vars
    PROVE  LevelInv'
<1>0. /\ row \in Row /\ row' \in Row /\ hist \in History
      /\ caller \in [Callers -> Calls] /\ caller' \in [Callers -> Calls]
  BY Typed, ChatsTypesStep DEF ChatsTypes
<1>1. ASSUME NEW k \in Callers, Write(k), NEW c \in Callers, caller'[c].job = "level"
      PROVE  Progress(c)'
  <2>1. /\ Statement(k) /\ ~Return(k) /\ (~Deciding(k) => caller[k].job = "other")
        /\ hist.stale => hist'.stale
        /\ Op(k) = "apply" /\ row.manual => hist'.stale
    BY <1>1, WritesAre, StatementRecords
  <2>2. PICK rest : Moved(k, rest)
    BY <2>1, StatementIs
  <2>3. caller[c].job = "level" /\ Progress(c)
    <3>1. caller'[c].job = caller[c].job
      BY <2>2 DEF Moved
    <3>2. QED BY <1>1, <3>1 DEF LevelInv
  <2>4. CASE c = k
    BY <2>1, <2>3, <2>4, OwnStep
  <2>5. CASE c # k
    <3>1. caller'[c] = caller[c]
      BY <2>2, <2>5 DEF Moved
    <3>2. caller[c].alone => ~Deciding(k)
      BY <2>3, <2>5 DEF AloneInv, Deciding
    <3>3. ASSUME NEW left, caller'[c].alone, ~hist'.stale,
                 Written(row, caller[c].level, left)
          PROVE  Written(row', caller[c].level, left)
      <4>1. caller[c].level \in AllLevels
        BY <2>3 DEF Progress
      <4>2. caller[k].job = "other" /\ ~(Op(k) = "apply" /\ row.manual)
        BY <2>1, <3>1, <3>2, <3>3
      <4>3. QED BY <1>1, <3>3, <4>1, <4>2, WrittenStays
    <3>4. QED BY <2>1, <2>3, <3>1, <3>3, OthersStep
  <2>6. QED BY <2>4, <2>5
<1>2. ASSUME \A k \in Callers : ~Write(k), NEW c \in Callers, caller'[c].job = "level"
      PROVE  Progress(c)'
  <2>1. ASSUME NEW l, NEW left, Written(row, l, left) PROVE Written(row', l, left)
    <3>1. SameLevel(row, row')
      BY <1>2, <2>1, RowStands DEF SameRow, Written
    <3>2. QED BY <1>0, <2>1, <3>1, LevelStands
  <2>2. ASSUME caller[c].job = "level", caller'[c].todo = caller[c].todo,
               caller'[c].level = caller[c].level, caller'[c].alone => caller[c].alone,
               caller'[c].alone /\ ~hist'.stale => ~hist.stale
        PROVE  Progress(c)'
    BY <2>1, <2>2, OthersStep DEF LevelInv
  <2>3. ASSUME NEW k \in Callers, Statement(k), ~Return(k) PROVE Progress(c)'
    <3>1. PICK rest : Moved(k, rest)
      BY <2>3, StatementIs
    <3>2. caller[c].job = "level" /\ Progress(c)
      <4>1. caller'[c].job = caller[c].job
        BY <3>1 DEF Moved
      <4>2. QED BY <1>2, <4>1 DEF LevelInv
    <3>3. CASE c = k
      BY <2>3, <3>2, <3>3, OwnStep
    <3>4. CASE c # k
      <4>1. caller'[c] = caller[c]
        BY <3>1, <3>4 DEF Moved
      <4>2. hist.stale => hist'.stale
        BY <2>3, StatementRecords
      <4>3. QED BY <2>2, <3>2, <4>1, <4>2
    <3>5. QED BY <3>3, <3>4
  <2>4. ASSUME NEW k \in Callers, Return(k) PROVE Progress(c)'
    <3>1. caller'[c] = (IF c = k THEN NoCall ELSE caller[c])
      BY <1>0, <2>4 DEF Return
    <3>2. hist'.stale = hist.stale
      BY <1>0, <2>4 DEF Return, History
    <3>3. QED BY <1>2, <2>2, <3>1, <3>2 DEF NoCall
  <2>5. ASSUME NEW k \in Callers, Call(k) PROVE Progress(c)'
    <3>1. PICK job \in Jobs \ {"none"}, level \in AllLevels \cup {"none"} :
             \E script \in Seq(Starts(job)) :
                Begins(k, job, level, script) /\ LevelScript(job, level, script)
      BY <2>5, CallIs
    <3>2. PICK script \in Seq(Starts(job)) :
             Begins(k, job, level, script) /\ LevelScript(job, level, script)
      BY <3>1
    <3>3. CASE c = k
      <4>1. /\ level \in AllLevels /\ script = SetConfigLevel(level)
            /\ caller'[c].todo = script /\ caller'[c].level = level
        BY <1>2, <3>2, <3>3 DEF Begins, LevelScript
      <4>2. Elements(script) \subseteq ScriptSteps(level)
        BY <4>1, ScriptFacts
      <4>3. Left(c)' = Elements(script)
        BY <4>1 DEF Left, Elements
      <4>4. QED BY <4>1, <4>2, <4>3 DEF Progress
    <3>4. CASE c # k
      BY <1>2, <2>2, <3>2, <3>4 DEF Begins
    <3>5. QED BY <3>3, <3>4
  <2>6. ASSUME NEW m \in Messages, Age(m) PROVE Progress(c)'
    <3>1. hist'.stale = hist.stale /\ caller' = caller
      BY <1>0, <2>6 DEF Age, History
    <3>2. QED BY <1>2, <2>2, <3>1
  <2>7. ASSUME NEW m \in Messages, Answer(m) PROVE Progress(c)'
    BY <1>2, <2>2, <2>7 DEF Answer
  <2>8. CASE Expire
    <3>1. hist'.stale = hist.stale /\ caller' = caller
      BY <1>0, <2>8 DEF Expire, History
    <3>2. QED BY <1>2, <2>2, <3>1
  <2>9. CASE Crash
    BY <1>2, <2>9 DEF Crash, NoCall
  <2>10. CASE UNCHANGED vars
    BY <1>2, <2>2, <2>10 DEF vars
  <2>11. QED BY <2>3, <2>4, <2>5, <2>6, <2>7, <2>8, <2>9, <2>10, NextIs
<1>3. QED BY <1>1, <1>2 DEF LevelInv

LEMMA SettledStep ==
    ASSUME ChatsAssumption, ChatsTypes, AloneInv, LevelInv, SettledInv, [Next]_vars
    PROVE  SettledInv'
<1>0. /\ row \in Row /\ row' \in Row /\ hist \in History
      /\ caller \in [Callers -> Calls]
  BY Typed, ChatsTypesStep DEF ChatsTypes
<1>1. ASSUME hist'.level = hist.level, hist.stale => hist'.stale,
             \A c \in Callers : Deciding(c)' => Deciding(c),
             ASSUME hist.level # "none", ~hist'.stale, Written(row, hist.level, {})
             PROVE  Written(row', hist.level, {})
      PROVE  SettledInv'
  BY <1>1 DEF SettledInv
<1>2. ASSUME NEW k \in Callers, Write(k) PROVE SettledInv'
  <2>1. /\ Statement(k) /\ ~Return(k) /\ (~Deciding(k) => caller[k].job = "other")
        /\ hist'.level = hist.level /\ (hist.stale => hist'.stale)
        /\ Op(k) = "apply" /\ row.manual => hist'.stale
    BY <1>2, WritesAre, StatementRecords
  <2>2. PICK rest : Moved(k, rest)
    BY <2>1, StatementIs
  <2>3. \A c \in Callers : Deciding(c)' = Deciding(c)
    BY <2>2 DEF Moved, Deciding
  <2>4. ASSUME hist.level # "none", ~hist'.stale, Written(row, hist.level, {})
        PROVE  Written(row', hist.level, {})
    <3>1. caller[k].job = "other" /\ ~(Op(k) = "apply" /\ row.manual)
      BY <2>1, <2>4 DEF SettledInv
    <3>2. hist.level \in AllLevels
      BY <1>0, <2>4, HistoryIs
    <3>3. QED BY <1>2, <2>4, <3>1, <3>2, WrittenStays
  <2>5. QED BY <1>1, <2>1, <2>3, <2>4
<1>3. ASSUME \A k \in Callers : ~Write(k) PROVE SettledInv'
  <2>1. ASSUME NEW l, NEW left, Written(row, l, left) PROVE Written(row', l, left)
    <3>1. SameLevel(row, row')
      BY <1>3, <2>1, RowStands DEF SameRow, Written
    <3>2. QED BY <1>0, <2>1, <3>1, LevelStands
  <2>2. ASSUME hist'.level = hist.level, hist.stale => hist'.stale,
               \A c \in Callers : Deciding(c)' => Deciding(c)
        PROVE  SettledInv'
    BY <1>1, <2>1, <2>2
  <2>3. ASSUME NEW k \in Callers, Statement(k), ~Return(k) PROVE SettledInv'
    <3>1. PICK rest : Moved(k, rest)
      BY <2>3, StatementIs
    <3>2. \A c \in Callers : Deciding(c)' = Deciding(c)
      BY <3>1 DEF Moved, Deciding
    <3>3. QED BY <2>2, <2>3, <3>2, StatementRecords
  <2>4. ASSUME NEW k \in Callers, Return(k) PROVE SettledInv'
    <3>1. \A c \in Callers : caller'[c] = (IF c = k THEN NoCall ELSE caller[c])
      BY <1>0, <2>4 DEF Return
    <3>2. \A c \in Callers : Deciding(c)' => Deciding(c) /\ c # k
      BY <3>1 DEF Deciding, NoCall
    <3>3. CASE caller[k].job = "level" /\ caller[k].alone
      <4>1. PICK l : l = caller[k].level
        OBVIOUS
      <4>2. hist' = [hist EXCEPT !.level = l] /\ row' = row /\ caller[k].todo = <<>>
        BY <1>0, <2>4, <3>3, <4>1 DEF Return, History
      <4>3. hist'.level = l /\ hist'.stale = hist.stale
        BY <1>0, <4>2 DEF History
      <4>4. \A c \in Callers : ~Deciding(c)'
        BY <3>2, <3>3 DEF AloneInv, Deciding
      <4>5. Left(k) = {}
        BY <4>2 DEF Left, Elements
      <4>6. l \in AllLevels /\ (~hist.stale => Written(row, l, {}))
        <5>1. Progress(k)
          BY <3>3 DEF LevelInv
        <5>2. l \in AllLevels
          BY <4>1, <5>1 DEF Progress
        <5>3. SetConfigLevel(l) # <<>>
          BY <5>2, ScriptFacts
        <5>4. QED BY <3>3, <4>1, <4>2, <4>5, <5>1, <5>2, <5>3 DEF Progress
      <4>7. QED BY <4>2, <4>3, <4>4, <4>6 DEF SettledInv
    <3>4. CASE ~(caller[k].job = "level" /\ caller[k].alone)
      <4>1. hist'.level = hist.level /\ hist'.stale = hist.stale
        BY <1>0, <2>4, <3>4 DEF Return, History
      <4>2. QED BY <2>2, <3>2, <4>1
    <3>5. QED BY <3>3, <3>4
  <2>5. ASSUME NEW k \in Callers, Call(k) PROVE SettledInv'
    <3>1. PICK job, level, script : Begins(k, job, level, script)
      BY <2>5, CallIs
    <3>2. CASE job \in {"level", "decide"}
      <4>1. hist'.level = "none"
        BY <3>1, <3>2 DEF Begins
      <4>2. QED BY <4>1 DEF SettledInv
    <3>3. CASE job \notin {"level", "decide"}
      <4>1. hist'.level = hist.level /\ hist'.stale = hist.stale
        BY <1>0, <3>1, <3>3, HistoryIs DEF Begins
      <4>2. \A c \in Callers : Deciding(c)' => Deciding(c)
        BY <3>1, <3>3 DEF Begins, Deciding
      <4>3. QED BY <2>2, <4>1, <4>2
    <3>4. QED BY <3>2, <3>3
  <2>6. ASSUME NEW m \in Messages, Age(m) PROVE SettledInv'
    <3>1. hist'.level = hist.level /\ hist'.stale = hist.stale /\ caller' = caller
      BY <1>0, <2>6 DEF Age, History
    <3>2. QED BY <2>2, <3>1 DEF Deciding
  <2>7. ASSUME NEW m \in Messages, Answer(m) PROVE SettledInv'
    BY <2>2, <2>7 DEF Answer, Deciding
  <2>8. CASE Expire
    <3>1. hist'.level = hist.level /\ hist'.stale = hist.stale /\ caller' = caller
      BY <1>0, <2>8 DEF Expire, History
    <3>2. QED BY <2>2, <3>1 DEF Deciding
  <2>9. CASE Crash
    BY <2>2, <2>9 DEF Crash, NoCall, Deciding
  <2>10. CASE UNCHANGED vars
    BY <2>2, <2>10 DEF vars, Deciding
  <2>11. QED BY <2>3, <2>4, <2>5, <2>6, <2>7, <2>8, <2>9, <2>10, NextIs
<1>4. QED BY <1>2, <1>3

-----------------------------------------------------------------------------
(* The theorems                                                            *)

LEMMA ChatsInit ==
    ASSUME ChatsAssumption, Init
    PROVE  ChatsIInv
<1>0. /\ row \in Row /\ row \in Rows /\ router = [cfg |-> "dedicated", file |-> "dedicated"]
      /\ msgs \in [Messages -> {"absent", "old"}] /\ kv \in [Origins -> Defaults]
      /\ caller = [c \in Callers |-> NoCall]
  BY DEF Init, ChatsAssumption
<1>1. PICK off \in SUBSET Messages : off = (IF row.active THEN {} ELSE Old)
  BY DEF Old
<1>2. PICK holders \in SUBSET Callers : holders = {row.claim} \ {Free}
  BY <1>0 DEF Row
<1>3. hist = [level |-> "none", stale |-> FALSE, boss |-> "none", mode |-> "none",
              off |-> off, holders |-> holders, before |-> {}, trespass |-> FALSE, calls |-> 0]
  BY <1>1, <1>2 DEF Init
<1>4. hist \in History
  BY <1>3 DEF History, ChatsAssumption
<1>5. \A c \in Callers : caller[c] = NoCall /\ Op(c) = "none" /\ ~Deciding(c)
  BY <1>0 DEF Op, NoCall, Deciding
<1>6. ChatsTypes
  <2>1. NoCall \in Calls /\ NoCall.todo \in ListOf(NoCall.job)
    BY DEF NoCall, Calls, ListOf, Jobs
  <2>2. caller \in [Callers -> Calls] /\ TodoInv
    BY <1>0, <2>1 DEF TodoInv
  <2>3. router \in [cfg : Modes, file : Modes]
    BY <1>0 DEF Modes
  <2>4. msgs \in [Messages -> {"absent", "recent", "old", "closed"}]
    BY <1>0
  <2>5. QED BY <1>0, <1>4, <2>2, <2>3, <2>4 DEF ChatsTypes
<1>7. MarkedInv /\ DecisionsKept
  BY <1>3 DEF MarkedInv, DecisionsKept
<1>8. ClaimHonoured
  BY <1>2, <1>3 DEF ClaimHonoured
<1>9. SendInv /\ SweepInv
  BY <1>1, <1>3, <1>5 DEF SendInv, SweepInv
<1>10. AloneInv
  BY <1>5 DEF AloneInv
<1>11. LevelInv
  BY <1>5 DEF LevelInv, NoCall
<1>12. SettledInv
  BY <1>3 DEF SettledInv
<1>13. QED BY <1>6, <1>7, <1>8, <1>9, <1>10, <1>11, <1>12 DEF ChatsIInv

LEMMA ChatsNext ==
    ASSUME ChatsAssumption, ChatsIInv, [Next]_vars
    PROVE  ChatsIInv'
<1>1. /\ ChatsTypes /\ MarkedInv /\ DecisionsKept /\ ClaimHonoured /\ SendInv /\ SweepInv
      /\ AloneInv /\ LevelInv /\ SettledInv
  BY DEF ChatsIInv
<1>2. ChatsTypes'
  BY <1>1, ChatsTypesStep
<1>3. MarkedInv' /\ DecisionsKept'
  BY <1>1, MarkedStep
<1>4. ClaimHonoured' /\ SendInv'
  BY <1>1, ClaimStep
<1>5. SweepInv'
  BY <1>1, SweepStep
<1>6. AloneInv'
  BY <1>1, AloneStep
<1>7. LevelInv'
  BY <1>1, LevelStep
<1>8. SettledInv'
  BY <1>1, SettledStep
<1>9. QED BY <1>2, <1>3, <1>4, <1>5, <1>6, <1>7, <1>8 DEF ChatsIInv

(* The whole inductive invariant.                                          *)
THEOREM ChatsIInvHolds == ASSUME ChatsAssumption PROVE Spec => []ChatsIInv
<1>1. Init => ChatsIInv
  BY ChatsInit
<1>2. ChatsIInv /\ [Next]_vars => ChatsIInv'
  BY ChatsNext
<1>3. QED BY <1>1, <1>2, PTL DEF Spec

(* A level all of whose statements are done reads back as itself.          *)
LEMMA ReadsBack ==
    ASSUME NEW r \in Row, NEW l \in AllLevels, Written(r, l, {})
    PROVE  LevelOf(r) = l
<1>1. CASE l = "boss"
  BY <1>1 DEF Written, LevelOf
<1>2. CASE l \in {"auto", "confirm"}
  <2>1. ~r.boss /\ r.active /\ r.conf = ConfOf(l) /\ r.status \notin OffStatuses
    BY <1>2 DEF Written
  <2>2. LevelOf(r) = IF r.conf = "none" THEN "auto" ELSE "confirm"
    BY <2>1 DEF LevelOf, OffStatuses
  <2>3. QED BY <1>2, <2>1, <2>2 DEF ConfOf
<1>3. CASE l = "unattended"
  <2>1. ~r.boss /\ ~r.active /\ r.status # "ignored"
    BY <1>3 DEF Written
  <2>2. QED BY <1>3, <2>1 DEF LevelOf
<1>4. CASE l = "ignored"
  <2>1. ~r.boss /\ r.status = "ignored"
    BY <1>4 DEF Written
  <2>2. QED BY <1>4, <2>1 DEF LevelOf
<1>5. QED BY <1>1, <1>2, <1>3, <1>4 DEF AllLevels

(* What the owner decided about a chat stands: the level last set reads    *)
(* back, whoever is the boss and the mode are what was last decided        *)
(* (SetConfigLevel, ConfigLevel, MarkOwnerIfUntouched, SyncRouterMode).    *)
THEOREM ChatsSafeHolds == ASSUME ChatsAssumption PROVE Spec => []ChatsSafe
<1>1. ASSUME ChatsIInv PROVE ChatsSafe
  <2>1. /\ row \in Row /\ hist \in History /\ caller \in [Callers -> Calls] /\ TodoInv
        /\ ChatsTypes
    BY <1>1 DEF ChatsIInv, ChatsTypes
  <2>2. ChatsTypeOK
    <3>1. ASSUME NEW c \in Callers
          PROVE  /\ caller[c].job \in {"none", "level", "decide", "other"}
                 /\ caller[c].level \in AllLevels \cup {"none"}
                 /\ caller[c].job = "none" => caller[c].todo = <<>>
      BY <2>1 DEF Calls, Jobs, TodoInv, ListOf
    <3>2. QED BY <2>1, <3>1 DEF ChatsTypeOK, ChatsTypes
  <2>3. LevelKept
    <3>1. SUFFICES ASSUME hist.level # "none", ~hist.stale PROVE LevelOf(row) = hist.level
      BY DEF LevelKept
    <3>2. Written(row, hist.level, {})
      BY <1>1, <3>1 DEF ChatsIInv, SettledInv
    <3>3. hist.level \in AllLevels
      BY <2>1, <3>1, HistoryIs
    <3>4. QED BY <2>1, <3>2, <3>3, ReadsBack
  <2>4. QED BY <1>1, <2>2, <2>3 DEF ChatsSafe, ChatsIInv
<1>2. QED BY <1>1, ChatsIInvHolds, PTL

(* Who was told it holds the chat holds it, and nobody else sends to it    *)
(* who had not read the row before (ClaimChat, send_message).              *)
THEOREM ClaimHonouredHolds == ASSUME ChatsAssumption PROVE Spec => []ClaimHonoured
<1>1. ChatsIInv => ClaimHonoured
  BY DEF ChatsIInv
<1>2. QED BY <1>1, ChatsIInvHolds, PTL

(* Switching a chat on closes only what was old while it was off           *)
(* (SetActive, MarkHandledBefore).                                         *)
THEOREM ServedIsNotSweptHolds == ASSUME ChatsAssumption PROVE Spec => ServedIsNotSwept
<1>1. ASSUME ChatsIInv, NEW c \in Callers, Sweep(c)
      PROVE  \A m \in Messages : msgs'[m] # msgs[m] => m \in hist.off
  <2>1. Old \subseteq hist.off
    BY <1>1 DEF ChatsIInv, SweepInv, Sweep
  <2>2. msgs' = [m \in Messages |-> IF m \in Old THEN "closed" ELSE msgs[m]]
    BY <1>1 DEF Sweep
  <2>3. QED BY <2>1, <2>2
<1>2. ChatsIInv /\ [Next]_vars =>
         [\A c \in Callers : Sweep(c) =>
             \A m \in Messages : msgs'[m] # msgs[m] => m \in hist.off]_vars
  BY <1>1
<1>3. QED BY <1>2, ChatsIInvHolds, PTL DEF Spec, ServedIsNotSwept
=============================================================================
