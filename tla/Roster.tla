-------------------------------- MODULE Roster --------------------------------
(***************************************************************************)
(* Who is in a group: group_members (store/group.go), written from whole   *)
(* snapshots when the account connects, after a reset and when an agent    *)
(* creates the group, and from the live events of who joins and leaves     *)
(* (whatsmeow/inbound.go, mcpserver/group_tools.go).                       *)
(*                                                                         *)
(* One group; the snapshots are applied one statement at a time, by        *)
(* goroutines of their own, while the events are handled.                  *)
(***************************************************************************)
EXTENDS Integers, Sequences, FiniteSets

CONSTANTS
    People, Host,                     \* the host is in all its groups
    MaxMoves, MaxFailures, MaxResets  \* bounds: joins and leaves; malformed
                                      \* snapshots and refused writes; resets

ASSUME RosterAssumption == Host \in People /\ {MaxMoves, MaxFailures, MaxResets} \subseteq Nat

VARIABLES
    members,   \* WhatsApp: who is in the group
    rows,      \* group_members: who is said to be
    seed,      \* each seeding: where it is, its snapshot, what it has to do
    deltas,    \* events.GroupInfo on their way
    up,        \* the connection
    log        \* history, see Log

rosterVars == <<members, rows, seed, deltas, up, log>>

(* handleConnected, KickResync, and of a group that is new events.         *)
(* JoinedGroup or create_group, of which one at a time is followed.        *)
Seeders == {"connect", "resync", "new"}

Resting == [at |-> "idle", snap |-> {}, left |-> {}, prunes |-> TRUE]
Seed == [at : {"idle", "fetch", "write", "prune"}, snap : SUBSET People, left : SUBSET People,
         prunes : BOOLEAN]
Delta == [who : People, joins : BOOLEAN]

(* crossed: people who moved while an older snapshot or event of them was  *)
(* still being applied.  dirty: events or writes have been lost since the  *)
(* last seeding that went well; soiled: since the one under way began.     *)
Log == [crossed : SUBSET People, dirty : BOOLEAN, soiled : BOOLEAN,
        moves : 0..MaxMoves, failures : 0..MaxFailures, resets : 0..MaxResets]

Seeding == {s \in Seeders : seed[s].at # "idle"}
Applying == {s \in Seeders : seed[s].at \in {"write", "prune"}}
Joining == seed["new"].at # "idle" /\ seed["new"].prunes
Announced == {deltas[i].who : i \in DOMAIN deltas}
Soil(l) == [l EXCEPT !.dirty = TRUE, !.soiled = TRUE]
Lapse(l) == [Soil(l) EXCEPT !.failures = @ + 1]

-----------------------------------------------------------------------------
(* WhatsApp                                                                *)

(* Somebody joins or leaves; nobody tells a gateway that is down.          *)
Move(p) ==
    /\ p # Host /\ log.moves < MaxMoves
    /\ members' = IF p \in members THEN members \ {p} ELSE members \cup {p}
    /\ deltas' = IF up THEN Append(deltas, [who |-> p, joins |-> p \notin members]) ELSE deltas
    /\ LET crossing == Applying # {} \/ p \in Announced
           moved == [log EXCEPT !.moves = @ + 1, !.crossed = IF crossing THEN @ \cup {p} ELSE @]
       IN  log' = IF crossing \/ ~up THEN Soil(moved) ELSE moved
    /\ UNCHANGED <<rows, seed, up>>

Disconnect ==
    /\ up /\ seed["connect"].at = "idle"
    /\ up' = FALSE
    /\ deltas' = <<>>
    /\ log' = IF deltas = <<>> THEN log ELSE Soil(log)
    /\ UNCHANGED <<members, rows, seed>>

(* handleConnected starts with asking for the groups.                      *)
HandleConnected ==
    /\ ~up
    /\ up' = TRUE
    /\ seed' = [seed EXCEPT !["connect"].at = "fetch"]
    /\ UNCHANGED <<members, rows, deltas, log>>

(* A reset empties the table; KickResync asks for the groups again.        *)
ResetMembers ==
    /\ log.resets < MaxResets /\ seed["resync"].at = "idle"
    /\ rows' = {}
    /\ seed' = IF up THEN [seed EXCEPT !["resync"].at = "fetch"] ELSE seed
    /\ log' = Soil([log EXCEPT !.resets = @ + 1])
    /\ UNCHANGED <<members, deltas, up>>

(* handleGroupInfoChange, one event after another; a refused write is only *)
(* logged.                                                                 *)
After(d) == IF d.joins THEN rows \cup {d.who} ELSE rows \ {d.who}

HandleGroupInfoChange ==
    /\ deltas # <<>> /\ ~Joining
    /\ rows' = After(Head(deltas))
    /\ deltas' = Tail(deltas)
    /\ UNCHANGED <<members, seed, up, log>>

HandleGroupInfoFails ==
    /\ deltas # <<>> /\ ~Joining /\ log.failures < MaxFailures
    /\ deltas' = Tail(deltas)
    /\ log' = Lapse(log)
    /\ UNCHANGED <<members, rows, seed, up>>

-----------------------------------------------------------------------------
(* seedGroups                                                              *)

Begin(s, snapshot, prunes) ==
    seed' = [seed EXCEPT ![s] = [at |-> "write", snap |-> snapshot, left |-> snapshot,
                                 prunes |-> prunes]]

(* The groups as they are; what older events did is put right by this one, *)
(* unless another seeding is at it or they are still to come.              *)
GetJoinedGroups(s) ==
    /\ up /\ seed[s].at = "fetch"
    /\ Begin(s, members, TRUE)
    /\ log' = IF Applying = {} /\ deltas = <<>>
              THEN [log EXCEPT !.crossed = {}, !.soiled = FALSE] ELSE log
    /\ UNCHANGED <<members, rows, deltas, up>>

(* A partial answer: nobody is in the group.                               *)
GetJoinedGroupsMalformed(s) ==
    /\ up /\ seed[s].at = "fetch" /\ log.failures < MaxFailures
    /\ Begin(s, {}, TRUE)
    /\ log' = Lapse(log)
    /\ UNCHANGED <<members, rows, deltas, up>>

GetJoinedGroupsFails(s) ==
    /\ seed[s].at = "fetch" /\ (~up \/ log.failures < MaxFailures)
    /\ seed' = [seed EXCEPT ![s] = Resting]
    /\ log' = IF up THEN Lapse(log) ELSE Soil(log)
    /\ UNCHANGED <<members, rows, deltas, up>>

(* A group that is new to the table: the event that it was joined seeds it *)
(* from what it carries, create_group from WhatsApp's answer to it, which  *)
(* does not prune.                                                         *)
SeedNewGroup(joined) ==
    /\ up /\ rows = {} /\ seed["new"].at = "idle"
    /\ Begin("new", members, joined)
    /\ UNCHANGED <<members, rows, deltas, up, log>>

(* UpsertGroupMember.  The list kept for pruning is WhatsApp's own; the    *)
(* mutant keeps those who could be written.                                *)
KeptIfWritten(snap, p, ok) == IF ok THEN snap ELSE snap \ {p}
Kept(snap, p, ok) == snap

UpsertGroupMember(s, p) ==
    /\ seed[s].at = "write" /\ p \in seed[s].left
    /\ seed' = [seed EXCEPT ![s].left = @ \ {p}]
    /\ rows' = rows \cup {p}
    /\ UNCHANGED <<members, deltas, up, log>>

UpsertFails(s, p) ==
    /\ seed[s].at = "write" /\ p \in seed[s].left /\ log.failures < MaxFailures
    /\ seed' = [seed EXCEPT ![s].left = @ \ {p}, ![s].snap = Kept(@, p, FALSE)]
    /\ log' = Lapse(log)
    /\ UNCHANGED <<members, rows, deltas, up>>

(* ReconcileGroupMembers refuses an empty list; the mutant refuses any.    *)
TrustedNever(snap) == FALSE
Trusted(snap) == snap # {}

Departed(snap) == rows \ snap

ReconcileGroupMembers(s) ==
    /\ seed[s].at = "write" /\ seed[s].left = {}
    /\ seed' = IF seed[s].prunes /\ Trusted(seed[s].snap)
               THEN [seed EXCEPT ![s].at = "prune", ![s].left = Departed(seed[s].snap)]
               ELSE [seed EXCEPT ![s] = Resting]
    /\ UNCHANGED <<members, rows, deltas, up, log>>

RemoveGroupMember(s, p) ==
    /\ seed[s].at = "prune" /\ p \in seed[s].left
    /\ seed' = [seed EXCEPT ![s].left = @ \ {p}]
    /\ rows' = rows \ {p}
    /\ UNCHANGED <<members, deltas, up, log>>

(* The first removal that is refused ends the pruning.                     *)
RemoveFails(s) ==
    /\ seed[s].at = "prune" /\ seed[s].left # {} /\ log.failures < MaxFailures
    /\ seed' = [seed EXCEPT ![s] = Resting]
    /\ log' = Lapse(log)
    /\ UNCHANGED <<members, rows, deltas, up>>

Reconciled(s) ==
    /\ seed[s].at = "prune" /\ seed[s].left = {}
    /\ seed' = [seed EXCEPT ![s] = Resting]
    /\ log' = [log EXCEPT !.dirty = log.soiled]
    /\ UNCHANGED <<members, rows, deltas, up>>

-----------------------------------------------------------------------------
RosterInit ==
    /\ members \in {S \in SUBSET People : Host \in S} /\ rows = {} /\ deltas = <<>> /\ up = FALSE
    /\ seed = [s \in Seeders |-> Resting]
    /\ log = [crossed |-> {}, dirty |-> TRUE, soiled |-> TRUE, moves |-> 0, failures |-> 0, resets |-> 0]

Apply(s) ==
    \/ (\E p \in People : UpsertGroupMember(s, p) \/ RemoveGroupMember(s, p))
    \/ ReconcileGroupMembers(s) \/ Reconciled(s)

RosterNext ==
    \/ \E p \in People : Move(p)
    \/ Disconnect \/ HandleConnected \/ ResetMembers
    \/ HandleGroupInfoChange \/ HandleGroupInfoFails
    \/ \E joined \in BOOLEAN : SeedNewGroup(joined)
    \/ \E s \in Seeders :
          \/ GetJoinedGroups(s) \/ GetJoinedGroupsMalformed(s) \/ GetJoinedGroupsFails(s)
          \/ Apply(s) \/ RemoveFails(s) \/ \E p \in People : UpsertFails(s, p)

(* Local writes end, the connection comes back and, coming back, sooner or *)
(* later lasts long enough to be asked for the groups.                     *)
RosterFairness ==
    /\ WF_rosterVars(HandleConnected) /\ WF_rosterVars(HandleGroupInfoChange)
    /\ SF_rosterVars(GetJoinedGroups("connect"))
    /\ \A s \in Seeders : WF_rosterVars(Apply(s))

RosterSpec == RosterInit /\ [][RosterNext]_rosterVars /\ RosterFairness

-----------------------------------------------------------------------------
(* Properties                                                              *)

RosterTypeOK ==
    /\ members \subseteq People /\ rows \subseteq People
    /\ seed \in [Seeders -> Seed] /\ deltas \in Seq(Delta) /\ up \in BOOLEAN /\ log \in Log
    /\ \A s \in Seeders : seed[s].at = "prune" => seed[s].left \cap seed[s].snap = {}

(* A member is never pruned by a partial answer or because writing it had  *)
(* failed: whoever is removed has left, or moved while an older snapshot   *)
(* or event was being applied, or went with everybody in a reset.          *)
MembersStay ==
    [][\A p \in rows \ rows' : p \notin members \/ p \in log.crossed \/ log'.resets # log.resets]_rosterVars

(* When all is applied and nothing was lost, refused or crossed since a    *)
(* seeding that went well, the table is the group.                         *)
RosterRight == Seeding = {} /\ deltas = <<>> /\ ~log.dirty => rows = members

RosterSafe == RosterTypeOK /\ RosterRight

(* What was lost does not stay lost: if the connection comes and goes for  *)
(* ever, the table is the group in the end, the long departed included.    *)
RosterHeals == []<>~up /\ []<>up => <>[](rows = members)
=============================================================================
