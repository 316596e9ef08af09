---------------------------- MODULE MCBackground ----------------------------
(* Small instances, for TLC, of what runs beside the turns: Media, Avatars *)
(* and Roster, kept by the WhatsApp adapter, the session of an Injector    *)
(* and the limiter of tool calls.  The five share no state, so a behaviour *)
(* is one of either of them.                                               *)
EXTENDS Media, Avatars, Roster, Injector, FloodGuard

VARIABLE part

all == <<part, vars, avatarVars, rosterVars, injectorVars, guardVars>>

MCChatOf == [m \in Items |-> "chat"]
MCHostOf(a) == "host"

MCInit ==
    /\ part \in {"media", "avatars", "roster", "injector", "guard"}
    /\ Init /\ AvatarInit /\ RosterInit /\ InjectorInit /\ GuardInit
    /\ part # "avatars" => \A j \in Numbers : row[j] = Unchecked
    /\ part # "roster" => members = {Host}
    /\ part # "injector" => injector.cred = NoAntenna

\* Each leaves the others' variables and part alone.
InMedia(A) == part = "media" /\ A /\ UNCHANGED <<part, avatarVars, rosterVars, injectorVars, guardVars>>
InAvatars(A) == part = "avatars" /\ A /\ UNCHANGED <<part, vars, rosterVars, injectorVars, guardVars>>
InRoster(A) == part = "roster" /\ A /\ UNCHANGED <<part, vars, avatarVars, injectorVars, guardVars>>
InInjector(A) == part = "injector" /\ A /\ UNCHANGED <<part, vars, avatarVars, rosterVars, guardVars>>
InGuard(A) == part = "guard" /\ A /\ UNCHANGED <<part, vars, avatarVars, rosterVars, injectorVars>>

(* Each with its own invariants.                                           *)
BackgroundSafe == MediaSafe /\ AvatarSafe /\ RosterSafe /\ InjectorSafe /\ GuardSafe

MCNext ==
    \/ InMedia(Next) \/ InAvatars(AvatarNext) \/ InRoster(RosterNext)
    \/ InInjector(InjectorNext) \/ InGuard(GuardNext)

(* The fairness of each, in its own behaviours.  Strong fairness is asked  *)
(* of one action of each, and of one more of Avatars: since part never     *)
(* changes, one formula does for three.                                    *)
Other == CHOOSE j \in Numbers : j # OwnNumber

MCSpec ==
    /\ MCInit /\ [][MCNext]_all
    /\ SF_all(\/ InMedia(NextMediaPending)
              \/ InAvatars(RequestAvatar(OwnNumber))
              \/ InRoster(GetJoinedGroups("connect")))
    /\ SF_all(InAvatars(RequestAvatar(Other)))
    /\ \A w \in Workers : WF_all(InMedia(Fetch(w)))
    /\ \A j \in Numbers : WF_all(InAvatars(WindowPasses(j)))
    /\ WF_all(InAvatars(Dequeue \/ Checking \/ Answered \/ InvalidateWrite))
    /\ WF_all(InRoster(HandleConnected))
    /\ WF_all(InRoster(HandleGroupInfoChange))
    /\ \A s \in Seeders : WF_all(InRoster(Apply(s)))
=============================================================================
