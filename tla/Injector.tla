------------------------------- MODULE Injector -------------------------------
(***************************************************************************)
(* CleverInjector, capipush/clever_injector.go: one antenna's credential,  *)
(* the session negotiated for it, and the calls of Inject that use both.   *)
(* The sweep, a ping of the dashboard and one of send_to_boss may be       *)
(* inside Inject at once, while the owner rewires the antenna: the lock is *)
(* held for each look at the fields, never over a request.                 *)
(***************************************************************************)
EXTENDS Naturals, FiniteSets

CONSTANTS
    Callers,      \* goroutines that may be inside Inject at once
    Antennas,     \* a terminal's antenna as switched on: host, id and pinpass
    NoAntenna,    \* no credential: an empty endpoint
    Hosts, HostOf(_),  \* where an antenna's terminal runs
    MaxSetConfig, MaxInjects, MaxUpsets  \* bounds: rewirings, messages, upsets of the host

ASSUME InjectorAssumption ==
    /\ NoAntenna \notin Antennas
    /\ \A a \in Antennas : HostOf(a) \in Hosts
    /\ {MaxSetConfig, MaxInjects, MaxUpsets} \subseteq Nat

VARIABLES
    injector,   \* cred (Endpoint, TerminalID, Pinpass), session (token, key), dead
    call,       \* each call of Inject: its step and its snapshot
    host,       \* CleverCoder: what each antenna answers, the sessions it knows
    account     \* history, see Account

injectorVars == <<injector, call, host, account>>

(* A session is known by the antenna that granted it and a number.         *)
Sessions == [of : Antennas, n : 1..(MaxInjects * 2)]
NoSession == [of |-> NoAntenna, n |-> 0]

Steps == {"idle", "handshake", "update", "post", "rehandshake", "reupdate", "repost", "gone"}
Idle == [at |-> "idle", cred |-> NoAntenna, session |-> NoSession]

(* crossed: a SetConfig came while a call was under way, since the last    *)
(* one that did not; late: the calls begun before the last SetConfig;      *)
(* gone: antennas that answered terminal_gone; copies: how often the       *)
(* message of each call reached a terminal.                                *)
Account == [crossed : BOOLEAN, late : SUBSET Callers, gone : SUBSET Antennas,
            copies : [Callers -> 0..2], configs : 0..MaxSetConfig,
            injects : 0..MaxInjects, upsets : 0..MaxUpsets]

InsideInject == {c \in Callers : call[c].at # "idle"}

-----------------------------------------------------------------------------
(* CleverCoder: an antenna is switched off and on, or its id stops being   *)
(* anything; a host that restarts forgets its sessions.                    *)

Upset(newHost) ==
    /\ account.upsets < MaxUpsets
    /\ host' = newHost /\ host' # host
    /\ account' = [account EXCEPT !.upsets = @ + 1]
    /\ UNCHANGED <<injector, call>>

SwitchAntenna(a, answer) ==
    /\ host.answer[a] # "gone"
    /\ Upset([host EXCEPT !.answer[a] = answer,
                          !.known = {s \in @ : s.of = a => answer # "gone"}])

HostRestarts(h) == Upset([host EXCEPT !.known = {s \in @ : HostOf(s.of) # h}])

(* A token is looked up where the request goes, whatever antenna the       *)
(* caller has in mind; what it opens is the terminal it was granted for.   *)
Opens(session, cred) ==
    session \in host.known /\ cred # NoAntenna /\ HostOf(session.of) = HostOf(cred)

-----------------------------------------------------------------------------
(* SetConfig, the whole of it under the lock.                              *)
Rewired(a) == [injector EXCEPT !.cred = a, !.session = NoSession, !.dead = FALSE]

SetConfig(a) ==
    /\ account.configs < MaxSetConfig /\ a # injector.cred
    /\ injector' = Rewired(a)
    /\ account' = [account EXCEPT !.configs = @ + 1, !.late = InsideInject,
                                  !.crossed = InsideInject # {}]
    /\ UNCHANGED <<call, host>>

-----------------------------------------------------------------------------
(* Inject                                                                  *)

GoOn(c, step) == call' = [call EXCEPT ![c].at = step]
Return(c) == call' = [call EXCEPT ![c] = Idle]

Inject(c) ==
    /\ call[c].at = "idle" /\ account.injects < MaxInjects
    /\ call' = [call EXCEPT ![c] =
                  [at |-> IF injector.session = NoSession THEN "handshake" ELSE "post",
                   cred |-> injector.cred, session |-> injector.session]]
    /\ account' = [account EXCEPT !.injects = @ + 1, !.copies[c] = 0, !.late = @ \ {c}]
    /\ UNCHANGED <<injector, host>>

Handshaking(c) == call[c].at \in {"handshake", "rehandshake"}

HandshakeGranted(c) ==
    /\ Handshaking(c) /\ call[c].cred # NoAntenna /\ host.answer[call[c].cred] = "on"
    /\ LET s == [of |-> call[c].cred, n |-> host.issued + 1]
       IN  /\ host' = [host EXCEPT !.issued = @ + 1, !.known = @ \cup {s}]
           /\ call' = [call EXCEPT ![c].session = s,
                          ![c].at = IF @ = "handshake" THEN "update" ELSE "reupdate"]
    /\ UNCHANGED <<injector, account>>

(* No answer, antenna_off or any code but terminal_gone.                   *)
HandshakeFails(c) ==
    /\ Handshaking(c)
    /\ call[c].cred # NoAntenna => host.answer[call[c].cred] # "gone"
    /\ Return(c)
    /\ UNCHANGED <<injector, host, account>>

HandshakeGone(c) ==
    /\ Handshaking(c) /\ call[c].cred # NoAntenna /\ host.answer[call[c].cred] = "gone"
    /\ GoOn(c, "gone")
    /\ account' = [account EXCEPT !.gone = @ \cup {call[c].cred}]
    /\ UNCHANGED <<injector, host>>

MarkDead(c) ==
    /\ call[c].at = "gone"
    /\ injector' = [injector EXCEPT !.dead = TRUE]
    /\ Return(c)
    /\ UNCHANGED <<host, account>>

UpdateSession(c) ==
    /\ call[c].at \in {"update", "reupdate"}
    /\ injector' = [injector EXCEPT !.session = call[c].session]
    /\ GoOn(c, IF call[c].at = "update" THEN "post" ELSE "repost")
    /\ UNCHANGED <<host, account>>

(* What follows an answer: a 401 asks for one new session, anything else   *)
(* is Inject's result.                                                     *)
Retries(step, answer) == step = "post" /\ answer = "unauthorized"

AfterAnswer(c, answer) ==
    IF Retries(call[c].at, answer) THEN GoOn(c, "rehandshake") ELSE Return(c)

PostMessage(c) ==
    /\ call[c].at \in {"post", "repost"}
    /\ \/ ~Opens(call[c].session, call[c].cred) /\ AfterAnswer(c, "unauthorized")
          /\ UNCHANGED account
       \/ /\ Opens(call[c].session, call[c].cred)
          /\ host.answer[call[c].session.of] = "on"
          /\ \E answer \in {"ok", "lost"} : AfterAnswer(c, answer)
          /\ account' = [account EXCEPT !.copies[c] = @ + 1]
       \/ /\ Opens(call[c].session, call[c].cred)
          /\ host.answer[call[c].session.of] = "off"
          /\ AfterAnswer(c, "not found")
          /\ UNCHANGED account
    /\ UNCHANGED <<injector, host>>

-----------------------------------------------------------------------------
InjectorInit ==
    /\ injector \in [cred : Antennas \cup {NoAntenna}, session : {NoSession}, dead : {FALSE}]
    /\ call = [c \in Callers |-> Idle]
    /\ host = [answer |-> [a \in Antennas |-> "on"], known |-> {}, issued |-> 0]
    /\ account = [crossed |-> FALSE, late |-> {}, gone |-> {}, copies |-> [c \in Callers |-> 0],
                  configs |-> 0, injects |-> 0, upsets |-> 0]

InjectorNext ==
    \/ \E a \in Antennas \cup {NoAntenna} : SetConfig(a)
    \/ \E a \in Antennas, answer \in {"on", "off", "gone"} : SwitchAntenna(a, answer)
    \/ \E h \in Hosts : HostRestarts(h)
    \/ \E c \in Callers :
          \/ Inject(c) \/ HandshakeGranted(c) \/ HandshakeFails(c) \/ HandshakeGone(c)
          \/ MarkDead(c) \/ UpdateSession(c) \/ PostMessage(c)

InjectorSpec == InjectorInit /\ [][InjectorNext]_injectorVars

-----------------------------------------------------------------------------
(* Properties                                                              *)

InjectorTypeOK ==
    /\ injector \in [cred : Antennas \cup {NoAntenna}, session : Sessions \cup {NoSession},
                     dead : BOOLEAN]
    /\ \A c \in Callers : /\ call[c].at \in Steps
                          /\ call[c].cred \in Antennas \cup {NoAntenna}
                          /\ call[c].session \in Sessions \cup {NoSession}
    /\ host.answer \in [Antennas -> {"on", "off", "gone"}]
    /\ host.known \subseteq Sessions /\ host.issued \in 0..(MaxInjects * 2)
    /\ account \in Account

(* However often a session lapses, a message of one Inject is not typed    *)
(* twice into a terminal: only a 401 is retried, and only once.            *)
TypedOnce == \A c \in Callers : account.copies[c] <= 1

(* Unless a rewiring crossed a call, the session kept is one the present   *)
(* antenna granted, and a credential is only discarded when the host said  *)
(* that it is gone.                                                        *)
SessionIsOwn ==
    ~account.crossed =>
        /\ injector.session.of \in {injector.cred, NoAntenna}
        /\ injector.dead => injector.cred \in account.gone

InjectorSafe == InjectorTypeOK /\ TypedOnce /\ SessionIsOwn

(* The comment on SetConfig: it forces a new handshake on the next Inject  *)
(* call, and may be called while Inject runs.  A call begun after it would *)
(* then post in a session of the antenna it was given.                     *)
TakesEffect ==
    \A c \in Callers \ account.late :
        call[c].at \in {"post", "repost"} /\ call[c].cred # NoAntenna =>
            call[c].session.of = call[c].cred
=============================================================================
