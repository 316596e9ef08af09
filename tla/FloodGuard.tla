------------------------------ MODULE FloodGuard ------------------------------
(***************************************************************************)
(* The limiter of tool calls, mcpguard/mcpguard.go, and the middleware     *)
(* that asks it before every tool, mcpserver/floodguard.go: two token      *)
(* buckets per MCP session, and a block for whoever keeps calling when     *)
(* told to slow down.                                                      *)
(*                                                                         *)
(* Time is counted in ticks.  A bucket is refilled at each tick instead of *)
(* at the next call, which is the same as long as it is capped each time;  *)
(* tokens are kept times Minute, so that a tick adds a whole number.       *)
(***************************************************************************)
EXTENDS Integers

CONSTANTS
    Clients,              \* MCP sessions; unknownKey is one more of them
    RatePerMin, EmitRatePerMin, BlockThreshold, BlockCooldown,  \* New's Config
    ClientStaleAfter,     \* ticks after which an idle client is forgotten
    Minute                \* ticks to the minute

(* An idle client is remembered for an hour, a minute at the very least.   *)
ASSUME GuardAssumption ==
    /\ {RatePerMin, EmitRatePerMin, BlockThreshold, BlockCooldown, ClientStaleAfter, Minute}
          \subseteq Nat \ {0}
    /\ Minute <= ClientStaleAfter + 1

VARIABLES
    entry,    \* clients: the two buckets, the streak, the block, the idle time
    ledger    \* history, see Ledger

guardVars == <<entry, ledger>>

Entry == [general : 0..(RatePerMin * Minute), emit : 0..(EmitRatePerMin * Minute),
          throttleHits : 0..BlockThreshold, blocked : 0..BlockCooldown,
          idle : 0..(ClientStaleAfter + 1)]
NoEntry == [none |-> TRUE]
NewEntry == [general |-> RatePerMin * Minute, emit |-> EmitRatePerMin * Minute,
             throttleHits |-> 0, blocked |-> 0, idle |-> 0]

(* calls, emits: what was served in the last i ticks, the present one      *)
(* among them; sentence: ticks that a block has still to run, whatever     *)
(* became of the entry; quiet: ticks since the last call.                  *)
Ledger == [calls : [1..Minute -> Nat], emits : [1..Minute -> Nat],
           sentence : 0..BlockCooldown, quiet : 0..(ClientStaleAfter + 1)]
Blank == [calls |-> [i \in 1..Minute |-> 0], emits |-> [i \in 1..Minute |-> 0],
          sentence |-> 0, quiet |-> ClientStaleAfter + 1]

Tracked == {k \in Clients : entry[k] # NoEntry}
AtMost(max, n) == IF n > max THEN max ELSE n
LessOne(n) == IF n = 0 THEN 0 ELSE n - 1

-----------------------------------------------------------------------------
(* Time: bucket.allow's refill, and what the deadlines lose.               *)
Refilled(tokens, max) == AtMost(max * Minute, tokens + max)

Aged(e) ==
    [e EXCEPT !.general = Refilled(@, RatePerMin), !.emit = Refilled(@, EmitRatePerMin),
              !.blocked = LessOne(@), !.idle = AtMost(ClientStaleAfter + 1, @ + 1)]

Slid(served) == [i \in 1..Minute |-> IF i = 1 THEN 0 ELSE served[i - 1]]
OneMore(served) == [i \in 1..Minute |-> served[i] + 1]

Tick ==
    /\ entry' = [k \in Clients |-> IF k \in Tracked THEN Aged(entry[k]) ELSE NoEntry]
    /\ ledger' = [k \in Clients |->
          [ledger[k] EXCEPT !.calls = Slid(@), !.emits = Slid(@), !.sentence = LessOne(@),
                            !.quiet = AtMost(ClientStaleAfter + 1, @ + 1)]]

-----------------------------------------------------------------------------
(* Check                                                                   *)

(* sweepLocked, at every call: of the caller's own entry too.              *)
Swept == [k \in Clients |->
            IF k \in Tracked /\ entry[k].idle > ClientStaleAfter THEN NoEntry ELSE entry[k]]

Found(k) == IF Swept[k] = NoEntry THEN NewEntry ELSE [Swept[k] EXCEPT !.idle = 0]

HasToken(tokens) == tokens >= Minute

(* The general token is spent although the emit bucket then refuses.       *)
Spend(e, emit) ==
    IF ~HasToken(e.general) THEN e
    ELSE [e EXCEPT !.general = @ - Minute,
                   !.emit = IF emit /\ HasToken(@) THEN @ - Minute ELSE @]

Passes(e, emit) == HasToken(e.general) /\ (emit => HasToken(e.emit))

(* blockThreshold refusals in a row trip the breaker.                      *)
Tripped(e) ==
    IF e.throttleHits + 1 >= BlockThreshold
    THEN [e EXCEPT !.blocked = BlockCooldown, !.throttleHits = 0]
    ELSE [e EXCEPT !.throttleHits = @ + 1]

Checked(k, e, l) ==
    /\ entry' = [Swept EXCEPT ![k] = e]
    /\ ledger' = [ledger EXCEPT ![k] = [l EXCEPT !.quiet = 0]]

(* The sentence of a client that kept quiet for so long is over.           *)
Record(k) ==
    [ledger[k] EXCEPT !.sentence = IF ledger[k].quiet > ClientStaleAfter THEN 0 ELSE @]

Served(k, emit) ==
    /\ Found(k).blocked = 0 /\ Passes(Found(k), emit)
    /\ Checked(k, [Spend(Found(k), emit) EXCEPT !.throttleHits = 0],
               [Record(k) EXCEPT !.calls = OneMore(@), !.emits = IF emit THEN OneMore(@) ELSE @])

Throttled(k, emit) ==
    /\ Found(k).blocked = 0 /\ ~Passes(Found(k), emit)
    /\ LET e == Tripped(Spend(Found(k), emit))
       IN  Checked(k, e, [Record(k) EXCEPT !.sentence = IF e.blocked > 0 THEN e.blocked ELSE @])

Blocked(k) ==
    /\ Found(k).blocked > 0
    /\ Checked(k, Found(k), Record(k))

-----------------------------------------------------------------------------
GuardInit ==
    /\ entry = [k \in Clients |-> NoEntry]
    /\ ledger = [k \in Clients |-> Blank]

GuardNext ==
    \/ Tick
    \/ \E k \in Clients :
          \/ Blocked(k)
          \/ \E emit \in BOOLEAN : Served(k, emit) \/ Throttled(k, emit)

GuardSpec == GuardInit /\ [][GuardNext]_guardVars /\ WF_guardVars(Tick)

-----------------------------------------------------------------------------
(* Properties                                                              *)

GuardTypeOK ==
    /\ entry \in [Clients -> Entry \cup {NoEntry}]
    /\ ledger \in [Clients -> Ledger]

(* In no minute is a client served more than a full bucket and a minute's  *)
(* refill, idle or forgotten as it may have been before.                   *)
Paced ==
    \A k \in Clients :
        /\ ledger[k].calls[Minute] <= 2 * RatePerMin
        /\ ledger[k].emits[Minute] <= 2 * EmitRatePerMin

(* A block is served to its end: no call passes before, unless the client  *)
(* kept quiet for so long that it was forgotten, which a cooldown longer   *)
(* than ClientStaleAfter allows.                                           *)
BlockHolds ==
    \A k \in Clients :
        ledger[k].sentence > 0 /\ ledger[k].quiet <= ClientStaleAfter =>
            k \in Tracked /\ entry[k].blocked = ledger[k].sentence

GuardSafe == GuardTypeOK /\ Paced /\ BlockHolds
=============================================================================
