-------------------------- MODULE Background_proofs --------------------------
(* What runs beside the turns keeps its word, whatever the numbers of      *)
(* people, photos, attachments, calls and clients.                         *)
EXTENDS MCBackground, FiniteSetTheorems, WellFoundedInduction, TLAPS

(***************************************************************************)
(* Who is in a group (Roster)                                              *)
(***************************************************************************)
Settled(p) == (p \in rows) = (p \in members) \/ p \in Announced

(* Nobody tells of the host, and nobody tells a gateway that is down; what *)
(* is told of somebody is so, or they moved again meanwhile.               *)
Told ==
    /\ Host \in members /\ Host \notin Announced
    /\ ~up => deltas = <<>>
    /\ \A i \in DOMAIN deltas :
          deltas[i].joins = (deltas[i].who \in members) \/ deltas[i].who \in log.crossed

(* A snapshot being applied lacks only members who crossed it, or is the   *)
(* empty one, which prunes nobody.                                         *)
Snapped ==
    \A s \in Applying :
        /\ seed[s].snap # {} => members \ seed[s].snap \subseteq log.crossed
        /\ seed[s].at = "prune" => seed[s].snap # {}
        /\ seed[s].at = "write" => seed[s].left \subseteq seed[s].snap

(* While nothing is lost, refused or crossed, whatever is applied is the   *)
(* group as it is, and what has been written of it is in the table.        *)
Faithful ==
    ~log.soiled =>
        /\ ~log.dirty => \A p \in People : Settled(p)
        /\ \A i \in DOMAIN deltas : deltas[i].joins = (deltas[i].who \in members)
        /\ \A s \in Applying :
              /\ seed[s].snap = members
              /\ seed[s].at = "write" =>
                    \A p \in members \ seed[s].left : p \in rows \/ p \in Announced
              /\ seed[s].at = "prune" =>
                    \A p \in People \ seed[s].left : Settled(p)

RosterInv == RosterTypeOK /\ Told /\ Snapped /\ (log.soiled => log.dirty) /\ Faithful

-----------------------------------------------------------------------------
(* What is in the history is in it after a step as well, and every field   *)
(* is what the step says.                                                  *)
LEMMA SoilKeeps ==
    ASSUME NEW l \in Log
    PROVE  /\ Soil(l) \in Log
           /\ Soil(l).dirty /\ Soil(l).soiled /\ Soil(l).crossed = l.crossed
           /\ Soil(l).failures = l.failures /\ Soil(l).moves = l.moves /\ Soil(l).resets = l.resets
BY DEF Soil, Log

LEMMA LapseKeeps ==
    ASSUME NEW l \in Log, l.failures < MaxFailures
    PROVE  /\ Lapse(l) \in Log
           /\ Lapse(l).dirty /\ Lapse(l).soiled /\ Lapse(l).crossed = l.crossed
           /\ Lapse(l).resets = l.resets
<1>1. Soil(l) \in Log /\ Soil(l).failures = l.failures
  BY SoilKeeps
<1>2. PICK k \in Log : k = Soil(l)
  BY <1>1
<1>3. Lapse(l) = [k EXCEPT !.failures = k.failures + 1]
  BY <1>2 DEF Lapse
<1>4. k.failures + 1 \in 0..MaxFailures
  BY <1>1, <1>2, RosterAssumption DEF Log
<1>5. /\ Lapse(l) \in Log
      /\ Lapse(l).dirty = k.dirty /\ Lapse(l).soiled = k.soiled
      /\ Lapse(l).crossed = k.crossed /\ Lapse(l).resets = k.resets
  BY <1>3, <1>4 DEF Log
<1> QED  BY <1>2, <1>5, SoilKeeps

(* The events on their way, one more of them or one fewer.                 *)
LEMMA DeltaSent ==
    ASSUME NEW d \in Delta, deltas \in Seq(Delta), deltas' = Append(deltas, d)
    PROVE  /\ deltas' \in Seq(Delta)
           /\ \A i \in DOMAIN deltas' : deltas'[i] = d \/ (i \in DOMAIN deltas /\ deltas'[i] = deltas[i])
           /\ Announced' = Announced \cup {d.who}
<1>1. deltas' \in Seq(Delta) /\ Len(deltas') = Len(deltas) + 1 /\ Len(deltas) \in Nat
  OBVIOUS
<1>2. DOMAIN deltas' = 1..(Len(deltas) + 1) /\ DOMAIN deltas = 1..Len(deltas)
  BY <1>1
<1>3. \A i \in DOMAIN deltas : deltas'[i] = deltas[i]
  BY <1>1, <1>2
<1>4. deltas'[Len(deltas) + 1] = d
  BY <1>1
<1>5. \A i \in DOMAIN deltas' : i = Len(deltas) + 1 \/ i \in DOMAIN deltas
  BY <1>1, <1>2
<1>6. Announced' = Announced \cup {d.who}
  <2>1. Announced' = {deltas'[i].who : i \in DOMAIN deltas'}
    BY DEF Announced
  <2>2. ASSUME NEW i \in DOMAIN deltas' PROVE deltas'[i].who \in Announced \cup {d.who}
    BY <1>3, <1>4, <1>5 DEF Announced
  <2>3. ASSUME NEW i \in DOMAIN deltas PROVE deltas[i].who \in Announced'
    BY <1>2, <1>3, <1>1, <2>1
  <2>4. d.who \in Announced'
    BY <1>2, <1>4, <1>1, <2>1
  <2>5. Announced' \subseteq Announced \cup {d.who}
    BY <2>1, <2>2
  <2>6. Announced \subseteq Announced'
    BY <2>3 DEF Announced
  <2> QED  BY <2>4, <2>5, <2>6
<1> QED  BY <1>1, <1>3, <1>4, <1>5, <1>6

LEMMA DeltaHandled ==
    ASSUME deltas \in Seq(Delta), deltas # <<>>, deltas' = Tail(deltas)
    PROVE  /\ deltas' \in Seq(Delta) /\ Head(deltas) \in Delta
           /\ 1 \in DOMAIN deltas /\ deltas[1] = Head(deltas)
           /\ \A i \in DOMAIN deltas' : i + 1 \in DOMAIN deltas /\ deltas'[i] = deltas[i + 1]
           /\ Announced' \subseteq Announced
           /\ Announced \subseteq Announced' \cup {Head(deltas).who}
<1>1. deltas' \in Seq(Delta) /\ Len(deltas') = Len(deltas) - 1 /\ Len(deltas) \in Nat /\ Len(deltas) > 0
  OBVIOUS
<1>2. DOMAIN deltas' = 1..(Len(deltas) - 1) /\ DOMAIN deltas = 1..Len(deltas)
  BY <1>1
<1>3. \A i \in 1..(Len(deltas) - 1) : i + 1 \in 1..Len(deltas) /\ deltas'[i] = deltas[i + 1]
  BY <1>1
<1>4. \A i \in DOMAIN deltas : i = 1 \/ (i - 1 \in DOMAIN deltas' /\ deltas'[i - 1] = deltas[i])
  BY <1>1, <1>2
<1>5. 1 \in DOMAIN deltas /\ deltas[1] = Head(deltas) /\ Head(deltas) \in Delta
  BY <1>1, <1>2
<1>6. ASSUME NEW i \in DOMAIN deltas' PROVE deltas'[i].who \in Announced
  BY <1>2, <1>3 DEF Announced
<1>7. ASSUME NEW i \in DOMAIN deltas PROVE deltas[i].who \in Announced' \cup {Head(deltas).who}
  BY <1>4, <1>5 DEF Announced
<1> QED  BY <1>1, <1>2, <1>3, <1>5, <1>6, <1>7 DEF Announced

-----------------------------------------------------------------------------
LEMMA RosterStart == RosterInit => RosterInv
<1> SUFFICES ASSUME RosterInit PROVE RosterInv
  OBVIOUS
<1> USE RosterAssumption DEF RosterInit
<1>1. RosterTypeOK
  <2>1. Resting \in Seed /\ Resting.at # "prune"
    BY DEF Seed, Resting
  <2>2. seed \in [Seeders -> Seed] /\ \A s \in Seeders : seed[s].at # "prune"
    BY <2>1
  <2>3. members \subseteq People /\ rows \subseteq People /\ up \in BOOLEAN
    OBVIOUS
  <2>4. deltas \in Seq(Delta)
    OBVIOUS
  <2>5. 0 \in 0..MaxMoves /\ 0 \in 0..MaxFailures /\ 0 \in 0..MaxResets
    OBVIOUS
  <2>6. log \in Log
    BY <2>5 DEF Log
  <2> QED  BY <2>2, <2>3, <2>6, <2>4 DEF RosterTypeOK
<1>2. Announced = {}
  BY DEF Announced
<1>3. Applying = {}
  BY DEF Applying, Resting
<1> QED  BY <1>1, <1>2, <1>3 DEF RosterInv, Told, Snapped, Faithful

(* The seedings of the others are left alone.                              *)
LEMMA SeedSet ==
    ASSUME RosterTypeOK, NEW s \in Seeders, NEW r \in Seed,
           r.at = "prune" => r.left \cap r.snap = {},
           seed' = [seed EXCEPT ![s] = r]
    PROVE  /\ seed' \in [Seeders -> Seed] /\ seed'[s] = r
           /\ \A t \in Seeders : t # s => seed'[t] = seed[t]
           /\ \A t \in Seeders : seed'[t].at = "prune" => seed'[t].left \cap seed'[t].snap = {}
BY DEF RosterTypeOK

LEMMA RosterFrame ==
    ASSUME UNCHANGED deltas
    PROVE  Announced' = Announced
BY DEF Announced

-----------------------------------------------------------------------------
(* WhatsApp: somebody moves, the connection goes and comes.                *)
LEMMA MoveKeeps ==
    ASSUME RosterInv, NEW p \in People, Move(p)
    PROVE  RosterInv'
<1> DEFINE crossing == Applying # {} \/ p \in Announced
           d == [who |-> p, joins |-> p \notin members]
<1>1. /\ RosterTypeOK /\ p # Host /\ log.moves < MaxMoves
      /\ members' = IF p \in members THEN members \ {p} ELSE members \cup {p}
      /\ deltas' = IF up THEN Append(deltas, d) ELSE deltas
      /\ rows' = rows /\ seed' = seed /\ up' = up
  BY DEF RosterInv, Move
<1>2. /\ log' \in Log
      /\ log'.dirty = (log.dirty \/ crossing \/ ~up) /\ log'.soiled = (log.soiled \/ crossing \/ ~up)
      /\ log'.crossed = IF crossing THEN log.crossed \cup {p} ELSE log.crossed
      /\ log'.resets = log.resets
  <2> DEFINE moved == [log EXCEPT !.moves = @ + 1, !.crossed = IF crossing THEN @ \cup {p} ELSE @]
  <2>1. moved \in Log /\ moved.dirty = log.dirty /\ moved.soiled = log.soiled
        /\ moved.resets = log.resets
        /\ moved.crossed = IF crossing THEN log.crossed \cup {p} ELSE log.crossed
    <3>1. log \in Log /\ log.moves + 1 \in 0..MaxMoves
      BY <1>1, RosterAssumption DEF RosterTypeOK, Log
    <3>2. PICK x \in SUBSET People : x = IF crossing THEN log.crossed \cup {p} ELSE log.crossed
      BY <3>1 DEF Log
    <3>3. moved = [log EXCEPT !.moves = log.moves + 1, !.crossed = x]
      BY <3>2
    <3> QED  BY <3>1, <3>2, <3>3 DEF Log
  <2>2. log' = IF crossing \/ ~up THEN Soil(moved) ELSE moved
    BY DEF Move
  <2> HIDE DEF moved
  <2>3. CASE crossing \/ ~up
    BY <2>1, <2>2, <2>3, SoilKeeps
  <2>4. CASE ~(crossing \/ ~up)
    <3>1. log.dirty \in BOOLEAN /\ log.soiled \in BOOLEAN
      BY <1>1 DEF RosterTypeOK, Log
    <3> QED  BY <2>1, <2>2, <2>4, <3>1
  <2> QED  BY <2>3, <2>4
<1>3. d \in Delta /\ d.who = p /\ d.joins = (p \in members')
  BY <1>1 DEF Delta
<1>4. deltas \in Seq(Delta) /\ (up => deltas' = Append(deltas, d)) /\ (~up => deltas' = deltas)
  BY <1>1 DEF RosterTypeOK
<1> HIDE DEF d
<1>5. /\ deltas' \in Seq(Delta)
      /\ \A i \in DOMAIN deltas' :
            (up /\ deltas'[i] = d) \/ (i \in DOMAIN deltas /\ deltas'[i] = deltas[i])
      /\ Announced' = IF up THEN Announced \cup {p} ELSE Announced
  <2>1. CASE up
    BY <1>3, <1>4, <2>1, DeltaSent
  <2>2. CASE ~up
    BY <1>4, <2>2, RosterFrame
  <2> QED  BY <2>1, <2>2
<1>6. RosterTypeOK'
  BY <1>1, <1>2, <1>5 DEF RosterTypeOK
<1>7. \A i \in DOMAIN deltas : deltas[i].who \in Announced /\ deltas[i].who \in People
  <2>1. \A i \in DOMAIN deltas : deltas[i] \in Delta
    BY <1>4
  <2> QED  BY <2>1 DEF Announced, Delta
<1>8. Told'
  <2>1. Told
    BY DEF RosterInv
  <2>2. Host \in members' /\ Host \notin Announced'
    BY <1>1, <1>5, <2>1 DEF Told
  <2>3. ~up' => deltas' = <<>>
    BY <1>1, <1>4, <2>1 DEF Told
  <2>4. ASSUME NEW i \in DOMAIN deltas'
        PROVE  deltas'[i].joins = (deltas'[i].who \in members') \/ deltas'[i].who \in log'.crossed
    <3>1. CASE deltas'[i] = d
      BY <1>3, <3>1
    <3>2. CASE i \in DOMAIN deltas /\ deltas'[i] = deltas[i] /\ deltas[i].who = p
      BY <1>2, <1>7, <3>2
    <3>3. CASE i \in DOMAIN deltas /\ deltas'[i] = deltas[i] /\ deltas[i].who # p
      <4>1. (deltas[i].who \in members') = (deltas[i].who \in members)
        BY <1>1, <3>3
      <4> QED  BY <1>2, <2>1, <3>3, <4>1 DEF Told
    <3> QED  BY <1>5, <3>1, <3>2, <3>3
  <2> QED  BY <2>2, <2>3, <2>4 DEF Told
<1>9. Applying' = Applying
  BY <1>1 DEF Applying
<1>10. Snapped'
  <2> SUFFICES ASSUME NEW s \in Applying
               PROVE  /\ seed[s].snap # {} => members' \ seed[s].snap \subseteq log'.crossed
                      /\ seed[s].at = "prune" => seed[s].snap # {}
                      /\ seed[s].at = "write" => seed[s].left \subseteq seed[s].snap
    BY <1>1, <1>9 DEF Snapped
  <2>1. log'.crossed = log.crossed \cup {p}
    BY <1>2
  <2>2. members' \subseteq members \cup {p}
    BY <1>1
  <2> QED  BY <2>1, <2>2 DEF RosterInv, Snapped
<1>11. log'.soiled => log'.dirty
  BY <1>2 DEF RosterInv
<1>12. Faithful'
  <2> SUFFICES ASSUME ~log'.soiled PROVE Faithful'
    BY DEF Faithful
  <2>1. ~log.soiled /\ Applying = {} /\ p \notin Announced /\ up
    BY <1>2
  <2>2. ASSUME ~log'.dirty, NEW q \in People PROVE Settled(q)'
    <3>1. Settled(q)
      BY <1>2, <2>1, <2>2 DEF RosterInv, Faithful
    <3> QED  BY <1>1, <1>5, <2>1, <3>1 DEF Settled
  <2>3. ASSUME NEW i \in DOMAIN deltas' PROVE deltas'[i].joins = (deltas'[i].who \in members')
    <3>1. CASE deltas'[i] = d
      BY <1>3, <3>1
    <3>2. CASE i \in DOMAIN deltas /\ deltas'[i] = deltas[i]
      <4>1. deltas[i].who # p /\ deltas[i].joins = (deltas[i].who \in members)
        BY <1>7, <2>1, <3>2 DEF RosterInv, Faithful
      <4>2. (deltas[i].who \in members') = (deltas[i].who \in members)
        BY <1>1, <4>1
      <4> QED  BY <3>2, <4>1, <4>2
    <3> QED  BY <1>5, <3>1, <3>2
  <2> QED  BY <1>9, <2>1, <2>2, <2>3 DEF Faithful
<1> QED  BY <1>6, <1>8, <1>10, <1>11, <1>12 DEF RosterInv

LEMMA LinkKeeps ==
    ASSUME RosterInv, Disconnect \/ HandleConnected
    PROVE  RosterInv'
<1>1. CASE Disconnect
  <2>1. /\ up' = FALSE /\ deltas' = <<>> /\ members' = members /\ rows' = rows /\ seed' = seed
        /\ log' = IF deltas = <<>> THEN log ELSE Soil(log)
    BY <1>1 DEF Disconnect
  <2>2. log \in Log /\ log.soiled \in BOOLEAN /\ log.dirty \in BOOLEAN
    BY DEF RosterInv, RosterTypeOK, Log
  <2>3. log' \in Log /\ log'.crossed = log.crossed /\ (log'.soiled => log'.dirty)
        /\ (deltas # <<>> => log'.soiled) /\ (deltas = <<>> => log' = log)
    BY <2>1, <2>2, SoilKeeps DEF RosterInv
  <2>4. Announced' = {} /\ Applying' = Applying
    BY <2>1 DEF Announced, Applying
  <2>5. RosterTypeOK'
    <3>1. deltas' \in Seq(Delta)
      BY <2>1
    <3> QED  BY <2>1, <2>3, <3>1 DEF RosterTypeOK, RosterInv
  <2>6. Told'
    BY <2>1, <2>4 DEF Told, RosterInv
  <2>7. Snapped'
    BY <2>1, <2>3, <2>4 DEF Snapped, RosterInv
  <2>8. Faithful'
    <3>1. CASE deltas = <<>>
      <4>1. deltas' = deltas
        BY <2>1, <3>1
      <4> QED  BY <2>1, <2>3, <2>4, <3>1, <4>1, RosterFrame DEF Faithful, RosterInv, Settled
    <3>2. CASE deltas # <<>>
      BY <2>3, <3>2 DEF Faithful
    <3> QED  BY <3>1, <3>2
  <2> QED  BY <2>3, <2>5, <2>6, <2>7, <2>8 DEF RosterInv
<1>2. CASE HandleConnected
  <2> DEFINE r == [seed["connect"] EXCEPT !.at = "fetch"]
  <2>1. /\ up' = TRUE /\ seed' = [seed EXCEPT !["connect"].at = "fetch"]
        /\ members' = members /\ rows' = rows /\ deltas' = deltas /\ log' = log /\ ~up
    BY <1>2 DEF HandleConnected
  <2>2. RosterTypeOK
    BY DEF RosterInv
  <2>3. r \in Seed /\ r.at = "fetch"
    BY <2>2 DEF RosterTypeOK, Seed, Seeders
  <2>4. seed' = [seed EXCEPT !["connect"] = r]
    BY <2>1
  <2>5. "connect" \in Seeders
    BY DEF Seeders
  <2> HIDE DEF r
  <2>6. /\ seed' \in [Seeders -> Seed] /\ seed'["connect"] = r
        /\ \A t \in Seeders : t # "connect" => seed'[t] = seed[t]
        /\ \A t \in Seeders : seed'[t].at = "prune" => seed'[t].left \cap seed'[t].snap = {}
    BY <2>2, <2>3, <2>4, <2>5, SeedSet
  <2>7. Announced' = Announced /\ \A s \in Applying' : s \in Applying /\ seed'[s] = seed[s]
    BY <2>1, <2>3, <2>6, RosterFrame DEF Applying
  <2>8. RosterTypeOK'
    BY <2>1, <2>2, <2>6 DEF RosterTypeOK
  <2>9. Told'
    BY <2>1, <2>7 DEF Told, RosterInv
  <2>10. Snapped'
    BY <2>1, <2>7 DEF Snapped, RosterInv
  <2>11. Faithful'
    BY <2>1, <2>7 DEF Faithful, RosterInv, Settled
  <2> QED  BY <2>1, <2>8, <2>9, <2>10, <2>11 DEF RosterInv
<1> QED  BY <1>1, <1>2

-----------------------------------------------------------------------------
(* A step of a seeding, which leaves what is told as it was: everything    *)
(* but Faithful follows from what the seeding is left with.                *)
LEMMA SeedStep ==
    ASSUME RosterInv, NEW s \in Seeders, NEW r \in Seed,
           r.at = "prune" => r.left \cap r.snap = {} /\ r.snap # {},
           r.at = "write" => r.left \subseteq r.snap,
           r.at \in {"write", "prune"} /\ r.snap # {} => members \ r.snap \subseteq log.crossed,
           seed' = [seed EXCEPT ![s] = r], rows' \subseteq People,
           UNCHANGED <<members, deltas, up>>,
           log' \in Log, log'.crossed = log.crossed
    PROVE  /\ RosterTypeOK' /\ Told' /\ Snapped' /\ Announced' = Announced
           /\ seed'[s] = r /\ \A t \in Seeders : t # s => seed'[t] = seed[t]
           /\ r.at \in {"write", "prune"} => Applying' = Applying \cup {s}
           /\ r.at \notin {"write", "prune"} => Applying' = Applying \ {s}
<1>1. RosterTypeOK
  BY DEF RosterInv
<1>2. /\ seed' \in [Seeders -> Seed] /\ seed'[s] = r
      /\ \A t \in Seeders : t # s => seed'[t] = seed[t]
      /\ \A t \in Seeders : seed'[t].at = "prune" => seed'[t].left \cap seed'[t].snap = {}
  BY <1>1, SeedSet
<1>3. RosterTypeOK'
  BY <1>1, <1>2 DEF RosterTypeOK
<1>4. Announced' = Announced
  BY RosterFrame
<1>5. Told'
  BY <1>4 DEF Told, RosterInv
<1>6. \A t \in Applying' : t \in Seeders /\ seed'[t].at \in {"write", "prune"}
  BY DEF Applying
<1>7. \A t \in Seeders : t \in Applying' => t = s \/ (t \in Applying /\ seed'[t] = seed[t])
  BY <1>2 DEF Applying
<1>8. Snapped'
  BY <1>2, <1>6, <1>7 DEF Snapped, RosterInv
<1>9. r.at \in {"write", "prune"} => Applying' = Applying \cup {s}
  BY <1>2 DEF Applying
<1>10. r.at \notin {"write", "prune"} => Applying' = Applying \ {s}
  BY <1>2 DEF Applying
<1> QED  BY <1>2, <1>3, <1>4, <1>5, <1>8, <1>9, <1>10

LEMMA SeedTyped ==
    ASSUME RosterTypeOK, NEW s \in Seeders
    PROVE  /\ seed[s] \in Seed /\ Resting \in Seed /\ Resting.at = "idle"
           /\ seed[s].snap \subseteq People /\ seed[s].left \subseteq People
           /\ log \in Log /\ log.dirty \in BOOLEAN /\ log.soiled \in BOOLEAN
           /\ seed[s].at = "prune" => seed[s].left \cap seed[s].snap = {}
BY DEF RosterTypeOK, Seed, Resting, Log

(* The steps that lose something, or refuse to write it.                   *)
LEMMA ResetMembersKeeps ==
    ASSUME RosterInv, ResetMembers
    PROVE  RosterInv'
<1> DEFINE l == [log EXCEPT !.resets = @ + 1]
           r == IF up THEN [seed["resync"] EXCEPT !.at = "fetch"] ELSE seed["resync"]
<1>1. /\ RosterTypeOK /\ "resync" \in Seeders /\ log.resets < MaxResets /\ seed["resync"].at = "idle"
      /\ rows' = {} /\ UNCHANGED <<members, deltas, up>> /\ log' = Soil(l)
      /\ seed' = [seed EXCEPT !["resync"] = r]
  BY DEF RosterInv, ResetMembers, RosterTypeOK, Seeders
<1>2. l \in Log /\ l.crossed = log.crossed
  BY <1>1, RosterAssumption DEF RosterTypeOK, Log
<1>3. r \in Seed /\ r.at \notin {"write", "prune"}
  BY <1>1, SeedTyped DEF Seed
<1> HIDE DEF l, r
<1>4. log' \in Log /\ log'.crossed = log.crossed /\ log'.soiled /\ log'.dirty
  BY <1>1, <1>2, SoilKeeps
<1>5. RosterTypeOK' /\ Told' /\ Snapped'
  BY <1>1, <1>3, <1>4, SeedStep
<1> QED  BY <1>4, <1>5 DEF RosterInv, Faithful

LEMMA LosingKeeps ==
    ASSUME RosterInv, NEW s \in Seeders,
           \/ GetJoinedGroupsMalformed(s) \/ GetJoinedGroupsFails(s) \/ RemoveFails(s)
           \/ \E p \in People : UpsertFails(s, p)
    PROVE  RosterInv'
<1>1. RosterTypeOK /\ UNCHANGED <<members, rows, deltas, up>>
  BY DEF RosterInv, GetJoinedGroupsMalformed, GetJoinedGroupsFails, RemoveFails, UpsertFails
<1>2. log' = Soil(log) \/ (log.failures < MaxFailures /\ log' = Lapse(log))
  BY DEF GetJoinedGroupsMalformed, GetJoinedGroupsFails, RemoveFails, UpsertFails
<1>3. log' \in Log /\ log'.crossed = log.crossed /\ log'.soiled /\ log'.dirty
  BY <1>1, <1>2, SoilKeeps, LapseKeeps, SeedTyped
<1>4. ASSUME NEW r \in Seed, seed' = [seed EXCEPT ![s] = r],
             \/ r.at = "idle"
             \/ r.at = "write" /\ r.snap = {} /\ r.left = {}
             \/ /\ r.at = "write" /\ s \in Applying /\ seed[s].at = "write"
                /\ r.snap = seed[s].snap /\ r.left \subseteq seed[s].left
      PROVE  RosterInv'
  <2>1. r.at \in {"write", "prune"} /\ r.snap # {} => members \ r.snap \subseteq log.crossed
    BY <1>4 DEF RosterInv, Snapped
  <2>2. r.at # "prune" /\ rows' \subseteq People /\ (r.at = "write" => r.left \subseteq r.snap)
    BY <1>1, <1>4 DEF RosterTypeOK, RosterInv, Snapped
  <2>3. RosterTypeOK' /\ Told' /\ Snapped'
    BY <1>1, <1>3, <1>4, <2>1, <2>2, SeedStep
  <2> QED  BY <1>3, <2>3 DEF RosterInv, Faithful
<1>5. CASE GetJoinedGroupsMalformed(s)
  <2> DEFINE r == [at |-> "write", snap |-> {}, left |-> {}, prunes |-> TRUE]
  <2>1. r \in Seed /\ seed' = [seed EXCEPT ![s] = r]
    BY <1>5 DEF GetJoinedGroupsMalformed, Begin, Seed
  <2> QED  BY <1>4, <2>1
<1>6. CASE GetJoinedGroupsFails(s) \/ RemoveFails(s)
  BY <1>1, <1>4, <1>6, SeedTyped DEF GetJoinedGroupsFails, RemoveFails
<1>7. ASSUME NEW p \in People, UpsertFails(s, p) PROVE RosterInv'
  <2> DEFINE r == [seed[s] EXCEPT !.left = seed[s].left \ {p}]
  <2>1. r \in Seed /\ r.at = seed[s].at /\ r.snap = seed[s].snap /\ r.left \subseteq seed[s].left
    BY <1>1, SeedTyped DEF Seed
  <2>2. seed' = [seed EXCEPT ![s].left = seed[s].left \ {p}, ![s].snap = seed[s].snap]
    BY <1>7 DEF UpsertFails, Kept
  <2>3. seed' = [seed EXCEPT ![s] = r]
    <3>1. seed[s] \in Seed /\ seed \in [Seeders -> Seed]
      BY <1>1 DEF RosterTypeOK
    <3> QED  BY <2>2, <3>1 DEF Seed
  <2>4. seed[s].at = "write" /\ s \in Applying
    BY <1>7 DEF UpsertFails, Applying
  <2> HIDE DEF r
  <2> QED  BY <1>4, <2>1, <2>3, <2>4
<1> QED  BY <1>5, <1>6, <1>7

-----------------------------------------------------------------------------
(* An event is handled, or the table refuses it.                           *)
LEMMA HandleKeeps ==
    ASSUME RosterInv, HandleGroupInfoChange \/ HandleGroupInfoFails
    PROVE  RosterInv'
<1> DEFINE d == Head(deltas)
<1>1. /\ RosterTypeOK /\ deltas # <<>> /\ deltas' = Tail(deltas)
      /\ UNCHANGED <<members, seed, up>>
      /\ \/ rows' = After(d) /\ log' = log
         \/ log.failures < MaxFailures /\ rows' = rows /\ log' = Lapse(log)
  BY DEF RosterInv, HandleGroupInfoChange, HandleGroupInfoFails
<1>2. log \in Log /\ deltas \in Seq(Delta)
  BY <1>1 DEF RosterTypeOK
<1>3. /\ deltas' \in Seq(Delta) /\ d \in Delta
      /\ 1 \in DOMAIN deltas /\ deltas[1] = d
      /\ \A i \in DOMAIN deltas' : i + 1 \in DOMAIN deltas /\ deltas'[i] = deltas[i + 1]
      /\ Announced' \subseteq Announced /\ Announced \subseteq Announced' \cup {d.who}
  BY <1>1, <1>2, DeltaHandled
<1> HIDE DEF d
<1>4. /\ log' \in Log /\ log'.crossed = log.crossed /\ (log'.soiled => log'.dirty)
      /\ (log' = log /\ rows' = After(d)) \/ log'.soiled
  BY <1>1, <1>2, LapseKeeps DEF RosterInv
<1>5. rows' \subseteq People
  BY <1>1, <1>3 DEF RosterTypeOK, After, Delta
<1>6. RosterTypeOK'
  BY <1>1, <1>3, <1>4, <1>5 DEF RosterTypeOK
<1>7. Told'
  <2>1. up
    BY <1>1 DEF RosterInv, Told
  <2> QED  BY <1>1, <1>3, <1>4, <2>1 DEF RosterInv, Told
<1>8. Applying' = Applying
  BY <1>1 DEF Applying
<1>9. Snapped'
  BY <1>1, <1>4, <1>8 DEF RosterInv, Snapped
<1>10. Faithful'
  <2> SUFFICES ASSUME ~log'.soiled PROVE Faithful'
    BY DEF Faithful
  <2>1. log' = log /\ rows' = After(d)
    BY <1>4
  <2>2. d.joins = (d.who \in members) /\ d.joins \in BOOLEAN
    <3>1. deltas[1].joins = (deltas[1].who \in members)
      BY <1>3, <2>1 DEF RosterInv, Faithful
    <3> QED  BY <1>3, <3>1 DEF Delta
  <2>3. (d.who \in rows') = (d.who \in members)
    <3>1. CASE d.joins
      <4>1. d.who \in members /\ rows' = rows \cup {d.who}
        BY <2>1, <2>2, <3>1 DEF After
      <4> QED  BY <4>1
    <3>2. CASE ~d.joins
      <4>1. d.who \notin members /\ rows' = rows \ {d.who}
        BY <2>1, <2>2, <3>2 DEF After
      <4> QED  BY <4>1
    <3> QED  BY <3>1, <3>2
  <2>4. \A p \in People : p # d.who =>
           /\ (p \in rows') = (p \in rows)
           /\ (p \in Announced') = (p \in Announced)
    BY <1>3, <2>1 DEF After
  <2>5. ASSUME NEW p \in People, Settled(p) PROVE Settled(p)'
    BY <1>1, <2>3, <2>4, <2>5 DEF Settled
  <2>6. ASSUME NEW p \in members, p \in rows \/ p \in Announced PROVE p \in rows' \/ p \in Announced'
    BY <1>1, <2>3, <2>4, <2>6 DEF RosterTypeOK
  <2>7. \A i \in DOMAIN deltas' : deltas'[i].joins = (deltas'[i].who \in members')
    BY <1>1, <1>3, <2>1 DEF RosterInv, Faithful
  <2>8. ASSUME NEW s \in Applying'
        PROVE  /\ seed'[s].snap = members'
               /\ seed'[s].at = "write" =>
                     \A p \in members' \ seed'[s].left : p \in rows' \/ p \in Announced'
               /\ seed'[s].at = "prune" => \A p \in People \ seed'[s].left : Settled(p)'
    BY <1>1, <1>8, <2>1, <2>5, <2>6 DEF RosterInv, Faithful
  <2>9. ~log'.dirty => \A p \in People : Settled(p)'
    BY <2>1, <2>5 DEF RosterInv, Faithful
  <2> QED  BY <2>7, <2>8, <2>9 DEF Faithful
<1> QED  BY <1>4, <1>6, <1>7, <1>9, <1>10 DEF RosterInv

-----------------------------------------------------------------------------
(* A seeding begins: with the groups as they are, or with a new one.       *)
LEMMA GetJoinedGroupsKeeps ==
    ASSUME RosterInv, NEW s \in Seeders, GetJoinedGroups(s)
    PROVE  RosterInv'
<1> DEFINE r == [at |-> "write", snap |-> members, left |-> members, prunes |-> TRUE]
<1>1. /\ RosterTypeOK /\ UNCHANGED <<members, rows, deltas, up>>
      /\ seed' = [seed EXCEPT ![s] = r] /\ seed[s].at = "fetch"
      /\ log' = IF Applying = {} /\ deltas = <<>>
                THEN [log EXCEPT !.crossed = {}, !.soiled = FALSE] ELSE log
  BY DEF RosterInv, GetJoinedGroups, Begin
<1>2. r \in Seed /\ r.at = "write" /\ r.snap = members /\ r.left = members
  BY <1>1 DEF RosterTypeOK, Seed
<1> HIDE DEF r
<1>3. /\ seed' \in [Seeders -> Seed] /\ seed'[s] = r
      /\ \A t \in Seeders : t # s => seed'[t] = seed[t]
      /\ \A t \in Seeders : seed'[t].at = "prune" => seed'[t].left \cap seed'[t].snap = {}
  BY <1>1, <1>2, SeedSet
<1>4. Announced' = Announced /\ Applying' = Applying \cup {s}
  BY <1>1, <1>2, <1>3, RosterFrame DEF Applying
<1>5. CASE Applying = {} /\ deltas = <<>>
  <2>1. log' \in Log /\ ~log'.soiled /\ log'.dirty = log.dirty
    BY <1>1, <1>5, SeedTyped DEF Log
  <2>2. RosterTypeOK'
    BY <1>1, <1>3, <2>1 DEF RosterTypeOK
  <2>3. Announced' = {} /\ Announced = {} /\ deltas' = <<>>
    BY <1>1, <1>4, <1>5 DEF Announced
  <2>4. Told'
    BY <1>1, <2>3 DEF Told, RosterInv
  <2>5. Snapped'
    BY <1>1, <1>2, <1>3, <1>4, <1>5 DEF Snapped
  <2>6. ~log'.dirty => \A p \in People : Settled(p)'
    BY <1>1, <1>4, <2>1 DEF RosterInv, Faithful, Settled
  <2>7. Faithful'
    BY <1>1, <1>2, <1>3, <1>4, <1>5, <2>3, <2>6 DEF Faithful
  <2> QED  BY <2>1, <2>2, <2>4, <2>5, <2>7 DEF RosterInv
<1>6. CASE ~(Applying = {} /\ deltas = <<>>)
  <2>1. log' = log
    BY <1>1, <1>6
  <2>2. RosterTypeOK' /\ Told' /\ Snapped'
    BY <1>1, <1>2, <2>1, SeedStep DEF RosterTypeOK
  <2>3. Faithful'
    <3> SUFFICES ASSUME ~log.soiled PROVE Faithful'
      BY <2>1 DEF Faithful
    <3>1. \A t \in Applying' : t = s \/ (t \in Applying /\ seed'[t] = seed[t])
      BY <1>3, <1>4 DEF Applying
    <3>2. \A p \in People : Settled(p)' <=> Settled(p)
      BY <1>1, <1>4 DEF Settled
    <3> QED  BY <1>1, <1>2, <1>3, <1>4, <2>1, <3>1, <3>2 DEF RosterInv, Faithful
  <2> QED  BY <2>1, <2>2, <2>3 DEF RosterInv
<1> QED  BY <1>5, <1>6

LEMMA SeedNewGroupKeeps ==
    ASSUME RosterInv, NEW joined \in BOOLEAN, SeedNewGroup(joined)
    PROVE  RosterInv'
<1> DEFINE r == [at |-> "write", snap |-> members, left |-> members, prunes |-> joined]
<1>1. /\ RosterTypeOK /\ UNCHANGED <<members, rows, deltas, up, log>> /\ "new" \in Seeders
      /\ seed' = [seed EXCEPT !["new"] = r] /\ seed["new"].at = "idle"
  BY DEF RosterInv, SeedNewGroup, Begin, Seeders
<1>2. r \in Seed /\ r.at = "write" /\ r.snap = members /\ r.left = members
  BY <1>1 DEF RosterTypeOK, Seed
<1> HIDE DEF r
<1>3. /\ RosterTypeOK' /\ Told' /\ Snapped' /\ Announced' = Announced
      /\ seed'["new"] = r /\ \A t \in Seeders : t # "new" => seed'[t] = seed[t]
      /\ Applying' = Applying \cup {"new"}
  BY <1>1, <1>2, SeedStep DEF RosterTypeOK
<1>4. \A t \in Applying' : t = "new" \/ (t \in Applying /\ seed'[t] = seed[t])
  BY <1>3 DEF Applying
<1>5. \A p \in People : Settled(p)' <=> Settled(p)
  BY <1>1, <1>3 DEF Settled
<1>6. Faithful'
  BY <1>1, <1>2, <1>3, <1>4, <1>5 DEF RosterInv, Faithful
<1> QED  BY <1>1, <1>3, <1>6 DEF RosterInv

(* A snapshot is written, and whoever is not in it removed.                *)
LEMMA UpsertKeeps ==
    ASSUME RosterInv, NEW s \in Seeders, NEW p \in People, UpsertGroupMember(s, p)
    PROVE  RosterInv'
<1> DEFINE r == [seed[s] EXCEPT !.left = seed[s].left \ {p}]
<1>1. /\ RosterTypeOK /\ UNCHANGED <<members, deltas, up, log>>
      /\ seed' = [seed EXCEPT ![s] = r] /\ rows' = rows \cup {p}
      /\ seed[s].at = "write" /\ p \in seed[s].left /\ s \in Applying
  BY DEF RosterInv, UpsertGroupMember, RosterTypeOK, Applying
<1>2. r \in Seed /\ r.at = "write" /\ r.snap = seed[s].snap /\ r.left = seed[s].left \ {p}
  BY <1>1, SeedTyped DEF Seed
<1> HIDE DEF r
<1>3. /\ RosterTypeOK' /\ Told' /\ Snapped' /\ Announced' = Announced
      /\ seed'[s] = r /\ \A t \in Seeders : t # s => seed'[t] = seed[t]
      /\ Applying' = Applying
  <2>1. (r.snap # {} => members \ r.snap \subseteq log.crossed) /\ r.left \subseteq r.snap
    BY <1>1, <1>2 DEF RosterInv, Snapped
  <2>2. rows' \subseteq People /\ log' \in Log
    BY <1>1 DEF RosterTypeOK
  <2>3. /\ RosterTypeOK' /\ Told' /\ Snapped' /\ Announced' = Announced
        /\ seed'[s] = r /\ \A t \in Seeders : t # s => seed'[t] = seed[t]
        /\ Applying' = Applying \cup {s}
    BY <1>1, <1>2, <2>1, <2>2, SeedStep
  <2> QED  BY <1>1, <2>3
<1>4. Faithful'
  <2> SUFFICES ASSUME ~log.soiled PROVE Faithful'
    BY <1>1 DEF Faithful
  <2>1. p \in members
    BY <1>1 DEF RosterInv, Faithful, Snapped
  <2>2. ASSUME NEW q \in People, Settled(q) PROVE Settled(q)'
    BY <1>1, <1>3, <2>1, <2>2 DEF Settled
  <2>3. ASSUME NEW t \in Applying
        PROVE  /\ seed'[t].snap = members'
               /\ seed'[t].at = "write" =>
                     \A q \in members' \ seed'[t].left : q \in rows' \/ q \in Announced'
               /\ seed'[t].at = "prune" => \A q \in People \ seed'[t].left : Settled(q)'
    <3>1. /\ seed[t].snap = members
          /\ seed[t].at = "write" =>
                \A q \in members \ seed[t].left : q \in rows \/ q \in Announced
          /\ seed[t].at = "prune" => \A q \in People \ seed[t].left : Settled(q)
      BY DEF RosterInv, Faithful
    <3>2. CASE t = s
      BY <1>1, <1>2, <1>3, <3>1, <3>2
    <3>3. CASE t # s
      BY <1>1, <1>3, <2>2, <3>1, <3>3 DEF Applying
    <3> QED  BY <3>2, <3>3
  <2>4. /\ ~log'.dirty => \A q \in People : Settled(q)'
        /\ \A i \in DOMAIN deltas' : deltas'[i].joins = (deltas'[i].who \in members')
    BY <1>1, <2>2 DEF RosterInv, Faithful
  <2> QED  BY <1>3, <2>3, <2>4 DEF Faithful
<1> QED  BY <1>1, <1>3, <1>4 DEF RosterInv

LEMMA ReconcileKeeps ==
    ASSUME RosterInv, NEW s \in Seeders, ReconcileGroupMembers(s)
    PROVE  RosterInv'
<1> DEFINE pruning == seed[s].prunes /\ seed[s].snap # {}
           r == IF pruning THEN [seed[s] EXCEPT !.at = "prune", !.left = rows \ seed[s].snap]
                           ELSE Resting
<1>1. /\ RosterTypeOK /\ UNCHANGED <<members, rows, deltas, up, log>>
      /\ seed[s].at = "write" /\ seed[s].left = {} /\ s \in Applying
      /\ seed' = IF pruning THEN [seed EXCEPT ![s].at = "prune", ![s].left = rows \ seed[s].snap]
                            ELSE [seed EXCEPT ![s] = Resting]
  BY DEF RosterInv, ReconcileGroupMembers, RosterTypeOK, Applying, Trusted, Departed
<1>2. seed' = [seed EXCEPT ![s] = r]
  <2>1. seed[s] \in Seed /\ seed \in [Seeders -> Seed]
    BY <1>1 DEF RosterTypeOK
  <2> QED  BY <1>1, <2>1 DEF Seed
<1>3. /\ r \in Seed
      /\ pruning => r.at = "prune" /\ r.snap = seed[s].snap /\ r.left = rows \ seed[s].snap
      /\ ~pruning => r.at = "idle"
  BY <1>1, SeedTyped DEF Seed, RosterTypeOK
<1>4. pruning => seed[s].snap # {} /\ members \ seed[s].snap \subseteq log.crossed
  BY <1>1 DEF RosterInv, Snapped
<1> HIDE DEF r, pruning
<1>5. /\ RosterTypeOK' /\ Told' /\ Snapped' /\ Announced' = Announced
      /\ seed'[s] = r /\ \A t \in Seeders : t # s => seed'[t] = seed[t]
      /\ pruning => Applying' = Applying \cup {s}
      /\ ~pruning => Applying' = Applying \ {s}
  <2>1. /\ r.at = "prune" => r.left \cap r.snap = {} /\ r.snap # {}
        /\ r.at = "write" => r.left \subseteq r.snap
    BY <1>3, <1>4
  <2>2. r.at \in {"write", "prune"} /\ r.snap # {} => members \ r.snap \subseteq log.crossed
    BY <1>3, <1>4
  <2>3. rows' \subseteq People /\ log' \in Log /\ log'.crossed = log.crossed
    BY <1>1 DEF RosterTypeOK
  <2>4. /\ RosterTypeOK' /\ Told' /\ Snapped' /\ Announced' = Announced
        /\ seed'[s] = r /\ \A t \in Seeders : t # s => seed'[t] = seed[t]
        /\ r.at \in {"write", "prune"} => Applying' = Applying \cup {s}
        /\ r.at \notin {"write", "prune"} => Applying' = Applying \ {s}
    BY <1>1, <1>2, <1>3, <2>1, <2>2, <2>3, SeedStep
  <2> QED  BY <1>3, <2>4
<1>6. \A q \in People : Settled(q)' <=> Settled(q)
  BY <1>1, <1>5 DEF Settled
<1>7. Faithful'
  <2> SUFFICES ASSUME ~log.soiled PROVE Faithful'
    BY <1>1 DEF Faithful
  <2>1. /\ seed[s].snap = members
        /\ \A q \in members : q \in rows \/ q \in Announced
    BY <1>1 DEF RosterInv, Faithful
  <2>2. ASSUME pruning, NEW q \in People \ (rows \ members) PROVE Settled(q)
    BY <2>1, <2>2 DEF Settled
  <2>3. ASSUME NEW t \in Applying'
        PROVE  /\ seed'[t].snap = members'
               /\ seed'[t].at = "write" =>
                     \A q \in members' \ seed'[t].left : q \in rows' \/ q \in Announced'
               /\ seed'[t].at = "prune" => \A q \in People \ seed'[t].left : Settled(q)'
    <3>1. CASE t = s
      <4>1. pruning
        BY <1>5, <2>3, <3>1
      <4> QED  BY <1>1, <1>3, <1>5, <1>6, <2>1, <2>2, <3>1, <4>1
    <3>2. CASE t # s
      <4>1. t \in Applying /\ seed'[t] = seed[t]
        BY <1>5, <2>3, <3>2 DEF Applying
      <4> QED  BY <1>1, <1>5, <1>6, <4>1 DEF RosterInv, Faithful
    <3> QED  BY <3>1, <3>2
  <2>4. /\ ~log'.dirty => \A q \in People : Settled(q)'
        /\ \A i \in DOMAIN deltas' : deltas'[i].joins = (deltas'[i].who \in members')
    BY <1>1, <1>6 DEF RosterInv, Faithful
  <2> QED  BY <2>3, <2>4 DEF Faithful
<1> QED  BY <1>1, <1>5, <1>7 DEF RosterInv

LEMMA RemoveKeeps ==
    ASSUME RosterInv, NEW s \in Seeders, NEW p \in People, RemoveGroupMember(s, p)
    PROVE  RosterInv' /\ (p \notin members \/ p \in log.crossed)
<1> DEFINE r == [seed[s] EXCEPT !.left = seed[s].left \ {p}]
<1>1. /\ RosterTypeOK /\ UNCHANGED <<members, deltas, up, log>>
      /\ seed' = [seed EXCEPT ![s] = r] /\ rows' = rows \ {p}
      /\ seed[s].at = "prune" /\ p \in seed[s].left /\ s \in Applying
  BY DEF RosterInv, RemoveGroupMember, RosterTypeOK, Applying
<1>2. r \in Seed /\ r.at = "prune" /\ r.snap = seed[s].snap /\ r.left = seed[s].left \ {p}
  BY <1>1, SeedTyped DEF Seed
<1>3. /\ r.left \cap r.snap = {} /\ r.snap # {} /\ p \notin r.snap
      /\ members \ r.snap \subseteq log.crossed
  BY <1>1, <1>2, SeedTyped DEF RosterInv, Snapped
<1> HIDE DEF r
<1>4. /\ RosterTypeOK' /\ Told' /\ Snapped' /\ Announced' = Announced
      /\ seed'[s] = r /\ \A t \in Seeders : t # s => seed'[t] = seed[t]
      /\ Applying' = Applying
  <2>1. rows' \subseteq People /\ log' \in Log
    BY <1>1 DEF RosterTypeOK
  <2>2. /\ RosterTypeOK' /\ Told' /\ Snapped' /\ Announced' = Announced
        /\ seed'[s] = r /\ \A t \in Seeders : t # s => seed'[t] = seed[t]
        /\ Applying' = Applying \cup {s}
    BY <1>1, <1>2, <1>3, <2>1, SeedStep
  <2> QED  BY <1>1, <2>2
<1>5. Faithful'
  <2> SUFFICES ASSUME ~log.soiled PROVE Faithful'
    BY <1>1 DEF Faithful
  <2>1. p \notin members
    BY <1>1, <1>2, <1>3 DEF RosterInv, Faithful
  <2>2. ASSUME NEW q \in People, Settled(q) PROVE Settled(q)'
    BY <1>1, <1>4, <2>1, <2>2 DEF Settled
  <2>3. ASSUME NEW t \in Applying
        PROVE  /\ seed'[t].snap = members'
               /\ seed'[t].at = "write" =>
                     \A q \in members' \ seed'[t].left : q \in rows' \/ q \in Announced'
               /\ seed'[t].at = "prune" => \A q \in People \ seed'[t].left : Settled(q)'
    <3>1. /\ seed[t].snap = members
          /\ seed[t].at = "write" =>
                \A q \in members \ seed[t].left : q \in rows \/ q \in Announced
          /\ seed[t].at = "prune" => \A q \in People \ seed[t].left : Settled(q)
      BY DEF RosterInv, Faithful
    <3>2. Settled(p)'
      BY <1>1, <2>1 DEF Settled
    <3>3. CASE t = s
      BY <1>1, <1>2, <1>4, <2>2, <3>1, <3>2, <3>3
    <3>4. CASE t # s
      BY <1>1, <1>4, <2>1, <2>2, <3>1, <3>4 DEF Applying
    <3> QED  BY <3>3, <3>4
  <2>4. /\ ~log'.dirty => \A q \in People : Settled(q)'
        /\ \A i \in DOMAIN deltas' : deltas'[i].joins = (deltas'[i].who \in members')
    BY <1>1, <2>2 DEF RosterInv, Faithful
  <2> QED  BY <1>4, <2>3, <2>4 DEF Faithful
<1> QED  BY <1>1, <1>2, <1>3, <1>4, <1>5 DEF RosterInv

LEMMA ReconciledKeeps ==
    ASSUME RosterInv, NEW s \in Seeders, Reconciled(s)
    PROVE  RosterInv'
<1>1. /\ RosterTypeOK /\ UNCHANGED <<members, rows, deltas, up>>
      /\ seed' = [seed EXCEPT ![s] = Resting] /\ Resting \in Seed /\ Resting.at = "idle"
      /\ seed[s].at = "prune" /\ seed[s].left = {} /\ s \in Applying
  BY SeedTyped DEF RosterInv, Reconciled, Applying
<1>2. /\ log' \in Log /\ log'.crossed = log.crossed
      /\ log'.soiled = log.soiled /\ log'.dirty = log.soiled
  BY <1>1, SeedTyped DEF Reconciled, Log
<1>3. /\ RosterTypeOK' /\ Told' /\ Snapped' /\ Announced' = Announced
      /\ seed'[s] = Resting /\ \A t \in Seeders : t # s => seed'[t] = seed[t]
      /\ Applying' = Applying \ {s}
  <2>1. rows' \subseteq People
    BY <1>1 DEF RosterTypeOK
  <2> QED  BY <1>1, <1>2, <2>1, SeedStep
<1>4. \A q \in People : Settled(q)' <=> Settled(q)
  BY <1>1, <1>3 DEF Settled
<1>5. Faithful'
  <2> SUFFICES ASSUME ~log.soiled PROVE Faithful'
    BY <1>2 DEF Faithful
  <2>1. \A q \in People : Settled(q)
    BY <1>1 DEF RosterInv, Faithful
  <2>2. ASSUME NEW t \in Applying'
        PROVE  t \in Applying /\ seed'[t] = seed[t]
    BY <1>3, <2>2 DEF Applying
  <2> QED  BY <1>1, <1>2, <1>3, <1>4, <2>1, <2>2 DEF RosterInv, Faithful
<1> QED  BY <1>2, <1>3, <1>5 DEF RosterInv

-----------------------------------------------------------------------------
LEMMA RosterStep == RosterInv /\ [RosterNext]_rosterVars => RosterInv'
<1> SUFFICES ASSUME RosterInv, [RosterNext]_rosterVars PROVE RosterInv'
  OBVIOUS
<1>1. ASSUME NEW p \in People, Move(p) PROVE RosterInv'
  BY <1>1, MoveKeeps
<1>2. CASE Disconnect \/ HandleConnected
  BY <1>2, LinkKeeps
<1>3. CASE ResetMembers
  BY <1>3, ResetMembersKeeps
<1>4. CASE HandleGroupInfoChange \/ HandleGroupInfoFails
  BY <1>4, HandleKeeps
<1>5. ASSUME NEW joined \in BOOLEAN, SeedNewGroup(joined) PROVE RosterInv'
  BY <1>5, SeedNewGroupKeeps
<1>6. ASSUME NEW s \in Seeders, GetJoinedGroups(s) PROVE RosterInv'
  BY <1>6, GetJoinedGroupsKeeps
<1>7. ASSUME NEW s \in Seeders,
             \/ GetJoinedGroupsMalformed(s) \/ GetJoinedGroupsFails(s) \/ RemoveFails(s)
             \/ \E p \in People : UpsertFails(s, p)
      PROVE  RosterInv'
  BY <1>7, LosingKeeps
<1>8. ASSUME NEW s \in Seeders, Apply(s) PROVE RosterInv'
  BY <1>8, UpsertKeeps, RemoveKeeps, ReconcileKeeps, ReconciledKeeps DEF Apply
<1>9. CASE UNCHANGED rosterVars
  BY <1>9 DEF rosterVars, RosterInv, RosterTypeOK, Told, Snapped, Faithful, Settled, Applying, Announced
<1> QED  BY <1>1, <1>2, <1>3, <1>4, <1>5, <1>6, <1>7, <1>8, <1>9 DEF RosterNext

LEMMA RosterInvSafe == RosterInv => RosterSafe
<1> SUFFICES ASSUME RosterInv, deltas = <<>>, ~log.dirty PROVE rows = members
  BY DEF RosterInv, RosterSafe, RosterRight
<1>1. Announced = {} /\ members \subseteq People /\ rows \subseteq People
  BY DEF Announced, RosterInv, RosterTypeOK
<1>2. \A p \in People : Settled(p)
  BY DEF RosterInv, Faithful
<1> QED  BY <1>1, <1>2 DEF Settled

(* Whoever leaves the table in a step.                                     *)
LEMMA StaysStep ==
    ASSUME RosterInv, [RosterNext]_rosterVars, NEW p \in rows \ rows'
    PROVE  p \notin members \/ p \in log.crossed \/ log'.resets # log.resets
<1>1. rows' # rows
  OBVIOUS
<1>2. CASE ResetMembers
  BY <1>2, RosterAssumption DEF ResetMembers, Soil, RosterInv, RosterTypeOK, Log
<1>3. CASE HandleGroupInfoChange
  <2>1. deltas # <<>> /\ deltas \in Seq(Delta) /\ rows' = After(Head(deltas)) /\ deltas' = Tail(deltas)
    BY <1>3 DEF HandleGroupInfoChange, RosterInv, RosterTypeOK
  <2>2. 1 \in DOMAIN deltas /\ deltas[1] = Head(deltas)
    BY <2>1, DeltaHandled
  <2>3. ~Head(deltas).joins /\ p = Head(deltas).who
    BY <2>1 DEF After
  <2> QED  BY <2>2, <2>3 DEF RosterInv, Told
<1>4. ASSUME NEW s \in Seeders, NEW q \in People, RemoveGroupMember(s, q)
      PROVE  p \notin members \/ p \in log.crossed
  <2>1. p = q
    BY <1>4 DEF RemoveGroupMember
  <2> QED  BY <1>4, <2>1, RemoveKeeps
<1>5. ~ResetMembers /\ ~HandleGroupInfoChange =>
         \E s \in Seeders, q \in People : RemoveGroupMember(s, q)
  BY <1>1 DEF RosterNext, rosterVars, Move, Disconnect, HandleConnected, HandleGroupInfoFails,
              SeedNewGroup, GetJoinedGroups, GetJoinedGroupsMalformed, GetJoinedGroupsFails,
              Apply, UpsertGroupMember, ReconcileGroupMembers, Reconciled, RemoveFails, UpsertFails
<1> QED  BY <1>2, <1>3, <1>4, <1>5

(***************************************************************************)
(* The limiter of tool calls (FloodGuard)                                  *)
(***************************************************************************)

(* What was served in the last i ticks, and the tokens left, come out of a *)
(* full bucket and the refills in between.                                 *)
Within(served, tokens, rate) ==
    \A i \in 1..Minute : served[i] * Minute + tokens <= rate * Minute + (i - 1) * rate

(* A client that is not tracked has kept quiet for so long that nothing    *)
(* was served to it in a minute, and one that is has been idle as long as  *)
(* it kept quiet; a block runs in both alike.                              *)
Paid(k) ==
    LET l == ledger[k] IN
    /\ \A i \in 1..Minute : i <= l.quiet => l.calls[i] = 0 /\ l.emits[i] = 0
    /\ k \notin Tracked => l.quiet = ClientStaleAfter + 1
    /\ k \in Tracked =>
          /\ entry[k].idle = l.quiet
          /\ l.quiet <= ClientStaleAfter => entry[k].blocked = l.sentence
          /\ Within(l.calls, entry[k].general, RatePerMin)
          /\ Within(l.emits, entry[k].emit, EmitRatePerMin)

GuardInv == GuardTypeOK /\ \A k \in Clients : Paid(k)

-----------------------------------------------------------------------------
(* One bucket, over a tick, a call that is served, and one that is not.    *)
LEMMA GuardNumbers ==
    /\ RatePerMin \in Nat \ {0} /\ EmitRatePerMin \in Nat \ {0} /\ BlockThreshold \in Nat \ {0}
    /\ BlockCooldown \in Nat \ {0} /\ ClientStaleAfter \in Nat \ {0} /\ Minute \in Nat \ {0}
    /\ Minute <= ClientStaleAfter + 1
BY GuardAssumption

LEMMA SlidTyped ==
    ASSUME NEW served \in [1..Minute -> Nat]
    PROVE  Slid(served) \in [1..Minute -> Nat]
BY GuardNumbers DEF Slid

LEMMA OneMoreTyped ==
    ASSUME NEW served \in [1..Minute -> Nat]
    PROVE  OneMore(served) \in [1..Minute -> Nat]
BY DEF OneMore

LEMMA WithinTick ==
    ASSUME NEW rate \in Nat \ {0}, NEW served \in [1..Minute -> Nat],
           NEW tokens \in 0..(rate * Minute), Within(served, tokens, rate)
    PROVE  /\ Slid(served) \in [1..Minute -> Nat]
           /\ Refilled(tokens, rate) \in 0..(rate * Minute)
           /\ Within(Slid(served), Refilled(tokens, rate), rate)
<1>1. Minute \in Nat \ {0}
  BY GuardNumbers
<1>2. PICK full \in Nat : full = rate * Minute
  BY <1>1
<1>3. tokens \in 0..full
  BY <1>2
<1>4. Refilled(tokens, rate) = IF tokens + rate > full THEN full ELSE tokens + rate
  BY <1>2 DEF Refilled, AtMost
<1>5. PICK more \in 0..full : more = Refilled(tokens, rate) /\ more <= tokens + rate
  BY <1>2, <1>3, <1>4
<1>6. Slid(served) \in [1..Minute -> Nat]
  BY <1>1 DEF Slid
<1>7. ASSUME NEW i \in 1..Minute
      PROVE  Slid(served)[i] * Minute + more <= full + (i - 1) * rate
  <2>1. CASE i = 1
    <3>1. Slid(served)[i] = 0 /\ (i - 1) * rate = 0
      BY <2>1 DEF Slid
    <3>2. Slid(served)[i] * Minute = 0
      BY <1>1, <3>1
    <3> QED  BY <1>2, <1>5, <3>1, <3>2
  <2>2. CASE i # 1
    <3>1. i - 1 \in 1..Minute /\ Slid(served)[i] = served[i - 1]
      BY <1>1, <2>2 DEF Slid
    <3>2. served[i - 1] * Minute + tokens <= full + ((i - 1) - 1) * rate
      BY <1>2, <3>1 DEF Within
    <3>3. PICK n \in Int : n = served[i - 1] * Minute
      BY <1>1, <3>1
    <3>4. PICK e \in Int : e = ((i - 1) - 1) * rate
      BY <3>1
    <3>5. (i - 1) * rate = e + rate
      BY <3>1, <3>4
    <3>6. n + tokens <= full + e
      BY <3>2, <3>3, <3>4
    <3>7. n + more <= full + (e + rate)
      BY <1>2, <1>3, <1>5, <3>3, <3>4, <3>6
    <3> QED  BY <3>1, <3>3, <3>5, <3>7
  <2> QED  BY <2>1, <2>2
<1> QED  BY <1>2, <1>5, <1>6, <1>7 DEF Within

LEMMA WithinServed ==
    ASSUME NEW rate \in Nat \ {0}, NEW served \in [1..Minute -> Nat],
           NEW tokens \in 0..(rate * Minute), Within(served, tokens, rate), HasToken(tokens)
    PROVE  /\ OneMore(served) \in [1..Minute -> Nat]
           /\ tokens - Minute \in 0..(rate * Minute)
           /\ Within(OneMore(served), tokens - Minute, rate)
<1>1. Minute \in Nat \ {0}
  BY GuardNumbers
<1>2. PICK full \in Nat : full = rate * Minute
  BY <1>1
<1>3. tokens \in 0..full /\ tokens >= Minute
  BY <1>2 DEF HasToken
<1>4. tokens - Minute \in 0..full
  BY <1>1, <1>2, <1>3
<1>5. OneMore(served) \in [1..Minute -> Nat]
  BY DEF OneMore
<1>6. ASSUME NEW i \in 1..Minute
      PROVE  OneMore(served)[i] * Minute + (tokens - Minute) <= full + (i - 1) * rate
  <2>1. OneMore(served)[i] = served[i] + 1 /\ served[i] \in Nat
    BY DEF OneMore
  <2>2. served[i] * Minute + tokens <= full + (i - 1) * rate
    BY <1>2 DEF Within
  <2>3. PICK n \in Int : n = served[i] * Minute
    BY <1>1, <2>1
  <2>4. (served[i] + 1) * Minute = n + Minute
    BY <1>1, <2>1, <2>3
  <2>5. PICK e \in Int : e = (i - 1) * rate
    OBVIOUS
  <2>6. n + tokens <= full + e
    BY <2>2, <2>3, <2>5
  <2>7. (n + Minute) + (tokens - Minute) <= full + e
    BY <1>1, <1>2, <1>3, <2>3, <2>5, <2>6
  <2> QED  BY <2>1, <2>4, <2>5, <2>7
<1> QED  BY <1>2, <1>4, <1>5, <1>6 DEF Within

LEMMA WithinSpent ==
    ASSUME NEW rate \in Nat \ {0}, NEW served \in [1..Minute -> Nat],
           NEW tokens \in 0..(rate * Minute), Within(served, tokens, rate),
           NEW left \in Nat, left <= tokens
    PROVE  Within(served, left, rate)
<1>1. Minute \in Nat \ {0}
  BY GuardNumbers
<1>2. ASSUME NEW i \in 1..Minute
      PROVE  served[i] * Minute + left <= rate * Minute + (i - 1) * rate
  <2>1. PICK n \in Int : n = served[i] * Minute
    BY <1>1
  <2>2. PICK e \in Int : e = rate * Minute + (i - 1) * rate
    BY <1>1
  <2>3. PICK t \in Nat : t = tokens
    BY <1>1
  <2>4. n + t <= e /\ left <= t
    BY <2>1, <2>2, <2>3 DEF Within
  <2>5. n + left <= e
    BY <2>1, <2>2, <2>3, <2>4
  <2> QED  BY <2>1, <2>2, <2>5
<1> QED  BY <1>2 DEF Within

LEMMA WithinFresh ==
    ASSUME NEW rate \in Nat \ {0}, NEW served \in [1..Minute -> Nat],
           \A i \in 1..Minute : served[i] = 0
    PROVE  Within(served, rate * Minute, rate)
<1>1. Minute \in Nat \ {0}
  BY GuardNumbers
<1>2. ASSUME NEW i \in 1..Minute
      PROVE  served[i] * Minute + rate * Minute <= rate * Minute + (i - 1) * rate
  <2>1. served[i] * Minute = 0
    BY <1>1
  <2>2. PICK full \in Nat : full = rate * Minute
    BY <1>1
  <2>3. PICK e \in Nat : e = (i - 1) * rate
    OBVIOUS
  <2>4. 0 + full <= full + e
    BY <2>2, <2>3
  <2> QED  BY <2>1, <2>2, <2>3, <2>4
<1> QED  BY <1>2 DEF Within

(* In a minute: a full bucket and a minute's refill.                       *)
LEMMA WithinBound ==
    ASSUME NEW rate \in Nat \ {0}, NEW served \in [1..Minute -> Nat],
           NEW tokens \in 0..(rate * Minute), Within(served, tokens, rate)
    PROVE  served[Minute] <= 2 * rate
<1>1. Minute \in Nat \ {0}
  BY GuardNumbers
<1>2. PICK a \in Nat : a = served[Minute]
  BY <1>1
<1>3. PICK full \in Nat : full = rate * Minute
  BY <1>1
<1>4. a * Minute + tokens <= full + (Minute - 1) * rate
  BY <1>1, <1>2, <1>3 DEF Within
<1>5. (Minute - 1) * rate = full - rate
  BY <1>1, <1>3
<1>6. PICK n \in Nat : n = a * Minute
  BY <1>1
<1>7. n <= 2 * full
  BY <1>3, <1>4, <1>5, <1>6
<1>8. SUFFICES ASSUME a > 2 * rate PROVE FALSE
  BY <1>2
<1>9. PICK d \in Nat : a = (2 * rate + 1) + d
  BY <1>8
<1>10. a * Minute = (2 * full + Minute) + d * Minute
  BY <1>1, <1>3, <1>9
<1>11. d * Minute \in Nat
  BY <1>1
<1> QED  BY <1>1, <1>3, <1>6, <1>7, <1>10, <1>11

-----------------------------------------------------------------------------
LEMMA EntryFacts ==
    /\ NewEntry \in Entry /\ \A e \in Entry : e # NoEntry
    /\ \A e \in Entry :
          /\ e.general \in 0..(RatePerMin * Minute) /\ e.emit \in 0..(EmitRatePerMin * Minute)
          /\ e.throttleHits \in 0..BlockThreshold /\ e.blocked \in 0..BlockCooldown
          /\ e.idle \in 0..(ClientStaleAfter + 1)
<1>1. RatePerMin * Minute \in Nat /\ EmitRatePerMin * Minute \in Nat
  BY GuardNumbers
<1>2. NewEntry \in Entry
  BY <1>1, GuardNumbers DEF NewEntry, Entry
<1>3. ASSUME NEW e \in Entry PROVE e # NoEntry
  <2>1. "general" \in DOMAIN e /\ "general" \notin DOMAIN NoEntry
    BY DEF Entry, NoEntry
  <2> QED  BY <2>1
<1> QED  BY <1>2, <1>3 DEF Entry

LEMMA LedgerFacts ==
    ASSUME NEW l \in Ledger
    PROVE  /\ l.calls \in [1..Minute -> Nat] /\ l.emits \in [1..Minute -> Nat]
           /\ l.sentence \in 0..BlockCooldown /\ l.quiet \in 0..(ClientStaleAfter + 1)
BY DEF Ledger

LEMMA TrackedFacts ==
    ASSUME GuardTypeOK, NEW k \in Clients
    PROVE  /\ ledger[k] \in Ledger
           /\ (k \in Tracked) = (entry[k] \in Entry)
           /\ k \notin Tracked => entry[k] = NoEntry
BY EntryFacts DEF GuardTypeOK, Tracked

LEMMA GuardStart == GuardInit => GuardInv
<1> SUFFICES ASSUME GuardInit PROVE GuardInv
  OBVIOUS
<1>1. Blank \in Ledger
  BY GuardNumbers DEF Blank, Ledger
<1>2. GuardTypeOK
  BY <1>1 DEF GuardInit, GuardTypeOK
<1>3. ASSUME NEW k \in Clients PROVE Paid(k)
  <2>1. ledger[k] = Blank /\ k \notin Tracked
    BY DEF GuardInit, Tracked
  <2>2. Blank.quiet = ClientStaleAfter + 1 /\ \A i \in 1..Minute : Blank.calls[i] = 0 /\ Blank.emits[i] = 0
    BY DEF Blank
  <2> QED  BY <2>1, <2>2 DEF Paid
<1> QED  BY <1>2, <1>3 DEF GuardInv

(* A tick refills, and brings every deadline nearer.                       *)
LEMMA LessOneFacts ==
    /\ \A n \in Nat, b \in Nat : n \in 0..b => LessOne(n) \in 0..b
    /\ \A n \in 0..(ClientStaleAfter + 1) :
          /\ AtMost(ClientStaleAfter + 1, n + 1) \in 0..(ClientStaleAfter + 1)
          /\ AtMost(ClientStaleAfter + 1, n + 1) <= n + 1
          /\ AtMost(ClientStaleAfter + 1, n + 1) <= ClientStaleAfter => n <= ClientStaleAfter
          /\ n = ClientStaleAfter + 1 => AtMost(ClientStaleAfter + 1, n + 1) = n
BY GuardNumbers DEF LessOne, AtMost

LEMMA TickKeeps ==
    ASSUME GuardInv, Tick
    PROVE  GuardInv'
<1>1. GuardTypeOK
  BY DEF GuardInv
<1>2. ASSUME NEW k \in Clients
      PROVE  /\ ledger'[k] \in Ledger
             /\ ledger'[k].calls = Slid(ledger[k].calls)
             /\ ledger'[k].emits = Slid(ledger[k].emits)
             /\ ledger'[k].sentence = LessOne(ledger[k].sentence)
             /\ ledger'[k].quiet = AtMost(ClientStaleAfter + 1, ledger[k].quiet + 1)
  <2>1. PICK l \in Ledger : l = ledger[k]
    BY <1>1, TrackedFacts
  <2>2. /\ l.calls \in [1..Minute -> Nat] /\ l.emits \in [1..Minute -> Nat]
        /\ l.sentence \in 0..BlockCooldown /\ l.quiet \in 0..(ClientStaleAfter + 1)
    BY LedgerFacts
  <2>3. PICK c \in [1..Minute -> Nat] : c = Slid(l.calls)
    BY <2>2, SlidTyped
  <2>4. PICK e \in [1..Minute -> Nat] : e = Slid(l.emits)
    BY <2>2, SlidTyped
  <2>5. PICK s \in 0..BlockCooldown : s = LessOne(l.sentence)
    BY <2>2, GuardNumbers DEF LessOne
  <2>6. PICK q \in 0..(ClientStaleAfter + 1) : q = AtMost(ClientStaleAfter + 1, l.quiet + 1)
    BY LedgerFacts, LessOneFacts
  <2>7. ledger'[k] = [l EXCEPT !.calls = c, !.emits = e, !.sentence = s, !.quiet = q]
    BY <2>1, <2>3, <2>4, <2>5, <2>6 DEF Tick
  <2> QED  BY <2>1, <2>3, <2>4, <2>5, <2>6, <2>7 DEF Ledger
<1>3. ASSUME NEW k \in Clients, k \in Tracked
      PROVE  /\ entry'[k] \in Entry
             /\ entry'[k].general = Refilled(entry[k].general, RatePerMin)
             /\ entry'[k].emit = Refilled(entry[k].emit, EmitRatePerMin)
             /\ entry'[k].blocked = LessOne(entry[k].blocked)
             /\ entry'[k].idle = AtMost(ClientStaleAfter + 1, entry[k].idle + 1)
  <2>1. PICK o \in Entry : o = entry[k]
    BY <1>1, <1>3, TrackedFacts
  <2>2. PICK g \in 0..(RatePerMin * Minute) : g = Refilled(o.general, RatePerMin)
    <3>1. PICK full \in Nat : full = RatePerMin * Minute
      BY GuardNumbers
    <3>2. o.general \in 0..full
      BY <3>1, EntryFacts
    <3>3. Refilled(o.general, RatePerMin) = IF o.general + RatePerMin > full THEN full ELSE o.general + RatePerMin
      BY <3>1 DEF Refilled, AtMost
    <3>4. Refilled(o.general, RatePerMin) \in 0..full
      BY <3>2, <3>3, GuardNumbers
    <3> QED  BY <3>1, <3>4
  <2>3. PICK m \in 0..(EmitRatePerMin * Minute) : m = Refilled(o.emit, EmitRatePerMin)
    <3>1. PICK full \in Nat : full = EmitRatePerMin * Minute
      BY GuardNumbers
    <3>2. o.emit \in 0..full
      BY <3>1, EntryFacts
    <3>3. Refilled(o.emit, EmitRatePerMin) = IF o.emit + EmitRatePerMin > full THEN full ELSE o.emit + EmitRatePerMin
      BY <3>1 DEF Refilled, AtMost
    <3>4. Refilled(o.emit, EmitRatePerMin) \in 0..full
      BY <3>2, <3>3, GuardNumbers
    <3> QED  BY <3>1, <3>4
  <2>4. PICK b \in 0..BlockCooldown : b = LessOne(o.blocked)
    BY EntryFacts, LessOneFacts, GuardNumbers
  <2>5. PICK q \in 0..(ClientStaleAfter + 1) : q = AtMost(ClientStaleAfter + 1, o.idle + 1)
    BY EntryFacts, LessOneFacts
  <2>6. entry'[k] = Aged(o)
    BY <1>3, <2>1 DEF Tick
  <2>7. Aged(o) = [o EXCEPT !.general = g, !.emit = m, !.blocked = b, !.idle = q]
    BY <2>2, <2>3, <2>4, <2>5 DEF Aged
  <2>8. PICK G : G = 0..(RatePerMin * Minute)
    OBVIOUS
  <2>9. PICK M : M = 0..(EmitRatePerMin * Minute)
    OBVIOUS
  <2>10. Entry = [general : G, emit : M, throttleHits : 0..BlockThreshold, blocked : 0..BlockCooldown,
                 idle : 0..(ClientStaleAfter + 1)]
    BY <2>8, <2>9 DEF Entry
  <2>11. g \in G /\ m \in M
    BY <2>8, <2>9
  <2> HIDE DEF Entry
  <2>12. /\ entry'[k] \in Entry
        /\ entry'[k].general = g /\ entry'[k].emit = m /\ entry'[k].blocked = b /\ entry'[k].idle = q
    BY <2>6, <2>7, <2>10, <2>11
  <2> QED  BY <2>1, <2>2, <2>3, <2>4, <2>5, <2>12
<1>4. ASSUME NEW k \in Clients, k \notin Tracked PROVE entry'[k] = NoEntry
  BY <1>4 DEF Tick
<1>5. \A k \in Clients : (k \in Tracked') = (k \in Tracked)
  BY <1>3, <1>4, EntryFacts DEF Tracked
<1>6. GuardTypeOK'
  <2>1. entry' = [k \in Clients |-> entry'[k]] /\ ledger' = [k \in Clients |-> ledger'[k]]
    BY DEF Tick
  <2> QED  BY <1>2, <1>3, <1>4, <2>1 DEF GuardTypeOK
<1>7. ASSUME NEW k \in Clients PROVE Paid(k)'
  <2>1. PICK l \in Ledger : l = ledger[k]
    BY <1>1, TrackedFacts
  <2>2. PICK n \in Ledger : n = ledger'[k]
    BY <1>2
  <2>3. Paid(k)
    BY DEF GuardInv
  <2>4. /\ n.calls = Slid(l.calls) /\ n.emits = Slid(l.emits) /\ n.sentence = LessOne(l.sentence)
        /\ n.quiet = AtMost(ClientStaleAfter + 1, l.quiet + 1)
    BY <1>2, <2>1, <2>2
  <2>5. l.quiet \in 0..(ClientStaleAfter + 1) /\ n.quiet \in 0..(ClientStaleAfter + 1)
    BY LedgerFacts
  <2>6. n.quiet <= l.quiet + 1
    BY <2>4, <2>5, LessOneFacts
  <2>7. ASSUME NEW i \in 1..Minute, i <= n.quiet PROVE n.calls[i] = 0 /\ n.emits[i] = 0
    <3>1. CASE i = 1
      BY <2>4, <3>1 DEF Slid
    <3>2. CASE i # 1
      <4>1. i - 1 \in 1..Minute /\ i - 1 <= l.quiet
        BY <2>5, <2>6, <2>7, <3>2, GuardNumbers
      <4>2. l.calls[i - 1] = 0 /\ l.emits[i - 1] = 0
        BY <2>1, <2>3, <4>1 DEF Paid
      <4> QED  BY <2>4, <3>2, <4>2 DEF Slid
    <3> QED  BY <3>1, <3>2
  <2>8. k \notin Tracked => n.quiet = ClientStaleAfter + 1
    BY <2>1, <2>3, <2>4, <2>5, LessOneFacts DEF Paid
  <2>9. ASSUME k \in Tracked
        PROVE  /\ entry'[k].idle = n.quiet
               /\ n.quiet <= ClientStaleAfter => entry'[k].blocked = n.sentence
               /\ Within(n.calls, entry'[k].general, RatePerMin)
               /\ Within(n.emits, entry'[k].emit, EmitRatePerMin)
    <3>1. PICK o \in Entry : o = entry[k]
      BY <1>1, <2>9, TrackedFacts
    <3>2. /\ o.idle = l.quiet
          /\ l.quiet <= ClientStaleAfter => o.blocked = l.sentence
          /\ Within(l.calls, o.general, RatePerMin) /\ Within(l.emits, o.emit, EmitRatePerMin)
      BY <2>1, <2>3, <2>9, <3>1 DEF Paid
    <3>3. entry'[k].idle = n.quiet
      BY <1>3, <2>4, <2>9, <3>1, <3>2
    <3>4. n.quiet <= ClientStaleAfter => entry'[k].blocked = n.sentence
      BY <1>3, <2>4, <2>5, <2>9, <3>1, <3>2, LessOneFacts
    <3>5. /\ o.general \in 0..(RatePerMin * Minute) /\ o.emit \in 0..(EmitRatePerMin * Minute)
          /\ l.calls \in [1..Minute -> Nat] /\ l.emits \in [1..Minute -> Nat]
      BY EntryFacts, LedgerFacts
    <3>6. RatePerMin \in Nat \ {0} /\ EmitRatePerMin \in Nat \ {0}
      BY GuardNumbers
    <3>7. Within(n.calls, Refilled(o.general, RatePerMin), RatePerMin)
      BY <2>4, <3>2, <3>5, <3>6, WithinTick
    <3>8. Within(n.emits, Refilled(o.emit, EmitRatePerMin), EmitRatePerMin)
      BY <2>4, <3>2, <3>5, <3>6, WithinTick
    <3> QED  BY <1>3, <2>9, <3>1, <3>3, <3>4, <3>7, <3>8
  <2> QED  BY <1>5, <2>2, <2>7, <2>8, <2>9 DEF Paid, Within
<1> QED  BY <1>6, <1>7 DEF GuardInv

-----------------------------------------------------------------------------
(* What a call finds: an entry that was kept, or a new one.                *)
LEMMA FoundFacts ==
    ASSUME GuardInv, NEW k \in Clients
    PROVE  /\ Found(k) \in Entry /\ Found(k).idle = 0
           /\ Record(k) \in Ledger /\ Record(k).quiet = ledger[k].quiet
           /\ Record(k).calls = ledger[k].calls /\ Record(k).emits = ledger[k].emits
           /\ Found(k).blocked = Record(k).sentence
           /\ Within(ledger[k].calls, Found(k).general, RatePerMin)
           /\ Within(ledger[k].emits, Found(k).emit, EmitRatePerMin)
<1>1. GuardTypeOK /\ Paid(k) /\ ClientStaleAfter \in Nat
  BY GuardNumbers DEF GuardInv
<1>2. PICK l \in Ledger : l = ledger[k]
  BY <1>1, TrackedFacts
<1>3. /\ l.calls \in [1..Minute -> Nat] /\ l.emits \in [1..Minute -> Nat]
      /\ l.sentence \in 0..BlockCooldown /\ l.quiet \in 0..(ClientStaleAfter + 1)
  BY LedgerFacts
<1>4. PICK s \in 0..BlockCooldown : s = IF l.quiet > ClientStaleAfter THEN 0 ELSE l.sentence
  BY <1>3, GuardNumbers
<1>5. Record(k) = [l EXCEPT !.sentence = s]
  BY <1>2, <1>4 DEF Record
<1>6. /\ Record(k) \in Ledger /\ Record(k).quiet = l.quiet /\ Record(k).sentence = s
      /\ Record(k).calls = l.calls /\ Record(k).emits = l.emits
  BY <1>5 DEF Ledger
<1>7. CASE k \in Tracked /\ l.quiet <= ClientStaleAfter
  <2>1. PICK e \in Entry : e = entry[k]
    BY <1>1, <1>7, TrackedFacts
  <2>2. /\ e.idle = l.quiet /\ e.blocked = l.sentence
        /\ Within(l.calls, e.general, RatePerMin) /\ Within(l.emits, e.emit, EmitRatePerMin)
    BY <1>1, <1>2, <1>7, <2>1 DEF Paid
  <2>3. Swept[k] = e
    BY <1>1, <1>3, <1>7, <2>1, <2>2 DEF Swept
  <2>4. Found(k) = [e EXCEPT !.idle = 0]
    BY <2>3, EntryFacts DEF Found
  <2>5. /\ Found(k) \in Entry /\ Found(k).idle = 0 /\ Found(k).blocked = e.blocked
        /\ Found(k).general = e.general /\ Found(k).emit = e.emit
    BY <1>1, <2>4 DEF Entry
  <2>6. s = l.sentence
    BY <1>1, <1>3, <1>4, <1>7
  <2> QED  BY <1>2, <1>6, <2>2, <2>5, <2>6
<1>8. CASE ~(k \in Tracked /\ l.quiet <= ClientStaleAfter)
  <2>1. l.quiet = ClientStaleAfter + 1
    BY <1>1, <1>2, <1>3, <1>8 DEF Paid
  <2>2. Swept[k] = NoEntry
    <3>1. CASE k \in Tracked
      <4>1. entry[k].idle > ClientStaleAfter
        BY <1>1, <1>2, <2>1, <3>1 DEF Paid
      <4> QED  BY <3>1, <4>1 DEF Swept
    <3>2. CASE k \notin Tracked
      BY <1>1, <3>2, TrackedFacts DEF Swept
    <3> QED  BY <3>1, <3>2
  <2>3. Found(k) = NewEntry
    BY <2>2 DEF Found
  <2>4. /\ NewEntry.idle = 0 /\ NewEntry.blocked = 0
        /\ NewEntry.general = RatePerMin * Minute /\ NewEntry.emit = EmitRatePerMin * Minute
    BY DEF NewEntry
  <2>5. \A i \in 1..Minute : l.calls[i] = 0 /\ l.emits[i] = 0
    BY <1>1, <1>2, <2>1, GuardNumbers DEF Paid
  <2>6. RatePerMin \in Nat \ {0} /\ EmitRatePerMin \in Nat \ {0}
    BY GuardNumbers
  <2>7. Within(l.calls, RatePerMin * Minute, RatePerMin)
    BY <1>3, <2>5, <2>6, WithinFresh
  <2>8. Within(l.emits, EmitRatePerMin * Minute, EmitRatePerMin)
    BY <1>3, <2>5, <2>6, WithinFresh
  <2>9. s = 0
    BY <1>1, <1>4, <2>1
  <2> QED  BY <1>2, <1>6, <2>3, <2>4, <2>7, <2>8, <2>9, EntryFacts
<1> QED  BY <1>7, <1>8

LEMMA CheckedKeeps ==
    ASSUME GuardInv, NEW k \in Clients, NEW e \in Entry, NEW l \in Ledger,
           e.idle = 0, e.blocked = l.sentence,
           Within(l.calls, e.general, RatePerMin), Within(l.emits, e.emit, EmitRatePerMin),
           Checked(k, e, l)
    PROVE  GuardInv'
<1>1. GuardTypeOK /\ ClientStaleAfter \in Nat
  BY GuardNumbers DEF GuardInv
<1>2. /\ Swept = [j \in Clients |-> Swept[j]]
      /\ \A j \in Clients : Swept[j] = entry[j] \/ Swept[j] = NoEntry
  BY DEF Swept
<1>3. Swept \in [Clients -> Entry \cup {NoEntry}]
  BY <1>1, <1>2 DEF GuardTypeOK
<1> HIDE DEF Swept
<1>4. /\ entry' \in [Clients -> Entry \cup {NoEntry}] /\ entry'[k] = e
      /\ \A j \in Clients : j # k => entry'[j] = Swept[j]
  BY <1>3 DEF Checked
<1>5. PICK n \in Ledger : n = [l EXCEPT !.quiet = 0]
  <2>1. 0 \in 0..(ClientStaleAfter + 1)
    BY <1>1
  <2> QED  BY <2>1 DEF Ledger
<1>6. /\ n.quiet = 0 /\ n.calls = l.calls /\ n.emits = l.emits /\ n.sentence = l.sentence
  BY <1>5 DEF Ledger
<1>7. /\ ledger' \in [Clients -> Ledger] /\ ledger'[k] = n
      /\ \A j \in Clients : j # k => ledger'[j] = ledger[j]
  BY <1>1, <1>5 DEF Checked, GuardTypeOK
<1>8. GuardTypeOK'
  BY <1>4, <1>7 DEF GuardTypeOK
<1>9. Paid(k)'
  <2>1. k \in Tracked'
    BY <1>4, EntryFacts DEF Tracked
  <2>2. \A i \in 1..Minute : ~(i <= n.quiet)
    BY <1>6, GuardNumbers
  <2> QED  BY <1>4, <1>6, <1>7, <2>1, <2>2 DEF Paid, Within
<1>10. ASSUME NEW j \in Clients, j # k PROVE Paid(j)'
  <2>1. Paid(j)
    BY DEF GuardInv
  <2>2. CASE Swept[j] = entry[j]
    <3>1. entry'[j] = entry[j] /\ ledger'[j] = ledger[j] /\ (j \in Tracked') = (j \in Tracked)
      BY <1>4, <1>7, <1>10, <2>2 DEF Tracked
    <3> QED  BY <2>1, <3>1 DEF Paid, Within
  <2>3. CASE Swept[j] # entry[j]
    <3>1. j \in Tracked /\ entry[j].idle > ClientStaleAfter /\ entry'[j] = NoEntry
      BY <1>4, <1>10, <2>3 DEF Swept
    <3>2. ledger[j] \in Ledger /\ ledger'[j] = ledger[j] /\ j \notin Tracked'
      BY <1>1, <1>7, <1>10, <3>1, TrackedFacts DEF Tracked
    <3>3. ledger[j].quiet = ClientStaleAfter + 1
      BY <1>1, <2>1, <3>1, <3>2, LedgerFacts DEF Paid
    <3> QED  BY <2>1, <3>2, <3>3 DEF Paid
  <2> QED  BY <2>2, <2>3
<1> QED  BY <1>8, <1>9, <1>10 DEF GuardInv

(* What is spent of the two buckets.                                       *)
LEMMA SpendFacts ==
    ASSUME NEW e \in Entry, NEW emit \in BOOLEAN
    PROVE  /\ Spend(e, emit) \in Entry /\ Spend(e, emit).idle = e.idle
           /\ Spend(e, emit).blocked = e.blocked
           /\ Spend(e, emit).throttleHits = e.throttleHits
           /\ Spend(e, emit).general = IF HasToken(e.general) THEN e.general - Minute ELSE e.general
           /\ Spend(e, emit).emit = IF HasToken(e.general) /\ emit /\ HasToken(e.emit)
                                    THEN e.emit - Minute ELSE e.emit
<1>1. Minute \in Nat \ {0}
  BY GuardNumbers
<1>2. PICK G : G = 0..(RatePerMin * Minute)
  OBVIOUS
<1>3. PICK M : M = 0..(EmitRatePerMin * Minute)
  OBVIOUS
<1>4. Entry = [general : G, emit : M, throttleHits : 0..BlockThreshold, blocked : 0..BlockCooldown,
               idle : 0..(ClientStaleAfter + 1)]
  BY <1>2, <1>3 DEF Entry
<1>5. HasToken(e.general) => e.general - Minute \in G
  <2>1. PICK full \in Nat : full = RatePerMin * Minute
    BY GuardNumbers
  <2>2. e.general \in 0..full
    BY <2>1, EntryFacts
  <2> QED  BY <1>1, <1>2, <2>1, <2>2 DEF HasToken
<1>6. HasToken(e.emit) => e.emit - Minute \in M
  <2>1. PICK full \in Nat : full = EmitRatePerMin * Minute
    BY GuardNumbers
  <2>2. e.emit \in 0..full
    BY <2>1, EntryFacts
  <2> QED  BY <1>1, <1>3, <2>1, <2>2 DEF HasToken
<1>7. e.emit \in M
  BY <1>3, EntryFacts
<1> HIDE DEF Entry
<1>8. CASE ~HasToken(e.general)
  BY <1>8 DEF Spend
<1>9. CASE HasToken(e.general)
  <2>1. PICK m \in M : m = IF emit /\ HasToken(e.emit) THEN e.emit - Minute ELSE e.emit
    BY <1>6, <1>7
  <2>2. PICK g \in G : g = e.general - Minute
    BY <1>5, <1>9
  <2>3. Spend(e, emit) = [e EXCEPT !.general = g, !.emit = m]
    BY <1>9, <2>1, <2>2 DEF Spend
  <2>4. /\ Spend(e, emit) \in Entry /\ Spend(e, emit).idle = e.idle
        /\ Spend(e, emit).blocked = e.blocked /\ Spend(e, emit).throttleHits = e.throttleHits
        /\ Spend(e, emit).general = g /\ Spend(e, emit).emit = m
    BY <1>4, <2>3
  <2> QED  BY <1>9, <2>1, <2>2, <2>4
<1> QED  BY <1>8, <1>9

LEMMA TrippedFacts ==
    ASSUME NEW e \in Entry, e.blocked = 0
    PROVE  /\ Tripped(e) \in Entry /\ Tripped(e).idle = e.idle
           /\ Tripped(e).general = e.general /\ Tripped(e).emit = e.emit
           /\ Tripped(e).blocked \in 0..BlockCooldown
<1>1. e.throttleHits + 1 < BlockThreshold => e.throttleHits + 1 \in 0..BlockThreshold
  BY EntryFacts, GuardNumbers
<1>2. BlockCooldown \in 0..BlockCooldown /\ 0 \in 0..BlockThreshold /\ 0 \in 0..BlockCooldown
  BY GuardNumbers
<1>3. CASE e.throttleHits + 1 >= BlockThreshold
  <2>1. Tripped(e) = [e EXCEPT !.blocked = BlockCooldown, !.throttleHits = 0]
    BY <1>3 DEF Tripped
  <2> QED  BY <1>2, <2>1 DEF Entry
<1>4. CASE ~(e.throttleHits + 1 >= BlockThreshold)
  <2>1. Tripped(e) = [e EXCEPT !.throttleHits = e.throttleHits + 1]
    BY <1>4 DEF Tripped
  <2>2. e.throttleHits + 1 \in 0..BlockThreshold
    BY <1>1, <1>4, EntryFacts, GuardNumbers
  <2> QED  BY <1>2, <2>1, <2>2 DEF Entry
<1> QED  BY <1>3, <1>4

-----------------------------------------------------------------------------
LEMMA ServedKeeps ==
    ASSUME GuardInv, NEW k \in Clients, NEW emit \in BOOLEAN, Served(k, emit)
    PROVE  GuardInv'
<1>1. PICK f \in Entry : f = Found(k)
  BY FoundFacts
<1>2. PICK r \in Ledger : r = Record(k)
  BY FoundFacts
<1>3. PICK sp \in Entry : sp = Spend(f, emit)
  BY SpendFacts
<1>4. r.calls \in [1..Minute -> Nat] /\ r.emits \in [1..Minute -> Nat]
  BY LedgerFacts
<1>5. PICK c \in [1..Minute -> Nat] : c = OneMore(r.calls)
  BY <1>4, OneMoreTyped
<1>6. PICK m \in [1..Minute -> Nat] : m = IF emit THEN OneMore(r.emits) ELSE r.emits
  BY <1>4, OneMoreTyped
<1>7. PICK e \in Entry : e = [sp EXCEPT !.throttleHits = 0]
  <2>1. 0 \in 0..BlockThreshold
    BY GuardNumbers
  <2> QED  BY <2>1 DEF Entry
<1>8. PICK l \in Ledger : l = [r EXCEPT !.calls = c, !.emits = m]
  BY DEF Ledger
<1>9. Checked(k, e, l) /\ f.blocked = 0 /\ HasToken(f.general) /\ (emit => HasToken(f.emit))
  BY <1>1, <1>2, <1>3, <1>5, <1>6, <1>7, <1>8 DEF Served, Passes
<1>10. /\ e.idle = sp.idle /\ e.blocked = sp.blocked /\ e.general = sp.general /\ e.emit = sp.emit
  BY <1>7 DEF Entry
<1>11. l.calls = c /\ l.emits = m /\ l.sentence = r.sentence
  BY <1>8 DEF Ledger
<1>12. /\ f.idle = 0 /\ f.blocked = r.sentence
       /\ Within(r.calls, f.general, RatePerMin) /\ Within(r.emits, f.emit, EmitRatePerMin)
  BY <1>1, <1>2, FoundFacts
<1>13. /\ sp.idle = 0 /\ sp.blocked = r.sentence /\ sp.general = f.general - Minute
       /\ sp.emit = IF emit THEN f.emit - Minute ELSE f.emit
  BY <1>3, <1>9, <1>12, SpendFacts
<1>14. /\ RatePerMin \in Nat \ {0} /\ EmitRatePerMin \in Nat \ {0}
       /\ f.general \in 0..(RatePerMin * Minute) /\ f.emit \in 0..(EmitRatePerMin * Minute)
       /\ r.calls \in [1..Minute -> Nat] /\ r.emits \in [1..Minute -> Nat]
  BY GuardNumbers, EntryFacts, LedgerFacts
<1>15. Within(l.calls, e.general, RatePerMin)
  BY <1>5, <1>9, <1>10, <1>11, <1>12, <1>13, <1>14, WithinServed
<1>16. Within(l.emits, e.emit, EmitRatePerMin)
  <2>1. CASE emit
    BY <1>6, <1>9, <1>10, <1>11, <1>12, <1>13, <1>14, <2>1, WithinServed
  <2>2. CASE ~emit
    BY <1>6, <1>10, <1>11, <1>12, <1>13, <2>2
  <2> QED  BY <2>1, <2>2
<1> QED  BY <1>9, <1>10, <1>11, <1>13, <1>15, <1>16, CheckedKeeps

LEMMA ThrottledKeeps ==
    ASSUME GuardInv, NEW k \in Clients, NEW emit \in BOOLEAN, Throttled(k, emit)
    PROVE  GuardInv'
<1>1. PICK f \in Entry : f = Found(k)
  BY FoundFacts
<1>2. PICK r \in Ledger : r = Record(k)
  BY FoundFacts
<1>3. PICK sp \in Entry : sp = Spend(f, emit)
  BY SpendFacts
<1>4. /\ f.idle = 0 /\ f.blocked = r.sentence /\ f.blocked = 0
      /\ Within(r.calls, f.general, RatePerMin) /\ Within(r.emits, f.emit, EmitRatePerMin)
  BY <1>1, <1>2, FoundFacts DEF Throttled
<1>5. /\ sp.idle = 0 /\ sp.blocked = 0
      /\ sp.general = IF HasToken(f.general) THEN f.general - Minute ELSE f.general
      /\ sp.emit = IF HasToken(f.general) /\ emit /\ HasToken(f.emit) THEN f.emit - Minute ELSE f.emit
  BY <1>3, <1>4, SpendFacts
<1>6. PICK e \in Entry : e = Tripped(sp)
  BY <1>5, TrippedFacts
<1>7. e.idle = 0 /\ e.general = sp.general /\ e.emit = sp.emit /\ e.blocked \in 0..BlockCooldown
  BY <1>5, <1>6, TrippedFacts
<1>8. PICK s \in 0..BlockCooldown : s = IF e.blocked > 0 THEN e.blocked ELSE r.sentence
  BY <1>7, LedgerFacts
<1>9. PICK l \in Ledger : l = [r EXCEPT !.sentence = s]
  BY DEF Ledger
<1>10. Checked(k, e, l)
  BY <1>1, <1>2, <1>3, <1>6, <1>8, <1>9 DEF Throttled
<1>11. l.calls = r.calls /\ l.emits = r.emits /\ l.sentence = s
  BY <1>9 DEF Ledger
<1>12. e.blocked = s
  <2>1. PICK b \in Nat : b = e.blocked
    BY <1>7, GuardNumbers
  <2>2. r.sentence = 0
    BY <1>4
  <2> QED  BY <1>8, <2>1, <2>2
<1>13. /\ RatePerMin \in Nat \ {0} /\ EmitRatePerMin \in Nat \ {0}
       /\ f.general \in 0..(RatePerMin * Minute) /\ f.emit \in 0..(EmitRatePerMin * Minute)
       /\ r.calls \in [1..Minute -> Nat] /\ r.emits \in [1..Minute -> Nat]
  BY GuardNumbers, EntryFacts, LedgerFacts
<1>14. sp.general \in Nat /\ sp.general <= f.general
  <2>1. PICK t \in Nat : t = f.general
    <3>1. RatePerMin * Minute \in Nat
      BY GuardNumbers
    <3> QED  BY <1>13, <3>1
  <2> QED  BY <1>5, <2>1, GuardNumbers DEF HasToken
<1>15. sp.emit \in Nat /\ sp.emit <= f.emit
  <2>1. PICK t \in Nat : t = f.emit
    <3>1. EmitRatePerMin * Minute \in Nat
      BY GuardNumbers
    <3> QED  BY <1>13, <3>1
  <2> QED  BY <1>5, <2>1, GuardNumbers DEF HasToken
<1>16. Within(l.calls, e.general, RatePerMin)
  BY <1>4, <1>7, <1>11, <1>13, <1>14, WithinSpent
<1>17. Within(l.emits, e.emit, EmitRatePerMin)
  BY <1>4, <1>7, <1>11, <1>13, <1>15, WithinSpent
<1> QED  BY <1>7, <1>10, <1>11, <1>12, <1>16, <1>17, CheckedKeeps

LEMMA BlockedKeeps ==
    ASSUME GuardInv, NEW k \in Clients, Blocked(k)
    PROVE  GuardInv'
BY FoundFacts, CheckedKeeps DEF Blocked

LEMMA GuardStep == GuardInv /\ [GuardNext]_guardVars => GuardInv'
<1> SUFFICES ASSUME GuardInv, [GuardNext]_guardVars PROVE GuardInv'
  OBVIOUS
<1>1. CASE Tick
  BY <1>1, TickKeeps
<1>2. ASSUME NEW k \in Clients, Blocked(k) PROVE GuardInv'
  BY <1>2, BlockedKeeps
<1>3. ASSUME NEW k \in Clients, NEW emit \in BOOLEAN, Served(k, emit) PROVE GuardInv'
  BY <1>3, ServedKeeps
<1>4. ASSUME NEW k \in Clients, NEW emit \in BOOLEAN, Throttled(k, emit) PROVE GuardInv'
  BY <1>4, ThrottledKeeps
<1>5. CASE UNCHANGED guardVars
  BY <1>5 DEF guardVars, GuardInv, GuardTypeOK, Paid, Tracked, Within
<1> QED  BY <1>1, <1>2, <1>3, <1>4, <1>5 DEF GuardNext

LEMMA GuardInvSafe == GuardInv => GuardSafe
<1> SUFFICES ASSUME GuardInv PROVE GuardSafe
  OBVIOUS
<1>1. GuardTypeOK
  BY DEF GuardInv
<1>2. ASSUME NEW k \in Clients
      PROVE  /\ ledger[k].calls[Minute] <= 2 * RatePerMin
             /\ ledger[k].emits[Minute] <= 2 * EmitRatePerMin
  <2>1. PICK l \in Ledger : l = ledger[k]
    BY <1>1, TrackedFacts
  <2>2. /\ Minute \in 1..Minute /\ Minute <= ClientStaleAfter + 1 /\ ClientStaleAfter \in Nat
        /\ RatePerMin \in Nat \ {0} /\ EmitRatePerMin \in Nat \ {0}
        /\ l.calls \in [1..Minute -> Nat] /\ l.emits \in [1..Minute -> Nat]
    BY LedgerFacts, GuardNumbers
  <2>3. Paid(k)
    BY DEF GuardInv
  <2>4. CASE k \in Tracked
    <3>1. PICK e \in Entry : e = entry[k]
      BY <1>1, <2>4, TrackedFacts
    <3>2. Within(l.calls, e.general, RatePerMin) /\ Within(l.emits, e.emit, EmitRatePerMin)
      BY <2>1, <2>3, <2>4, <3>1 DEF Paid
    <3>3. e.general \in 0..(RatePerMin * Minute) /\ e.emit \in 0..(EmitRatePerMin * Minute)
      BY EntryFacts
    <3> QED  BY <2>1, <2>2, <3>2, <3>3, WithinBound
  <2>5. CASE k \notin Tracked
    <3>1. l.calls[Minute] = 0 /\ l.emits[Minute] = 0
      BY <2>1, <2>2, <2>3, <2>5 DEF Paid
    <3> QED  BY <2>1, <2>2, <3>1
  <2> QED  BY <2>4, <2>5
<1>3. BlockHolds
  <2> SUFFICES ASSUME NEW k \in Clients, ledger[k].sentence > 0, ledger[k].quiet <= ClientStaleAfter
               PROVE  k \in Tracked /\ entry[k].blocked = ledger[k].sentence
    BY DEF BlockHolds
  <2>1. Paid(k) /\ ledger[k].quiet # ClientStaleAfter + 1
    BY GuardNumbers DEF GuardInv
  <2> QED  BY <2>1 DEF Paid
<1> QED  BY <1>1, <1>2, <1>3 DEF GuardSafe, Paced

(***************************************************************************)
(* The session of an antenna (Injector)                                    *)
(***************************************************************************)
InjectCall == [at : Steps, cred : Antennas \cup {NoAntenna}, session : Sessions \cup {NoSession}]
CleverHost == [answer : [Antennas -> {"on", "off", "gone"}], known : SUBSET Sessions, issued : Nat]

(* The calls that may still ask for a first session, and for one at all.   *)
Fresh == {c \in Callers : call[c].at = "handshake"}
Owing == {c \in Callers : call[c].at \in {"handshake", "update", "post", "rehandshake"}}

(* No message asks for more than two sessions.                             *)
Issued ==
    /\ IsFiniteSet(Fresh) /\ IsFiniteSet(Owing)
    /\ host.issued + Cardinality(Fresh) + Cardinality(Owing) <= account.injects * 2

(* A call brings home what it asked for.                                   *)
InHands ==
    \A c \in Callers :
        /\ call[c].at # "idle" => account.copies[c] = 0
        /\ call[c].at \in {"update", "reupdate"} => call[c].session.of = call[c].cred
        /\ call[c].at = "gone" => call[c].cred \in account.gone

(* Unless a rewiring crossed a call, the calls are about the antenna that  *)
(* the injector has.                                                       *)
SameAntenna == ~account.crossed => \A c \in InsideInject : call[c].cred = injector.cred

InjectorInv ==
    /\ InjectorSafe /\ call \in [Callers -> InjectCall] /\ host \in CleverHost
    /\ Issued /\ InHands /\ SameAntenna

-----------------------------------------------------------------------------
FreshAt(at) == IF at = "handshake" THEN 1 ELSE 0
OwingAt(at) == IF at \in {"handshake", "update", "post", "rehandshake"} THEN 1 ELSE 0

LEMMA InjectorNumbers ==
    /\ MaxSetConfig \in Nat /\ MaxInjects \in Nat /\ MaxUpsets \in Nat
    /\ NoAntenna \notin Antennas
BY InjectorAssumption

LEMMA CountStep ==
    ASSUME NEW S, IsFiniteSet(S), NEW T, NEW c, T = S \cup {c} \/ T = S \ {c}
    PROVE  /\ IsFiniteSet(T) /\ Cardinality(T) \in Nat /\ Cardinality(S) \in Nat
           /\ Cardinality(T) + (IF c \in S THEN 1 ELSE 0) = Cardinality(S) + (IF c \in T THEN 1 ELSE 0)
<1>1. Cardinality(S) \in Nat
  BY FS_CardinalityType
<1>2. CASE T = S \cup {c}
  <2>1. /\ IsFiniteSet(S \cup {c})
        /\ Cardinality(S \cup {c}) = IF c \in S THEN Cardinality(S) ELSE Cardinality(S) + 1
    BY FS_AddElement
  <2>2. c \in T
    BY <1>2
  <2> QED  BY <1>1, <1>2, <2>1, <2>2
<1>3. CASE T = S \ {c}
  <2>1. /\ IsFiniteSet(S \ {c})
        /\ Cardinality(S \ {c}) = IF c \in S THEN Cardinality(S) - 1 ELSE Cardinality(S)
    BY FS_RemoveElement
  <2>2. c \notin T /\ Cardinality(T) \in Nat
    BY <1>3, <2>1, FS_CardinalityType
  <2> QED  BY <1>1, <1>3, <2>1, <2>2
<1> QED  BY <1>2, <1>3

(* One call goes on, the others do not.                                    *)
LEMMA CallSet ==
    ASSUME call \in [Callers -> InjectCall], Issued, NEW c \in Callers, NEW r \in InjectCall,
           call' = [call EXCEPT ![c] = r]
    PROVE  /\ call' \in [Callers -> InjectCall] /\ call'[c] = r
           /\ \A d \in Callers : d # c => call'[d] = call[d]
           /\ IsFiniteSet(Fresh') /\ IsFiniteSet(Owing')
           /\ Cardinality(Fresh') \in Nat /\ Cardinality(Fresh) \in Nat
           /\ Cardinality(Owing') \in Nat /\ Cardinality(Owing) \in Nat
           /\ Cardinality(Fresh') + FreshAt(call[c].at) = Cardinality(Fresh) + FreshAt(r.at)
           /\ Cardinality(Owing') + OwingAt(call[c].at) = Cardinality(Owing) + OwingAt(r.at)
<1>1. /\ call' \in [Callers -> InjectCall] /\ call'[c] = r
      /\ \A d \in Callers : d # c => call'[d] = call[d]
  OBVIOUS
<1>2. /\ IsFiniteSet(Fresh) /\ IsFiniteSet(Owing)
      /\ Cardinality(Fresh) \in Nat /\ Cardinality(Owing) \in Nat
  BY FS_CardinalityType DEF Issued
<1>3. FreshAt(call[c].at) = (IF c \in Fresh THEN 1 ELSE 0) /\ FreshAt(r.at) = (IF c \in Fresh' THEN 1 ELSE 0)
  BY <1>1 DEF Fresh, FreshAt
<1>4. OwingAt(call[c].at) = (IF c \in Owing THEN 1 ELSE 0) /\ OwingAt(r.at) = (IF c \in Owing' THEN 1 ELSE 0)
  BY <1>1 DEF Owing, OwingAt
<1>5. Fresh' = Fresh \cup {c} \/ Fresh' = Fresh \ {c}
  BY <1>1 DEF Fresh
<1>6. Owing' = Owing \cup {c} \/ Owing' = Owing \ {c}
  BY <1>1 DEF Owing
<1>7. /\ IsFiniteSet(Fresh') /\ Cardinality(Fresh') \in Nat
      /\ Cardinality(Fresh') + FreshAt(call[c].at) = Cardinality(Fresh) + FreshAt(r.at)
  <2>1. /\ IsFiniteSet(Fresh') /\ Cardinality(Fresh') \in Nat
        /\ Cardinality(Fresh') + (IF c \in Fresh THEN 1 ELSE 0)
              = Cardinality(Fresh) + (IF c \in Fresh' THEN 1 ELSE 0)
    BY <1>2, <1>5, CountStep
  <2> QED  BY <1>3, <2>1
<1>8. /\ IsFiniteSet(Owing') /\ Cardinality(Owing') \in Nat
      /\ Cardinality(Owing') + OwingAt(call[c].at) = Cardinality(Owing) + OwingAt(r.at)
  <2>1. /\ IsFiniteSet(Owing') /\ Cardinality(Owing') \in Nat
        /\ Cardinality(Owing') + (IF c \in Owing THEN 1 ELSE 0)
              = Cardinality(Owing) + (IF c \in Owing' THEN 1 ELSE 0)
    BY <1>2, <1>6, CountStep
  <2> QED  BY <1>4, <2>1
<1> QED  BY <1>1, <1>2, <1>7, <1>8

LEMMA AccountFacts ==
    ASSUME account \in Account
    PROVE  /\ account.crossed \in BOOLEAN /\ account.late \subseteq Callers
           /\ account.gone \subseteq Antennas /\ account.copies \in [Callers -> 0..2]
           /\ account.configs \in 0..MaxSetConfig /\ account.injects \in 0..MaxInjects
           /\ account.upsets \in 0..MaxUpsets
BY DEF Account

LEMMA CallTyped ==
    ASSUME call \in [Callers -> InjectCall], NEW c \in Callers
    PROVE  /\ call[c] \in InjectCall /\ call[c].at \in Steps
           /\ call[c].cred \in Antennas \cup {NoAntenna}
           /\ call[c].session \in Sessions \cup {NoSession}
           /\ Idle \in InjectCall /\ Idle.at = "idle"
BY DEF InjectCall, Idle, Steps

(* A step of one call keeps the invariant, given what it leaves the call,  *)
(* the injector, the host and the account with.                            *)
LEMMA CallKeeps ==
    ASSUME InjectorInv, NEW c \in Callers, NEW r \in InjectCall,
           call' = [call EXCEPT ![c] = r],
           injector' \in [cred : Antennas \cup {NoAntenna}, session : Sessions \cup {NoSession},
                          dead : BOOLEAN],
           injector'.cred = injector.cred,
           ~account.crossed =>
               /\ injector'.session.of \in {injector.cred, NoAntenna}
               /\ injector'.dead => injector.cred \in account'.gone
               /\ r.at # "idle" => r.cred = injector.cred,
           host' \in CleverHost, account' \in Account,
           account'.crossed = account.crossed, account.gone \subseteq account'.gone,
           \A d \in Callers : d # c => account'.copies[d] = account.copies[d],
           account'.copies[c] <= 1, r.at # "idle" => account'.copies[c] = 0,
           r.at \in {"update", "reupdate"} => r.session.of = r.cred,
           r.at = "gone" => r.cred \in account'.gone,
           host'.issued + FreshAt(r.at) + OwingAt(r.at) + account.injects * 2
               <= host.issued + FreshAt(call[c].at) + OwingAt(call[c].at) + account'.injects * 2
    PROVE  InjectorInv'
<1>1. /\ call \in [Callers -> InjectCall] /\ Issued /\ InHands /\ SameAntenna
      /\ host \in CleverHost /\ account \in Account
  BY DEF InjectorInv, InjectorSafe, InjectorTypeOK
<1>2. /\ call' \in [Callers -> InjectCall] /\ call'[c] = r
      /\ \A d \in Callers : d # c => call'[d] = call[d]
      /\ IsFiniteSet(Fresh') /\ IsFiniteSet(Owing')
      /\ Cardinality(Fresh') \in Nat /\ Cardinality(Fresh) \in Nat
      /\ Cardinality(Owing') \in Nat /\ Cardinality(Owing) \in Nat
      /\ Cardinality(Fresh') + FreshAt(call[c].at) = Cardinality(Fresh) + FreshAt(r.at)
      /\ Cardinality(Owing') + OwingAt(call[c].at) = Cardinality(Owing) + OwingAt(r.at)
  BY <1>1, CallSet
<1>3. host'.issued \in Nat /\ host.issued \in Nat /\ account.injects \in Nat
      /\ account'.injects \in 0..MaxInjects
  BY <1>1, AccountFacts, InjectorNumbers DEF CleverHost, Account
<1>4. host.issued + Cardinality(Fresh) + Cardinality(Owing) <= account.injects * 2
  BY <1>1 DEF Issued
<1>5. /\ FreshAt(r.at) \in Nat /\ OwingAt(r.at) \in Nat
      /\ FreshAt(call[c].at) \in Nat /\ OwingAt(call[c].at) \in Nat
  BY DEF FreshAt, OwingAt
<1>6. host'.issued + Cardinality(Fresh') + Cardinality(Owing') <= account'.injects * 2
  BY <1>2, <1>3, <1>4, <1>5, InjectorNumbers
<1>7. Issued'
  BY <1>2, <1>6 DEF Issued
<1>8. InHands'
  BY <1>1, <1>2 DEF InHands
<1>9. SameAntenna'
  <2> SUFFICES ASSUME ~account.crossed, NEW d \in InsideInject' PROVE call'[d].cred = injector.cred
    BY DEF SameAntenna
  <2>1. d \in Callers /\ call'[d].at # "idle"
    BY DEF InsideInject
  <2>2. CASE d = c
    BY <1>2, <2>1, <2>2
  <2>3. CASE d # c
    BY <1>1, <1>2, <2>1, <2>3 DEF SameAntenna, InsideInject
  <2> QED  BY <2>2, <2>3
<1>10. InjectorTypeOK'
  <2>1. \A d \in Callers : /\ call'[d].at \in Steps
                           /\ call'[d].cred \in Antennas \cup {NoAntenna}
                           /\ call'[d].session \in Sessions \cup {NoSession}
    BY <1>2 DEF InjectCall
  <2>2. host'.issued \in 0..(MaxInjects * 2)
    BY <1>2, <1>3, <1>6, InjectorNumbers
  <2> QED  BY <2>1, <2>2 DEF InjectorTypeOK, CleverHost
<1>11. TypedOnce'
  BY DEF TypedOnce, InjectorInv, InjectorSafe
<1>12. SessionIsOwn'
  BY DEF SessionIsOwn
<1> QED  BY <1>2, <1>7, <1>8, <1>9, <1>10, <1>11, <1>12 DEF InjectorInv, InjectorSafe

LEMMA InjectorStart == InjectorInit => InjectorInv
<1> SUFFICES ASSUME InjectorInit PROVE InjectorInv
  OBVIOUS
<1>1. /\ Idle \in InjectCall /\ Idle.at = "idle" /\ call = [c \in Callers |-> Idle]
  BY DEF InjectCall, Idle, Steps, InjectorInit
<1>2. \A c \in Callers : call[c] = Idle
  BY <1>1
<1>3. host \in CleverHost /\ host.issued = 0 /\ host.known = {}
      /\ host.answer \in [Antennas -> {"on", "off", "gone"}]
  BY DEF InjectorInit, CleverHost
<1>4. account \in Account /\ account.injects = 0 /\ \A c \in Callers : account.copies[c] = 0
  <2>1. 0 \in 0..MaxSetConfig /\ 0 \in 0..MaxInjects /\ 0 \in 0..MaxUpsets
    BY InjectorNumbers
  <2>2. [c \in Callers |-> 0] \in [Callers -> 0..2]
    OBVIOUS
  <2> QED  BY <2>1, <2>2 DEF InjectorInit, Account
<1>5. Fresh = {} /\ Owing = {} /\ InsideInject = {}
  BY <1>1, <1>2 DEF Fresh, Owing, InsideInject
<1>6. Issued
  BY <1>3, <1>4, <1>5, FS_EmptySet DEF Issued
<1>7. /\ injector \in [cred : Antennas \cup {NoAntenna}, session : Sessions \cup {NoSession}, dead : BOOLEAN]
      /\ injector.session.of = NoAntenna /\ ~injector.dead
  <2>1. PICK a \in Antennas \cup {NoAntenna} : injector = [cred |-> a, session |-> NoSession, dead |-> FALSE]
    BY DEF InjectorInit
  <2> QED  BY <2>1 DEF NoSession
<1>8. InjectorTypeOK
  <2>1. \A c \in Callers : /\ call[c].at \in Steps
                           /\ call[c].cred \in Antennas \cup {NoAntenna}
                           /\ call[c].session \in Sessions \cup {NoSession}
    BY <1>1, <1>2 DEF InjectCall
  <2>2. 0 \in 0..(MaxInjects * 2)
    BY InjectorNumbers
  <2> QED  BY <1>3, <1>4, <1>7, <2>1, <2>2 DEF InjectorTypeOK
<1>9. InHands
  BY <1>1, <1>2, <1>4 DEF InHands
<1> QED  BY <1>1, <1>3, <1>4, <1>5, <1>6, <1>7, <1>8, <1>9
         DEF InjectorInv, InjectorSafe, TypedOnce, SessionIsOwn, SameAntenna

-----------------------------------------------------------------------------
(* The host is upset, and the owner rewires the antenna.                   *)
LEMMA UpsetKeeps ==
    ASSUME InjectorInv, NEW newHost \in CleverHost, newHost.issued = host.issued, Upset(newHost)
    PROVE  InjectorInv'
<1>1. /\ UNCHANGED <<injector, call>> /\ host' \in CleverHost /\ host'.issued = host.issued
      /\ account \in Account /\ account.upsets < MaxUpsets
      /\ account' = [account EXCEPT !.upsets = @ + 1]
  BY DEF Upset, InjectorInv, InjectorSafe, InjectorTypeOK
<1>2. /\ account' \in Account /\ account'.crossed = account.crossed /\ account'.gone = account.gone
      /\ account'.copies = account.copies /\ account'.injects = account.injects
  <2>1. account.upsets + 1 \in 0..MaxUpsets
    BY <1>1, AccountFacts, InjectorNumbers
  <2> QED  BY <1>1, <2>1 DEF Account
<1>3. Fresh' = Fresh /\ Owing' = Owing /\ InsideInject' = InsideInject
  BY <1>1 DEF Fresh, Owing, InsideInject
<1>4. Issued' /\ InHands' /\ SameAntenna'
  BY <1>1, <1>2, <1>3 DEF InjectorInv, Issued, InHands, SameAntenna
<1>5. InjectorTypeOK'
  BY <1>1, <1>2 DEF InjectorInv, InjectorSafe, InjectorTypeOK, CleverHost
<1>6. TypedOnce' /\ SessionIsOwn'
  BY <1>1, <1>2 DEF InjectorInv, InjectorSafe, TypedOnce, SessionIsOwn
<1> QED  BY <1>1, <1>4, <1>5, <1>6 DEF InjectorInv, InjectorSafe

LEMMA HostKeeps ==
    ASSUME InjectorInv,
           \/ \E a \in Antennas, answer \in {"on", "off", "gone"} : SwitchAntenna(a, answer)
           \/ \E h \in Hosts : HostRestarts(h)
    PROVE  InjectorInv'
<1>1. host \in CleverHost
  BY DEF InjectorInv
<1>2. ASSUME NEW a \in Antennas, NEW answer \in {"on", "off", "gone"}, SwitchAntenna(a, answer)
      PROVE  InjectorInv'
  <2> DEFINE ans == [host.answer EXCEPT ![a] = answer]
             kno == {s \in host.known : s.of = a => answer # "gone"}
             new == [host EXCEPT !.answer = ans, !.known = kno]
  <2>1. ans \in [Antennas -> {"on", "off", "gone"}] /\ kno \in SUBSET Sessions
    BY <1>1 DEF CleverHost
  <2>2. [host EXCEPT !.answer[a] = answer, !.known = {s \in @ : s.of = a => answer # "gone"}] = new
    BY <1>1 DEF CleverHost
  <2> HIDE DEF ans, kno
  <2>3. new \in CleverHost /\ new.issued = host.issued
    BY <1>1, <2>1 DEF CleverHost
  <2>4. Upset(new)
    BY <1>2, <2>2 DEF SwitchAntenna
  <2> HIDE DEF new
  <2> QED  BY <2>3, <2>4, UpsetKeeps
<1>3. ASSUME NEW h \in Hosts, HostRestarts(h) PROVE InjectorInv'
  <2> DEFINE kno == {s \in host.known : HostOf(s.of) # h}
             new == [host EXCEPT !.known = kno]
  <2>1. kno \in SUBSET Sessions
    BY <1>1 DEF CleverHost
  <2>2. Upset(new)
    BY <1>3 DEF HostRestarts
  <2> HIDE DEF kno
  <2>3. new \in CleverHost /\ new.issued = host.issued
    BY <1>1, <2>1 DEF CleverHost
  <2> HIDE DEF new
  <2> QED  BY <2>2, <2>3, UpsetKeeps
<1> QED  BY <1>2, <1>3

LEMMA SetConfigKeeps ==
    ASSUME InjectorInv, NEW a \in Antennas \cup {NoAntenna}, SetConfig(a)
    PROVE  InjectorInv'
<1>1. /\ UNCHANGED <<call, host>> /\ account \in Account /\ account.configs < MaxSetConfig
      /\ injector' = [injector EXCEPT !.cred = a, !.session = NoSession, !.dead = FALSE]
      /\ account' = [account EXCEPT !.configs = @ + 1, !.late = InsideInject, !.crossed = InsideInject # {}]
  BY DEF SetConfig, Rewired, InjectorInv, InjectorSafe, InjectorTypeOK
<1>2. /\ account' \in Account /\ account'.crossed = (InsideInject # {})
      /\ account'.gone = account.gone /\ account'.copies = account.copies
      /\ account'.injects = account.injects
  <2>1. account.configs + 1 \in 0..MaxSetConfig /\ InsideInject \in SUBSET Callers
    BY <1>1, AccountFacts, InjectorNumbers DEF InsideInject
  <2>2. PICK b \in BOOLEAN : b = (InsideInject # {})
    OBVIOUS
  <2>3. account' = [account EXCEPT !.configs = account.configs + 1, !.late = InsideInject, !.crossed = b]
    BY <1>1, <2>2
  <2> QED  BY <1>1, <2>1, <2>2, <2>3 DEF Account
<1>3. Fresh' = Fresh /\ Owing' = Owing /\ InsideInject' = InsideInject
  BY <1>1 DEF Fresh, Owing, InsideInject
<1>4. /\ injector' \in [cred : Antennas \cup {NoAntenna}, session : Sessions \cup {NoSession},
                        dead : BOOLEAN]
      /\ injector'.session.of = NoAntenna /\ ~injector'.dead
  BY <1>1 DEF InjectorInv, InjectorSafe, InjectorTypeOK, NoSession
<1>5. Issued' /\ InHands'
  BY <1>1, <1>2, <1>3 DEF InjectorInv, Issued, InHands
<1>6. SameAntenna'
  BY <1>2, <1>3 DEF SameAntenna
<1>7. InjectorTypeOK'
  BY <1>1, <1>2, <1>4 DEF InjectorInv, InjectorSafe, InjectorTypeOK
<1>8. TypedOnce' /\ SessionIsOwn'
  BY <1>1, <1>2, <1>4 DEF InjectorInv, InjectorSafe, TypedOnce, SessionIsOwn
<1> QED  BY <1>1, <1>5, <1>6, <1>7, <1>8 DEF InjectorInv, InjectorSafe

-----------------------------------------------------------------------------
(* What a call may change of the account.                                  *)
LEMMA Unmoved ==
    ASSUME InjectorInv
    PROVE  /\ injector \in [cred : Antennas \cup {NoAntenna}, session : Sessions \cup {NoSession},
                            dead : BOOLEAN]
           /\ call \in [Callers -> InjectCall] /\ host \in CleverHost /\ host.issued \in Nat
           /\ account \in Account /\ InHands /\ Issued
           /\ ~account.crossed =>
                 /\ injector.session.of \in {injector.cred, NoAntenna}
                 /\ injector.dead => injector.cred \in account.gone
                 /\ \A c \in Callers : call[c].at # "idle" => call[c].cred = injector.cred
           /\ \A c \in Callers : /\ account.copies[c] <= 1
                                 /\ call[c].at # "idle" => account.copies[c] = 0
           /\ account.injects \in Nat
BY AccountFacts, InjectorNumbers
   DEF InjectorInv, InjectorSafe, InjectorTypeOK, TypedOnce, SessionIsOwn, InHands, SameAntenna,
       InsideInject, CleverHost

LEMMA SumFits ==
    ASSUME NEW i \in Nat, NEW j \in Nat, NEW fresh \in Nat, NEW owing \in Nat, NEW freshWas \in Nat,
           NEW owingWas \in Nat, NEW n \in Nat, NEW m \in Nat,
           j + (fresh + owing) <= i + (freshWas + owingWas) + (m - n) * 2
    PROVE  j + fresh + owing + n * 2 <= i + freshWas + owingWas + m * 2
OBVIOUS

LEMMA AtFacts == \A at : FreshAt(at) \in 0..1 /\ OwingAt(at) \in 0..1
BY DEF FreshAt, OwingAt

LEMMA InjectKeeps ==
    ASSUME InjectorInv, NEW c \in Callers, Inject(c)
    PROVE  InjectorInv'
<1> DEFINE r == [at |-> IF injector.session = NoSession THEN "handshake" ELSE "post",
                 cred |-> injector.cred, session |-> injector.session]
<1>1. /\ UNCHANGED <<injector, host>> /\ call[c].at = "idle" /\ account.injects < MaxInjects
      /\ call' = [call EXCEPT ![c] = r]
      /\ account' = [account EXCEPT !.injects = @ + 1, !.copies[c] = 0, !.late = @ \ {c}]
  BY DEF Inject
<1>2. /\ r \in InjectCall /\ r.cred = injector.cred /\ r.at \in {"handshake", "post"}
  BY Unmoved DEF InjectCall, Steps
<1> HIDE DEF r
<1>3. /\ account' \in Account /\ account'.crossed = account.crossed /\ account'.gone = account.gone
      /\ account'.copies = [account.copies EXCEPT ![c] = 0]
      /\ account'.injects = account.injects + 1
  <2>1. account.injects + 1 \in 0..MaxInjects /\ account.late \ {c} \in SUBSET Callers
    BY <1>1, Unmoved, AccountFacts, InjectorNumbers
  <2>2. PICK k \in [Callers -> 0..2] : k = [account.copies EXCEPT ![c] = 0]
    <3>1. account.copies \in [Callers -> 0..2] /\ 0 \in 0..2
      BY Unmoved, AccountFacts
    <3>2. [account.copies EXCEPT ![c] = 0] \in [Callers -> 0..2]
      BY <3>1
    <3> QED  BY <3>2
  <2>3. account' = [account EXCEPT !.injects = account.injects + 1, !.copies = k,
                                   !.late = account.late \ {c}]
    BY <1>1, <2>2
  <2> QED  BY <2>1, <2>2, <2>3, Unmoved DEF Account
<1>4. account'.copies[c] = 0 /\ \A d \in Callers : d # c => account'.copies[d] = account.copies[d]
  BY <1>3, Unmoved, AccountFacts
<1>5. host'.issued + FreshAt(r.at) + OwingAt(r.at) + account.injects * 2
        <= host.issued + FreshAt(call[c].at) + OwingAt(call[c].at) + account'.injects * 2
  <2>1. /\ FreshAt(call[c].at) = 0 /\ OwingAt(call[c].at) = 0
        /\ FreshAt(r.at) \in 0..1 /\ OwingAt(r.at) \in 0..1
    BY <1>1, <1>2 DEF FreshAt, OwingAt
  <2>2. host'.issued = host.issued /\ host.issued \in Nat /\ account.injects \in Nat
    BY <1>1, Unmoved
  <2>3. account'.injects \in Nat /\ account'.injects - account.injects = 1
    BY <1>3, <2>2
  <2>4. PICK f \in Nat : f = FreshAt(r.at) /\ f <= 1
    BY <2>1
  <2>5. PICK o \in Nat : o = OwingAt(r.at) /\ o <= 1
    BY <2>1
  <2>6. host.issued + (f + o) <= host.issued + (0 + 0) + (account'.injects - account.injects) * 2
    BY <2>2, <2>3, <2>4, <2>5
  <2>7. host.issued + f + o + account.injects * 2 <= host.issued + 0 + 0 + account'.injects * 2
    BY <2>2, <2>3, <2>6, SumFits
  <2> QED  BY <2>1, <2>2, <2>4, <2>5, <2>7
<1>6. ~account.crossed =>
               /\ injector'.session.of \in {injector.cred, NoAntenna}
               /\ injector'.dead => injector.cred \in account'.gone
               /\ r.at # "idle" => r.cred = injector.cred
  BY <1>1, <1>2, <1>3, Unmoved
<1>7. /\ injector' \in [cred : Antennas \cup {NoAntenna}, session : Sessions \cup {NoSession}, dead : BOOLEAN]
      /\ injector'.cred = injector.cred /\ host' \in CleverHost
  BY <1>1, Unmoved
<1>8. /\ account'.copies[c] <= 1
      /\ r.at \in {"update", "reupdate"} => r.session.of = r.cred
      /\ r.at = "gone" => r.cred \in account'.gone
      /\ account.gone \subseteq account'.gone
  BY <1>2, <1>3, <1>4
<1> QED  BY <1>1, <1>2, <1>3, <1>4, <1>5, <1>6, <1>7, <1>8, CallKeeps

LEMMA HandshakeFailsKeeps ==
    ASSUME InjectorInv, NEW c \in Callers, HandshakeFails(c)
    PROVE  InjectorInv'
<1>1. /\ UNCHANGED <<injector, host, account>> /\ call' = [call EXCEPT ![c] = Idle]
  BY DEF HandshakeFails, Return
<1>2. Idle \in InjectCall /\ Idle.at = "idle"
  BY Unmoved, CallTyped
<1>3. host'.issued + FreshAt(Idle.at) + OwingAt(Idle.at) + account.injects * 2
        <= host.issued + FreshAt(call[c].at) + OwingAt(call[c].at) + account'.injects * 2
  BY <1>1, <1>2, Unmoved DEF FreshAt, OwingAt
<1> QED  BY <1>1, <1>2, <1>3, Unmoved, CallKeeps

LEMMA HandshakeGoneKeeps ==
    ASSUME InjectorInv, NEW c \in Callers, HandshakeGone(c)
    PROVE  InjectorInv'
<1> DEFINE r == [call[c] EXCEPT !.at = "gone"]
<1>1. /\ UNCHANGED <<injector, host>> /\ call' = [call EXCEPT ![c] = r]
      /\ call[c].at # "idle" /\ call[c].cred # NoAntenna
      /\ account' = [account EXCEPT !.gone = @ \cup {call[c].cred}]
  BY DEF HandshakeGone, GoOn, Handshaking
<1>2. /\ r \in InjectCall /\ r.at = "gone" /\ r.cred = call[c].cred /\ r.cred \in Antennas
  BY <1>1, Unmoved, CallTyped DEF InjectCall, Steps
<1> HIDE DEF r
<1>3. /\ account' \in Account /\ account'.crossed = account.crossed
      /\ account'.gone = account.gone \cup {call[c].cred}
      /\ account'.copies = account.copies /\ account'.injects = account.injects
  <2>1. account.gone \cup {call[c].cred} \in SUBSET Antennas
    BY <1>2, Unmoved, AccountFacts
  <2> QED  BY <1>1, <2>1, Unmoved DEF Account
<1>4. host'.issued + FreshAt(r.at) + OwingAt(r.at) + account.injects * 2
        <= host.issued + FreshAt(call[c].at) + OwingAt(call[c].at) + account'.injects * 2
  BY <1>1, <1>2, <1>3, Unmoved DEF FreshAt, OwingAt
<1> QED  BY <1>1, <1>2, <1>3, <1>4, Unmoved, CallKeeps

LEMMA MarkDeadKeeps ==
    ASSUME InjectorInv, NEW c \in Callers, MarkDead(c)
    PROVE  InjectorInv'
<1>1. /\ UNCHANGED <<host, account>> /\ call' = [call EXCEPT ![c] = Idle] /\ call[c].at = "gone"
      /\ injector' = [injector EXCEPT !.dead = TRUE]
  BY DEF MarkDead, Return
<1>2. Idle \in InjectCall /\ Idle.at = "idle"
  BY Unmoved, CallTyped
<1>3. /\ injector' \in [cred : Antennas \cup {NoAntenna}, session : Sessions \cup {NoSession},
                        dead : BOOLEAN]
      /\ injector'.cred = injector.cred /\ injector'.session = injector.session
  BY <1>1, Unmoved
<1>4. ~account.crossed => injector.cred \in account'.gone
  BY <1>1, Unmoved DEF InHands
<1>5. host'.issued + FreshAt(Idle.at) + OwingAt(Idle.at) + account.injects * 2
        <= host.issued + FreshAt(call[c].at) + OwingAt(call[c].at) + account'.injects * 2
  BY <1>1, <1>2, Unmoved DEF FreshAt, OwingAt
<1> QED  BY <1>1, <1>2, <1>3, <1>4, <1>5, Unmoved, CallKeeps

LEMMA HandshakeGrantedKeeps ==
    ASSUME InjectorInv, NEW c \in Callers, HandshakeGranted(c)
    PROVE  InjectorInv'
<1> DEFINE s == [of |-> call[c].cred, n |-> host.issued + 1]
           at == IF call[c].at = "handshake" THEN "update" ELSE "reupdate"
           r == [call[c] EXCEPT !.session = s, !.at = at]
<1>1. /\ UNCHANGED <<injector, account>> /\ call[c].cred # NoAntenna
      /\ call[c].at \in {"handshake", "rehandshake"}
      /\ host' = [host EXCEPT !.issued = @ + 1, !.known = @ \cup {s}]
      /\ call' = [call EXCEPT ![c].session = s, ![c].at = IF @ = "handshake" THEN "update" ELSE "reupdate"]
  BY DEF HandshakeGranted, Handshaking
<1>2. call[c] \in InjectCall /\ call[c].cred \in Antennas
  BY <1>1, Unmoved, CallTyped
<1>3. host.issued + 1 \in 1..(MaxInjects * 2)
  <2>1. /\ IsFiniteSet(Fresh) /\ IsFiniteSet(Owing) /\ c \in Owing
        /\ host.issued + Cardinality(Fresh) + Cardinality(Owing) <= account.injects * 2
    BY <1>1, Unmoved DEF Issued, Owing
  <2>2. Cardinality(Fresh) \in Nat /\ Cardinality(Owing) \in Nat /\ Cardinality(Owing) # 0
    BY <2>1, FS_CardinalityType, FS_EmptySet
  <2>3. account.injects \in 0..MaxInjects /\ host.issued \in Nat
    BY Unmoved, AccountFacts
  <2> QED  BY <2>1, <2>2, <2>3, InjectorNumbers
<1>4. s \in Sessions
  BY <1>2, <1>3 DEF Sessions
<1>5. s.of = call[c].cred
  OBVIOUS
<1> HIDE DEF s
<1>6. at \in Steps /\ at \in {"update", "reupdate"}
  BY DEF Steps
<1>7. call' = [call EXCEPT ![c] = r]
  BY <1>1, <1>2, Unmoved DEF InjectCall
<1> HIDE DEF at
<1>8. r \in InjectCall /\ r.at = at /\ r.cred = call[c].cred /\ r.session = s
  BY <1>2, <1>4, <1>6 DEF InjectCall
<1> HIDE DEF r
<1>9. host' \in CleverHost /\ host'.issued = host.issued + 1
  <2>1. host \in CleverHost /\ host.issued + 1 \in Nat /\ host.known \cup {s} \in SUBSET Sessions
    BY <1>4, Unmoved DEF CleverHost
  <2>2. host' = [host EXCEPT !.issued = host.issued + 1, !.known = host.known \cup {s}]
    BY <1>1
  <2> QED  BY <2>1, <2>2 DEF CleverHost
<1>10. host'.issued + FreshAt(r.at) + OwingAt(r.at) + account.injects * 2
        <= host.issued + FreshAt(call[c].at) + OwingAt(call[c].at) + account'.injects * 2
  <2>1. FreshAt(r.at) + OwingAt(r.at) + 1 <= FreshAt(call[c].at) + OwingAt(call[c].at)
    <3>1. CASE call[c].at = "handshake"
      BY <1>8, <3>1 DEF FreshAt, OwingAt, at
    <3>2. CASE call[c].at = "rehandshake"
      BY <1>8, <3>2 DEF FreshAt, OwingAt, at
    <3> QED  BY <1>1, <3>1, <3>2
  <2>2. /\ FreshAt(r.at) \in Nat /\ OwingAt(r.at) \in Nat
        /\ FreshAt(call[c].at) \in Nat /\ OwingAt(call[c].at) \in Nat
    BY DEF FreshAt, OwingAt
  <2>3. host.issued \in Nat /\ account.injects \in Nat /\ account'.injects = account.injects
    BY <1>1, Unmoved
  <2>4. PICK f \in Nat : f = FreshAt(r.at)
    BY <2>2
  <2>5. PICK o \in Nat : o = OwingAt(r.at)
    BY <2>2
  <2>6. PICK g \in Nat : g = FreshAt(call[c].at)
    BY <2>2
  <2>7. PICK p \in Nat : p = OwingAt(call[c].at)
    BY <2>2
  <2>8. f + o + 1 <= g + p
    BY <2>1, <2>4, <2>5, <2>6, <2>7
  <2>9. (host.issued + 1) + f + o + account.injects * 2 <= host.issued + g + p + account.injects * 2
    BY <2>3, <2>8
  <2> QED  BY <1>9, <2>3, <2>4, <2>5, <2>6, <2>7, <2>9
<1>11. ~account.crossed =>
               /\ injector'.session.of \in {injector.cred, NoAntenna}
               /\ injector'.dead => injector.cred \in account'.gone
               /\ r.at # "idle" => r.cred = injector.cred
  BY <1>1, <1>8, Unmoved
<1>12. /\ injector' \in [cred : Antennas \cup {NoAntenna}, session : Sessions \cup {NoSession}, dead : BOOLEAN]
       /\ injector'.cred = injector.cred
       /\ account' \in Account /\ account' = account
  BY <1>1, Unmoved
<1>13. /\ account'.copies[c] <= 1 /\ account'.copies[c] = 0
       /\ \A d \in Callers : d # c => account'.copies[d] = account.copies[d]
  BY <1>1, <1>12, Unmoved
<1>14. /\ r.at \in {"update", "reupdate"} => r.session.of = r.cred
       /\ r.at # "gone"
  BY <1>5, <1>6, <1>8
<1> QED  BY <1>7, <1>8, <1>9, <1>10, <1>11, <1>12, <1>13, <1>14, CallKeeps

LEMMA UpdateSessionKeeps ==
    ASSUME InjectorInv, NEW c \in Callers, UpdateSession(c)
    PROVE  InjectorInv'
<1> DEFINE at == IF call[c].at = "update" THEN "post" ELSE "repost"
           r == [call[c] EXCEPT !.at = at]
<1>1. /\ UNCHANGED <<host, account>> /\ call[c].at \in {"update", "reupdate"}
      /\ injector' = [injector EXCEPT !.session = call[c].session]
      /\ call' = [call EXCEPT ![c] = r]
  BY DEF UpdateSession, GoOn
<1>2. /\ call[c] \in InjectCall /\ call[c].session \in Sessions \cup {NoSession}
      /\ call[c].session.of = call[c].cred
  BY <1>1, Unmoved, CallTyped DEF InHands
<1>3. at \in Steps /\ at \in {"post", "repost"}
  BY DEF Steps
<1>4. r \in InjectCall /\ r.at = at /\ r.cred = call[c].cred
  BY <1>2, <1>3 DEF InjectCall
<1> HIDE DEF r
<1>5. /\ injector' \in [cred : Antennas \cup {NoAntenna}, session : Sessions \cup {NoSession},
                        dead : BOOLEAN]
      /\ injector'.cred = injector.cred /\ injector'.dead = injector.dead
      /\ injector'.session = call[c].session
  BY <1>1, <1>2, Unmoved
<1>6. host'.issued + FreshAt(r.at) + OwingAt(r.at) + account.injects * 2
        <= host.issued + FreshAt(call[c].at) + OwingAt(call[c].at) + account'.injects * 2
  <2>1. FreshAt(r.at) + OwingAt(r.at) <= FreshAt(call[c].at) + OwingAt(call[c].at)
    <3>1. CASE call[c].at = "update"
      BY <1>4, <3>1 DEF FreshAt, OwingAt, at
    <3>2. CASE call[c].at = "reupdate"
      BY <1>4, <3>2 DEF FreshAt, OwingAt, at
    <3> QED  BY <1>1, <3>1, <3>2
  <2>2. /\ FreshAt(r.at) \in Nat /\ OwingAt(r.at) \in Nat
        /\ FreshAt(call[c].at) \in Nat /\ OwingAt(call[c].at) \in Nat
    BY DEF FreshAt, OwingAt
  <2> QED  BY <1>1, <2>1, <2>2, Unmoved
<1> HIDE DEF at
<1> QED  BY <1>1, <1>2, <1>3, <1>4, <1>5, <1>6, Unmoved, CallKeeps

(* Whatever the answer, the call returns, or asks for one new session.     *)
LEMMA PostKeeps ==
    ASSUME InjectorInv, NEW c \in Callers, PostMessage(c)
    PROVE  InjectorInv'
<1> DEFINE again == [call[c] EXCEPT !.at = "rehandshake"]
<1>1. /\ UNCHANGED <<injector, host>> /\ call[c].at \in {"post", "repost"}
      /\ \/ /\ account' = account
            /\ call' = [call EXCEPT ![c] = Idle]
         \/ /\ account' = account /\ call[c].at = "post"
            /\ call' = [call EXCEPT ![c] = again]
         \/ /\ account' = [account EXCEPT !.copies[c] = @ + 1]
            /\ call' = [call EXCEPT ![c] = Idle]
  BY DEF PostMessage, AfterAnswer, GoOn, Return, Retries
<1>2. Idle \in InjectCall /\ Idle.at = "idle" /\ call[c] \in InjectCall
  BY Unmoved, CallTyped
<1>3. again \in InjectCall /\ again.at = "rehandshake" /\ again.cred = call[c].cred
  BY <1>2 DEF InjectCall, Steps
<1> HIDE DEF again
<1>4. /\ OwingAt(call[c].at) \in Nat /\ FreshAt(call[c].at) \in Nat
      /\ FreshAt(Idle.at) = 0 /\ OwingAt(Idle.at) = 0
      /\ FreshAt(again.at) = 0 /\ OwingAt(again.at) = 1
      /\ call[c].at = "post" => OwingAt(call[c].at) = 1
  BY <1>2, <1>3 DEF FreshAt, OwingAt
<1>5. CASE account' = account /\ call' = [call EXCEPT ![c] = Idle]
  <2>1. host'.issued + FreshAt(Idle.at) + OwingAt(Idle.at) + account.injects * 2
          <= host.issued + FreshAt(call[c].at) + OwingAt(call[c].at) + account'.injects * 2
    BY <1>1, <1>4, <1>5, Unmoved
  <2> QED  BY <1>1, <1>2, <1>5, <2>1, Unmoved, CallKeeps
<1>6. CASE account' = account /\ call' = [call EXCEPT ![c] = again] /\ call[c].at = "post"
  <2>1. host'.issued + FreshAt(again.at) + OwingAt(again.at) + account.injects * 2
          <= host.issued + FreshAt(call[c].at) + OwingAt(call[c].at) + account'.injects * 2
    BY <1>1, <1>4, <1>6, Unmoved
  <2> QED  BY <1>1, <1>3, <1>6, <2>1, Unmoved, CallKeeps
<1>7. CASE account' = [account EXCEPT !.copies[c] = @ + 1] /\ call' = [call EXCEPT ![c] = Idle]
  <2>1. account.copies \in [Callers -> 0..2] /\ account.copies[c] = 0 /\ account \in Account
    BY <1>1, Unmoved, AccountFacts
  <2>2. PICK k \in [Callers -> 0..2] : k = [account.copies EXCEPT ![c] = 1]
    <3>1. 1 \in 0..2
      OBVIOUS
    <3>2. [account.copies EXCEPT ![c] = 1] \in [Callers -> 0..2]
      BY <2>1, <3>1
    <3> QED  BY <3>2
  <2>3. account' = [account EXCEPT !.copies = k]
    BY <1>7, <2>1, <2>2
  <2>4. /\ account' \in Account /\ account'.copies = k
        /\ account'.crossed = account.crossed /\ account'.gone = account.gone
        /\ account'.injects = account.injects
    BY <2>1, <2>3 DEF Account
  <2>5. k[c] = 1 /\ \A d \in Callers : d # c => k[d] = account.copies[d]
    BY <2>1, <2>2
  <2>6. host'.issued + FreshAt(Idle.at) + OwingAt(Idle.at) + account.injects * 2
          <= host.issued + FreshAt(call[c].at) + OwingAt(call[c].at) + account'.injects * 2
    <3>1. host'.issued = host.issued /\ host.issued \in Nat /\ account.injects \in Nat
      BY <1>1, Unmoved
    <3>2. PICK g \in Nat : g = FreshAt(call[c].at)
      BY <1>4
    <3>3. PICK p \in Nat : p = OwingAt(call[c].at)
      BY <1>4
    <3>4. host.issued + 0 + 0 + account.injects * 2 <= host.issued + g + p + account.injects * 2
      BY <3>1
    <3> QED  BY <1>4, <2>4, <3>1, <3>2, <3>3, <3>4
  <2>7. ~account.crossed =>
               /\ injector'.session.of \in {injector.cred, NoAntenna}
               /\ injector'.dead => injector.cred \in account'.gone
               /\ Idle.at # "idle" => Idle.cred = injector.cred
    BY <1>1, <1>2, <2>4, Unmoved
  <2>8. /\ injector' \in [cred : Antennas \cup {NoAntenna}, session : Sessions \cup {NoSession},
                          dead : BOOLEAN]
        /\ injector'.cred = injector.cred /\ host' \in CleverHost
        /\ account'.copies[c] <= 1 /\ account.gone \subseteq account'.gone
        /\ \A d \in Callers : d # c => account'.copies[d] = account.copies[d]
    BY <1>1, <2>4, <2>5, Unmoved
  <2>9. /\ Idle.at \in {"update", "reupdate"} => Idle.session.of = Idle.cred
        /\ Idle.at = "gone" => Idle.cred \in account'.gone
        /\ Idle.at # "idle" => account'.copies[c] = 0
    BY <1>2
  <2> QED  BY <1>2, <1>7, <2>4, <2>6, <2>7, <2>8, <2>9, CallKeeps
<1> QED  BY <1>1, <1>5, <1>6, <1>7

-----------------------------------------------------------------------------
LEMMA InjectorStep == InjectorInv /\ [InjectorNext]_injectorVars => InjectorInv'
<1> SUFFICES ASSUME InjectorInv, [InjectorNext]_injectorVars PROVE InjectorInv'
  OBVIOUS
<1>1. ASSUME NEW a \in Antennas \cup {NoAntenna}, SetConfig(a) PROVE InjectorInv'
  BY <1>1, SetConfigKeeps
<1>2. CASE \/ \E a \in Antennas, answer \in {"on", "off", "gone"} : SwitchAntenna(a, answer)
           \/ \E h \in Hosts : HostRestarts(h)
  BY <1>2, HostKeeps
<1>3. ASSUME NEW c \in Callers,
             \/ Inject(c) \/ HandshakeGranted(c) \/ HandshakeFails(c) \/ HandshakeGone(c)
             \/ MarkDead(c) \/ UpdateSession(c) \/ PostMessage(c)
      PROVE  InjectorInv'
  BY <1>3, InjectKeeps, HandshakeGrantedKeeps, HandshakeFailsKeeps, HandshakeGoneKeeps,
     MarkDeadKeeps, UpdateSessionKeeps, PostKeeps
<1>4. CASE UNCHANGED injectorVars
  BY <1>4 DEF injectorVars, InjectorInv, InjectorSafe, InjectorTypeOK, TypedOnce, SessionIsOwn,
              Issued, InHands, SameAntenna, Fresh, Owing, InsideInject
<1> QED  BY <1>1, <1>2, <1>3, <1>4 DEF InjectorNext

(***************************************************************************)
(* The profile photos (Avatars)                                            *)
(***************************************************************************)
Once == \A i, j \in DOMAIN queue : queue[i] = queue[j] => i = j

(* What the worker and invalidateAvatar are about.                         *)
About ==
    /\ worker.at # "idle" => worker.jid \in Numbers
    /\ worker.at = "gone" => worker.info = NoPhoto
    /\ worker.at = "cap" => worker.old.next = "soon"
    /\ marking # NoMark => marking.jid \in Numbers

(* Who was asked about is not due, or is being brought home.               *)
AskedWaits ==
    \A j \in past.asked :
        row[j].next # "due" \/ (worker.jid = j /\ worker.at \in {"answered", "saved", "gone"})

AvatarInv == AvatarSafe /\ Once /\ About /\ AskedWaits

-----------------------------------------------------------------------------
LEMMA AvatarNumbers ==
    /\ OwnNumber \in Numbers /\ QueueCap \in Nat \ {0} /\ MaxChanges \in Nat /\ MaxLapses \in Nat
    /\ NoPhoto \in Photos /\ \A j : Window(j) \in Schedules /\ Window(j) # "due"
BY AvatarAssumption DEF NoPhoto, Photos, Window, Schedules

LEMMA CachedFacts ==
    /\ Unchecked \in Cached /\ Unchecked.next = "due" /\ Unchecked.path = FALSE
    /\ \A o \in Cached : /\ o.pic \in Photos /\ o.path \in BOOLEAN /\ o.next \in Schedules
    /\ \A o \in Cached, w \in Schedules :
          /\ [o EXCEPT !.next = w] \in Cached /\ [o EXCEPT !.next = w].next = w
          /\ [o EXCEPT !.next = w].pic = o.pic
    /\ \A pic \in Photos, path \in BOOLEAN :
          /\ Bumped(pic, path) \in Cached /\ Bumped(pic, path).pic = pic
          /\ Bumped(pic, path).next # "due"
BY AvatarNumbers DEF Cached, Unchecked, Schedules, Bumped

LEMMA PastFacts ==
    ASSUME past \in Past
    PROVE  /\ past.asked \subseteq Numbers /\ past.told \subseteq Numbers /\ past.changes \in Photos
           /\ past.wiped \in BOOLEAN /\ past.lapses \in 0..MaxLapses
BY DEF Past

LEMMA WorkerFacts ==
    /\ IdleWorker \in Working /\ IdleWorker.at = "idle"
    /\ \A w \in Working : /\ w.jid \in Numbers \cup {NoNumber} /\ w.old \in Cached /\ w.info \in Photos
                          /\ w.at \in {"idle", "paced", "cap", "ask", "answered", "saved", "gone"}
BY CachedFacts, AvatarNumbers DEF IdleWorker, Working

LEMMA AvatarTyped ==
    ASSUME AvatarTypeOK
    PROVE  /\ photo \in [Numbers -> Photos] /\ file \in [Numbers -> Photos] /\ row \in [Numbers -> Cached]
           /\ worker \in Working /\ event \subseteq Numbers /\ past \in Past
           /\ marking \in [jid : Numbers \cup {NoNumber}, old : Cached]
           /\ queue \in Seq(Numbers) /\ Len(queue) \in Nat /\ DOMAIN queue = 1..Len(queue)
           /\ queued = {queue[i] : i \in DOMAIN queue}
<1>1. queue \in Seq(Numbers)
  BY DEF AvatarTypeOK
<1>2. Len(queue) \in Nat /\ DOMAIN queue = 1..Len(queue)
  BY <1>1
<1> QED  BY <1>1, <1>2 DEF AvatarTypeOK

LEMMA AvatarStart == AvatarInit => AvatarInv
<1> SUFFICES ASSUME AvatarInit PROVE AvatarInv
  OBVIOUS
<1>1. photo \in [Numbers -> Photos] /\ file \in [Numbers -> Photos]
  BY AvatarNumbers DEF AvatarInit
<1>2. row \in [Numbers -> Cached]
  <2>1. [Unchecked EXCEPT !.next = "far"] \in Cached
    BY CachedFacts DEF Schedules
  <2> QED  BY <2>1, CachedFacts DEF AvatarInit
<1>3. queue \in Seq(Numbers) /\ Len(queue) = 0 /\ DOMAIN queue = {}
  BY DEF AvatarInit
<1>4. queued = {queue[i] : i \in DOMAIN queue}
  BY <1>3 DEF AvatarInit
<1>5. worker \in Working /\ worker.at = "idle" /\ event \subseteq Numbers
  BY WorkerFacts DEF AvatarInit
<1>6. marking \in [jid : Numbers \cup {NoNumber}, old : Cached] /\ marking = NoMark
  BY CachedFacts DEF AvatarInit, NoMark
<1>7. past \in Past /\ past.asked = {} /\ past.told = {}
  <2>1. 0 \in Photos /\ 0 \in 0..MaxLapses
    BY AvatarNumbers DEF NoPhoto
  <2> QED  BY <2>1 DEF AvatarInit, Past
<1>8. AvatarTypeOK
  BY <1>1, <1>2, <1>3, <1>4, <1>5, <1>6, <1>7, AvatarNumbers DEF AvatarTypeOK
<1> QED  BY <1>3, <1>5, <1>6, <1>7, <1>8
         DEF AvatarInv, AvatarSafe, AsksPaced, FreshOrDue, Once, About, AskedWaits

-----------------------------------------------------------------------------
(* The queue: one hint more, or one fewer.                                 *)
LEMMA HintKept ==
    ASSUME queue \in Seq(Numbers), Once, queued = {queue[i] : i \in DOMAIN queue},
           NEW j \in Numbers, j \notin queued, queue' = Append(queue, j), queued' = queued \cup {j}
    PROVE  /\ queue' \in Seq(Numbers) /\ Len(queue') = Len(queue) + 1
           /\ Once' /\ queued' = {queue'[i] : i \in DOMAIN queue'}
<1>1. queue' \in Seq(Numbers) /\ Len(queue') = Len(queue) + 1 /\ Len(queue) \in Nat
  OBVIOUS
<1>2. DOMAIN queue' = 1..(Len(queue) + 1) /\ DOMAIN queue = 1..Len(queue)
  BY <1>1
<1>3. /\ queue'[Len(queue) + 1] = j
      /\ \A i \in DOMAIN queue : i \in DOMAIN queue' /\ i # Len(queue) + 1 /\ queue'[i] = queue[i]
      /\ \A i \in DOMAIN queue' : i \in DOMAIN queue \/ i = Len(queue) + 1
      /\ Len(queue) + 1 \in DOMAIN queue'
  BY <1>1, <1>2
<1>4. \A i \in DOMAIN queue : queue[i] # j
  OBVIOUS
<1>5. Once'
  BY <1>3, <1>4 DEF Once
<1>6. queued' = {queue'[i] : i \in DOMAIN queue'}
  BY <1>3
<1> QED  BY <1>1, <1>5, <1>6

LEMMA HintTaken ==
    ASSUME queue \in Seq(Numbers), Once, queued = {queue[i] : i \in DOMAIN queue},
           queue # <<>>, queue' = Tail(queue), queued' = queued \ {Head(queue)}
    PROVE  /\ queue' \in Seq(Numbers) /\ Len(queue') <= Len(queue) /\ Head(queue) \in Numbers
           /\ Once' /\ queued' = {queue'[i] : i \in DOMAIN queue'}
<1>1. queue' \in Seq(Numbers) /\ Len(queue') = Len(queue) - 1 /\ Len(queue) \in Nat /\ Len(queue) > 0
  OBVIOUS
<1>2. DOMAIN queue' = 1..(Len(queue) - 1) /\ DOMAIN queue = 1..Len(queue)
  BY <1>1
<1>3. 1 \in DOMAIN queue /\ queue[1] = Head(queue) /\ Head(queue) \in Numbers
  BY <1>1, <1>2
<1>4. \A i \in DOMAIN queue' : i + 1 \in DOMAIN queue /\ i + 1 # 1 /\ queue'[i] = queue[i + 1]
  BY <1>1, <1>2
<1>5. \A i \in DOMAIN queue : i = 1 \/ (i - 1 \in DOMAIN queue' /\ queue'[i - 1] = queue[i])
  BY <1>1, <1>2
<1>6. Once'
  <2> SUFFICES ASSUME NEW i \in DOMAIN queue', NEW k \in DOMAIN queue', queue'[i] = queue'[k]
               PROVE  i = k
    BY DEF Once
  <2>1. i + 1 = k + 1 /\ i \in Int /\ k \in Int
    BY <1>2, <1>4 DEF Once
  <2> QED  BY <2>1
<1>7. \A i \in DOMAIN queue' : queue'[i] \in queued /\ queue'[i] # Head(queue)
  BY <1>3, <1>4 DEF Once
<1>8. queued' = {queue'[i] : i \in DOMAIN queue'}
  <2>1. ASSUME NEW x \in queued', x # Head(queue) PROVE x \in {queue'[i] : i \in DOMAIN queue'}
    <3>1. PICK i \in DOMAIN queue : x = queue[i]
      BY <2>1
    <3>2. i - 1 \in DOMAIN queue' /\ queue'[i - 1] = x
      BY <1>3, <1>5, <2>1, <3>1
    <3> QED  BY <3>2
  <2>2. {queue'[i] : i \in DOMAIN queue'} \subseteq queued'
    BY <1>7
  <2>3. queued' \subseteq {queue'[i] : i \in DOMAIN queue'}
    BY <2>1
  <2> QED  BY <2>2, <2>3
<1>9. Len(queue') <= Len(queue)
  BY <1>1
<1> QED  BY <1>1, <1>3, <1>6, <1>8, <1>9

-----------------------------------------------------------------------------
Typed ==
    /\ photo \in [Numbers -> Photos] /\ file \in [Numbers -> Photos] /\ row \in [Numbers -> Cached]
    /\ worker \in Working /\ event \subseteq Numbers /\ past \in Past
    /\ marking \in [jid : Numbers \cup {NoNumber}, old : Cached]

LEMMA InvTyped == AvatarInv => Typed
BY DEF AvatarInv, AvatarSafe, AvatarTypeOK, Typed

LEMMA HintsStay ==
    ASSUME AvatarInv, UNCHANGED <<queue, queued>>, Typed', About', AskedWaits', AsksPaced', FreshOrDue'
    PROVE  AvatarInv'
<1>1. Once'
  BY DEF Once, AvatarInv
<1>2. AvatarTypeOK'
  BY DEF AvatarInv, AvatarSafe, AvatarTypeOK, Typed
<1> QED  BY <1>1, <1>2 DEF AvatarInv, AvatarSafe

(* The rows and the worker are left alone.                                 *)
LEMMA HintsKeep ==
    ASSUME AvatarInv, NEW j \in Numbers, RequestAvatar(j)
    PROVE  AvatarInv'
<1>1. UNCHANGED <<photo, row, file, worker, event, marking, past>> /\ j \notin queued
  BY DEF RequestAvatar
<1>2. /\ queue \in Seq(Numbers) /\ queued = {queue[i] : i \in DOMAIN queue} /\ Once
      /\ Len(queue) <= QueueCap /\ Len(queue) \in Nat
  BY AvatarTyped DEF AvatarInv, AvatarSafe, AvatarTypeOK
<1>3. /\ queue' \in Seq(Numbers) /\ Len(queue') <= QueueCap
      /\ Once' /\ queued' = {queue'[i] : i \in DOMAIN queue'}
  <2>1. CASE Len(queue) < QueueCap
    <3>1. queue' = Append(queue, j) /\ queued' = queued \cup {j}
      BY <2>1 DEF RequestAvatar
    <3>2. Len(queue') = Len(queue) + 1 /\ queue' \in Seq(Numbers)
          /\ Once' /\ queued' = {queue'[i] : i \in DOMAIN queue'}
      BY <1>1, <1>2, <3>1, HintKept
    <3> QED  BY <1>2, <2>1, <3>2, AvatarNumbers
  <2>2. CASE ~(Len(queue) < QueueCap)
    <3>1. queue' = queue /\ queued' = queued
      BY <2>2 DEF RequestAvatar, StillQueued
    <3> QED  BY <1>2, <3>1 DEF Once
  <2> QED  BY <2>1, <2>2
<1>4. AvatarTypeOK'
  BY <1>1, <1>3 DEF AvatarInv, AvatarSafe, AvatarTypeOK
<1>5. AsksPaced' /\ FreshOrDue' /\ About' /\ AskedWaits'
  BY <1>1 DEF AvatarInv, AvatarSafe, AsksPaced, FreshOrDue, About, AskedWaits
<1> QED  BY <1>3, <1>4, <1>5 DEF AvatarInv, AvatarSafe

LEMMA DequeueKeeps ==
    ASSUME AvatarInv, Dequeue
    PROVE  AvatarInv'
<1>1. /\ UNCHANGED <<photo, row, file, event, marking, past>> /\ worker.at = "idle" /\ queue # <<>>
      /\ queue' = Tail(queue) /\ queued' = queued \ {Head(queue)}
      /\ worker' = [IdleWorker EXCEPT !.jid = Head(queue), !.at = "paced"]
  BY DEF Dequeue
<1>2. /\ queue \in Seq(Numbers) /\ queued = {queue[i] : i \in DOMAIN queue} /\ Once
      /\ Len(queue) <= QueueCap /\ Len(queue) \in Nat
  BY AvatarTyped DEF AvatarInv, AvatarSafe, AvatarTypeOK
<1>3. /\ queue' \in Seq(Numbers) /\ Len(queue') <= Len(queue) /\ Head(queue) \in Numbers
      /\ Once' /\ queued' = {queue'[i] : i \in DOMAIN queue'}
  BY <1>1, <1>2, HintTaken
<1>4. Len(queue') <= QueueCap
  <2>1. Len(queue') \in Nat
    BY <1>3
  <2> QED  BY <1>2, <1>3, <2>1, AvatarNumbers
<1>5. worker' \in Working /\ worker'.jid \in Numbers /\ worker'.at = "paced"
  BY <1>1, <1>3, CachedFacts, AvatarNumbers DEF IdleWorker, Working
<1>6. AvatarTypeOK'
  BY <1>1, <1>3, <1>4, <1>5 DEF AvatarInv, AvatarSafe, AvatarTypeOK
<1>7. AsksPaced' /\ FreshOrDue' /\ About' /\ AskedWaits'
  BY <1>1, <1>5 DEF AvatarInv, AvatarSafe, AsksPaced, FreshOrDue, About, AskedWaits
<1> QED  BY <1>3, <1>6, <1>7 DEF AvatarInv, AvatarSafe

(* Photos change, and rows become due.                                     *)
LEMMA ChangesKeep ==
    ASSUME AvatarInv, NEW j \in Numbers, NEW new \in Photos, NEW connected \in BOOLEAN,
           PhotoChanges(j, new, connected)
    PROVE  AvatarInv'
<1>1. /\ UNCHANGED <<row, file, queue, queued, worker, marking>> /\ Typed
      /\ past.changes < MaxChanges /\ photo' = [photo EXCEPT ![j] = new]
      /\ event' = IF connected THEN event \cup {j} ELSE event \ {j}
      /\ past' = [past EXCEPT !.changes = @ + 1, !.asked = @ \ {j}, !.told = @ \ {j}]
  BY InvTyped DEF PhotoChanges
<1>2. /\ past' \in Past /\ past'.asked = past.asked \ {j} /\ past'.told = past.told \ {j}
  <2>1. past.changes + 1 \in Photos /\ past.asked \ {j} \subseteq Numbers /\ past.told \ {j} \subseteq Numbers
    BY <1>1, AvatarNumbers, PastFacts DEF Typed, Photos
  <2> QED  BY <1>1, <2>1 DEF Typed, Past
<1>3. photo' \in [Numbers -> Photos] /\ (\A k \in Numbers : k # j => photo'[k] = photo[k]) /\ event' \subseteq Numbers
  BY <1>1 DEF Typed
<1>4. Typed' /\ About'
  BY <1>1, <1>2, <1>3 DEF Typed, AvatarInv, About
<1>5. AskedWaits' /\ AsksPaced'
  BY <1>1, <1>2 DEF AvatarInv, AvatarSafe, AskedWaits, AsksPaced
<1>6. FreshOrDue'
  BY <1>1, <1>2, <1>3, PastFacts DEF AvatarInv, AvatarSafe, FreshOrDue, Typed
<1> QED  BY <1>1, <1>4, <1>5, <1>6, HintsStay

LEMMA InvalidateKeeps ==
    ASSUME AvatarInv, NEW j \in Numbers, Invalidate(j)
    PROVE  AvatarInv'
<1>1. /\ UNCHANGED <<photo, row, file, queue, queued, worker, past>> /\ Typed
      /\ event' = event \ {j}
      /\ marking' = IF row[j] = Unchecked THEN NoMark ELSE [jid |-> j, old |-> row[j]]
  BY InvTyped DEF Invalidate
<1>2. /\ marking' \in [jid : Numbers \cup {NoNumber}, old : Cached]
      /\ marking' # NoMark => marking'.jid \in Numbers
  BY <1>1, CachedFacts DEF Typed, NoMark
<1>3. Typed' /\ About'
  BY <1>1, <1>2 DEF Typed, AvatarInv, About
<1>4. AskedWaits' /\ AsksPaced' /\ FreshOrDue'
  BY <1>1 DEF AvatarInv, AvatarSafe, AskedWaits, AsksPaced, FreshOrDue
<1> QED  BY <1>1, <1>3, <1>4, HintsStay

(* A row becomes due: nobody is taken to have been asked about it.         *)
LEMMA DueKeeps ==
    ASSUME AvatarInv, NEW j \in Numbers, NEW o \in Cached, o.next = "due", NEW told \in SUBSET Numbers,
           \A k \in told : k = j \/ k \in past.told,
           row' = [row EXCEPT ![j] = o],
           past' = [past EXCEPT !.asked = @ \ {j}, !.told = told],
           marking' \in {marking, NoMark},
           UNCHANGED <<photo, file, queue, queued, worker, event>>
    PROVE  AvatarInv'
<1>1. Typed
  BY InvTyped
<1>2. past' \in Past /\ past'.asked = past.asked \ {j} /\ past'.told = told
  <2>1. past.asked \ {j} \subseteq Numbers
    BY <1>1, PastFacts DEF Typed
  <2> QED  BY <1>1, <2>1 DEF Typed, Past
<1>3. row' \in [Numbers -> Cached] /\ row'[j] = o /\ \A k \in Numbers : k # j => row'[k] = row[k]
  BY <1>1 DEF Typed
<1>4. NoMark \in [jid : Numbers \cup {NoNumber}, old : Cached]
  BY CachedFacts DEF NoMark
<1>5. Typed' /\ About'
  BY <1>1, <1>2, <1>3, <1>4 DEF Typed, AvatarInv, About
<1>6. AskedWaits' /\ AsksPaced'
  BY <1>1, <1>2, <1>3, PastFacts DEF AvatarInv, AvatarSafe, AskedWaits, AsksPaced, Typed
<1>7. FreshOrDue'
  BY <1>2, <1>3 DEF AvatarInv, AvatarSafe, FreshOrDue
<1> QED  BY <1>5, <1>6, <1>7, HintsStay

LEMMA InvalidateWriteKeeps ==
    ASSUME AvatarInv, InvalidateWrite
    PROVE  AvatarInv'
<1> DEFINE j == marking.jid
           told == IF j \in event THEN past.told ELSE past.told \cup {j}
           o == [marking.old EXCEPT !.next = "due"]
<1>1. /\ Typed /\ marking # NoMark /\ marking' = NoMark
      /\ row' = [row EXCEPT ![j] = o]
      /\ past' = [past EXCEPT !.asked = @ \ {j}, !.told = told]
      /\ UNCHANGED <<photo, file, queue, queued, worker, event>>
  BY InvTyped DEF InvalidateWrite, Invalidated
<1>2. j \in Numbers
  BY <1>1 DEF AvatarInv, About
<1>3. o \in Cached /\ o.next = "due"
  BY <1>1, CachedFacts DEF Typed, Schedules
<1>4. told \in SUBSET Numbers /\ \A k \in told : k = j \/ k \in past.told
  BY <1>1, <1>2, PastFacts DEF Typed
<1> HIDE DEF j, o, told
<1> QED  BY <1>1, <1>2, <1>3, <1>4, DueKeeps

LEMMA WindowPassesKeeps ==
    ASSUME AvatarInv, NEW j \in Numbers, WindowPasses(j)
    PROVE  AvatarInv'
<1> DEFINE o == [row[j] EXCEPT !.next = "due"]
<1>1. /\ Typed /\ row' = [row EXCEPT ![j] = o]
      /\ past' = [past EXCEPT !.asked = @ \ {j}]
      /\ UNCHANGED <<photo, file, queue, queued, worker, event, marking>>
  BY InvTyped DEF WindowPasses
<1>2. o \in Cached /\ o.next = "due"
  BY <1>1, CachedFacts DEF Typed, Schedules
<1>3. past.told \in SUBSET Numbers
  BY <1>1, PastFacts DEF Typed
<1>4. past' = [past EXCEPT !.asked = @ \ {j}, !.told = past.told]
  BY <1>1 DEF Typed, Past
<1> HIDE DEF o
<1> QED  BY <1>1, <1>2, <1>3, <1>4, DueKeeps

-----------------------------------------------------------------------------
(* The worker goes on, and writes no row.                                  *)
LEMMA PhotoWorkerKeeps ==
    ASSUME AvatarInv, NEW w \in Working, worker' = w,
           UNCHANGED <<photo, row, queue, queued, event, marking>>,
           file' \in [Numbers -> Photos], past' \in Past,
           past'.asked \subseteq past.asked, past'.told = past.told,
           w.at # "idle" => w.jid = worker.jid /\ worker.at # "idle",
           w.at = "gone" => w.info = NoPhoto, w.at = "cap" => w.old.next = "soon",
           w.at = "ask" => w.jid \notin past'.asked,
           worker.at \in {"answered", "saved", "gone"} =>
               w.at \in {"answered", "saved", "gone"} \/ worker.jid \notin past'.asked
    PROVE  AvatarInv'
<1>1. Typed' /\ About'
  BY InvTyped DEF Typed, AvatarInv, About
<1>2. AskedWaits' /\ AsksPaced' /\ FreshOrDue'
  BY DEF AvatarInv, AvatarSafe, AskedWaits, AsksPaced, FreshOrDue
<1> QED  BY <1>1, <1>2, HintsStay

LEMMA LapsedAs ==
    ASSUME past \in Past, past.lapses < MaxLapses
    PROVE  /\ past' = [past EXCEPT !.lapses = @ + 1] =>
                 past' \in Past /\ past'.asked = past.asked /\ past'.told = past.told
           /\ \A S \in SUBSET Numbers :
                 past' = [past EXCEPT !.asked = S, !.lapses = @ + 1] =>
                     past' \in Past /\ past'.asked = S /\ past'.told = past.told
           /\ \A S \in SUBSET Numbers :
                 past' = [past EXCEPT !.told = S, !.lapses = @ + 1] =>
                     past' \in Past /\ past'.asked = past.asked /\ past'.told = S
           /\ past' = [past EXCEPT !.wiped = TRUE, !.lapses = @ + 1] =>
                 past' \in Past /\ past'.asked = past.asked /\ past'.told = past.told
<1>1. past.lapses + 1 \in 0..MaxLapses
  BY PastFacts, AvatarNumbers
<1> QED  BY <1>1 DEF Past

LEMMA WorkKeeps ==
    ASSUME AvatarInv, DropHint \/ CheckFresh \/ CheckDue \/ Ask \/ NotSet \/ SaveAvatar \/ DownloadFails
    PROVE  AvatarInv'
<1>1. Typed /\ worker \in Working /\ past \in Past /\ row \in [Numbers -> Cached]
  BY InvTyped DEF Typed
<1>2. worker.at # "idle" => worker.jid \in Numbers
  BY DEF AvatarInv, About
<1>3. CASE DropHint
  BY <1>1, <1>3, WorkerFacts, LapsedAs, PhotoWorkerKeeps DEF DropHint, Typed
<1>4. CASE CheckFresh
  <2> DEFINE o == [row[worker.jid] EXCEPT !.next = "soon"]
             w == [worker EXCEPT !.at = "cap", !.old = o]
  <2>1. /\ worker.at = "paced" /\ worker.jid \in Numbers
        /\ UNCHANGED <<photo, row, file, queue, queued, event, marking, past>>
        /\ worker' = w \/ worker' = IdleWorker
    BY <1>2, <1>4 DEF CheckFresh
  <2>2. o \in Cached /\ o.next = "soon"
    BY <1>1, <2>1, CachedFacts DEF Schedules
  <2> HIDE DEF o
  <2>3. w \in Working /\ w.at = "cap" /\ w.jid = worker.jid /\ w.old = o
    BY <1>1, <2>2 DEF Working
  <2> HIDE DEF w
  <2>4. file' \in [Numbers -> Photos] /\ past' \in Past /\ past'.asked = past.asked /\ past'.told = past.told
    BY <1>1, <2>1 DEF Typed
  <2>5. CASE worker' = w
    BY <2>1, <2>2, <2>3, <2>4, <2>5, PhotoWorkerKeeps
  <2>6. CASE worker' = IdleWorker
    BY <2>1, <2>4, <2>6, WorkerFacts, PhotoWorkerKeeps
  <2> QED  BY <2>1, <2>5, <2>6
<1>5. CASE CheckDue
  <2> DEFINE w == [worker EXCEPT !.at = "ask", !.old = row[worker.jid]]
  <2>1. /\ worker.at = "paced" /\ worker.jid \in Numbers /\ row[worker.jid].next = "due"
        /\ UNCHANGED <<photo, row, file, queue, queued, event, marking, past>> /\ worker' = w
    BY <1>2, <1>5 DEF CheckDue
  <2>2. w \in Working /\ w.at = "ask" /\ w.jid = worker.jid
    BY <1>1, <2>1 DEF Working
  <2>3. worker.jid \notin past.asked
    BY <2>1 DEF AvatarInv, AskedWaits
  <2>4. file' \in [Numbers -> Photos] /\ past' \in Past /\ past'.asked = past.asked /\ past'.told = past.told
    BY <1>1, <2>1 DEF Typed
  <2> HIDE DEF w
  <2> QED  BY <2>1, <2>2, <2>3, <2>4, PhotoWorkerKeeps
<1>6. CASE Ask
  <2> DEFINE w == [worker EXCEPT !.at = "answered", !.info = photo[worker.jid]]
  <2>1. /\ worker.at = "ask" /\ worker.jid \in Numbers
        /\ UNCHANGED <<photo, row, file, queue, queued, event, marking>> /\ worker' = w
        /\ past' = [past EXCEPT !.asked = @ \cup {worker.jid}]
    BY <1>2, <1>6 DEF Ask
  <2>2. w \in Working /\ w.at = "answered" /\ w.jid = worker.jid
    BY <1>1, <2>1 DEF Working, Typed
  <2> HIDE DEF w
  <2>3. past' \in Past /\ past'.asked = past.asked \cup {worker.jid} /\ past'.told = past.told
    <3>1. past.asked \cup {worker.jid} \subseteq Numbers
      BY <1>1, <2>1, PastFacts
    <3> QED  BY <1>1, <2>1, <3>1 DEF Past
  <2>4. Typed' /\ About'
    BY <1>1, <2>1, <2>2, <2>3 DEF Typed, AvatarInv, About
  <2>5. AskedWaits' /\ AsksPaced' /\ FreshOrDue'
    BY <2>1, <2>2, <2>3 DEF AvatarInv, AvatarSafe, AskedWaits, AsksPaced, FreshOrDue
  <2> QED  BY <2>1, <2>4, <2>5, HintsStay
<1>7. CASE NotSet \/ SaveAvatar
  <2> DEFINE at == IF NotSet THEN "gone" ELSE "saved"
             w == [worker EXCEPT !.at = at]
             x == IF NotSet THEN IF worker.old.path THEN NoPhoto ELSE file[worker.jid] ELSE worker.info
  <2>1. /\ worker.at = "answered" /\ worker.jid \in Numbers /\ (NotSet => worker.info = NoPhoto)
        /\ UNCHANGED <<photo, row, queue, queued, event, marking, past>> /\ worker' = w
        /\ file' = [file EXCEPT ![worker.jid] = x]
    BY <1>2, <1>7 DEF NotSet, SaveAvatar
  <2>2. /\ w \in Working /\ w.at \in {"gone", "saved"} /\ w.jid = worker.jid /\ w.info = worker.info
        /\ w.at = "gone" => worker.info = NoPhoto
    BY <1>1, <2>1 DEF Working
  <2>3. x \in Photos
    BY <1>1, <2>1, WorkerFacts, AvatarNumbers DEF Typed
  <2>4. file' \in [Numbers -> Photos] /\ past' \in Past /\ past'.asked = past.asked /\ past'.told = past.told
    BY <1>1, <2>1, <2>3 DEF Typed
  <2> HIDE DEF w, x, at
  <2> QED  BY <2>1, <2>2, <2>4, PhotoWorkerKeeps
<1>8. CASE DownloadFails
  <2>1. /\ UNCHANGED <<photo, row, file, queue, queued, event, marking>> /\ worker' = IdleWorker
        /\ past.lapses < MaxLapses
        /\ past' = [past EXCEPT !.asked = past.asked \ {worker.jid}, !.lapses = @ + 1]
    BY <1>8 DEF DownloadFails
  <2>2. past.asked \ {worker.jid} \in SUBSET Numbers
    BY <1>1, PastFacts
  <2>3. past' \in Past /\ past'.asked = past.asked \ {worker.jid} /\ past'.told = past.told
    BY <1>1, <2>1, <2>2, LapsedAs
  <2>4. file' \in [Numbers -> Photos]
    BY <1>1, <2>1 DEF Typed
  <2> QED  BY <2>1, <2>3, <2>4, WorkerFacts, PhotoWorkerKeeps
<1> QED  BY <1>3, <1>4, <1>5, <1>6, <1>7, <1>8

(* The worker ends with the row of its number, scheduled anew.             *)
LEMMA FinishKeeps ==
    ASSUME AvatarInv, worker.at # "idle", NEW o \in Cached, o.next # "due",
           row' = [row EXCEPT ![worker.jid] = o], worker' = IdleWorker,
           UNCHANGED <<photo, file, queue, queued, event, marking>>,
           past' \in Past, past'.asked = past.asked, past'.told \subseteq past.told,
           worker.jid \in past'.told => o.pic = photo[worker.jid] \/ o.next # "far"
    PROVE  AvatarInv'
<1>1. Typed /\ worker.jid \in Numbers
  BY InvTyped DEF AvatarInv, About
<1>2. /\ row' \in [Numbers -> Cached] /\ row'[worker.jid] = o
      /\ \A k \in Numbers : k # worker.jid => row'[k] = row[k]
  BY <1>1 DEF Typed
<1>3. Typed' /\ About'
  BY <1>1, <1>2, WorkerFacts DEF Typed, AvatarInv, About
<1>4. past.asked \subseteq Numbers /\ past.told \subseteq Numbers
  BY <1>1, PastFacts DEF Typed
<1>5. AskedWaits' /\ AsksPaced'
  BY <1>2, <1>4, WorkerFacts DEF AvatarInv, AvatarSafe, AskedWaits, AsksPaced
<1>6. FreshOrDue'
  BY <1>2, <1>4 DEF AvatarInv, AvatarSafe, FreshOrDue
<1> QED  BY <1>3, <1>5, <1>6, HintsStay

LEMMA RowsKeep ==
    ASSUME AvatarInv, CapSchedule \/ NotSetRow \/ AskFails \/ NotModified \/ StoreAvatar
    PROVE  AvatarInv'
<1>1. Typed /\ worker \in Working /\ past \in Past
  BY InvTyped DEF Typed
<1>2. /\ worker.at = "gone" => worker.info = NoPhoto
      /\ worker.at = "cap" => worker.old.next = "soon"
  BY DEF AvatarInv, About
<1>3. worker.old \in Cached /\ worker.info \in Photos /\ worker.old.pic \in Photos /\ worker.old.path \in BOOLEAN
  BY <1>1, WorkerFacts, CachedFacts
<1>4. CASE CapSchedule
  <2>1. /\ worker.at = "cap" /\ worker' = IdleWorker /\ row' = [row EXCEPT ![worker.jid] = worker.old]
        /\ UNCHANGED <<photo, file, queue, queued, event, marking, past>>
    BY <1>4 DEF CapSchedule, Finish
  <2> QED  BY <1>1, <1>2, <1>3, <2>1, FinishKeeps
<1>5. /\ Crossed \subseteq past.told /\ past.told \subseteq Numbers
      /\ worker.jid \in Crossed => worker.info = photo[worker.jid]
  BY <1>1, PastFacts DEF Crossed
<1>6. CASE NotSetRow \/ NotModified \/ StoreAvatar
  <2> DEFINE path == IF NotSetRow THEN FALSE ELSE IF StoreAvatar THEN TRUE ELSE worker.old.path
             o == Bumped(worker.info, path)
  <2>1. /\ worker.at # "idle" /\ worker' = IdleWorker
        /\ UNCHANGED <<photo, file, queue, queued, event, marking>>
        /\ past' = [past EXCEPT !.told = Crossed]
    BY <1>6 DEF NotSetRow, NotModified, StoreAvatar, Finish
  <2>2. row' = [row EXCEPT ![worker.jid] = o]
    <3>1. CASE NotSetRow
      BY <1>2, <3>1 DEF NotSetRow, Finish
    <3>2. CASE StoreAvatar
      <4>1. worker.at = "saved"
        BY <3>2 DEF StoreAvatar
      <4>2. ~NotSetRow
        BY <4>1 DEF NotSetRow
      <4> QED  BY <3>2, <4>2 DEF StoreAvatar, Finish
    <3>3. CASE NotModified
      <4>1. worker.at = "answered" /\ worker.info = worker.old.pic
        BY <3>3 DEF NotModified
      <4>2. ~NotSetRow /\ ~StoreAvatar
        BY <4>1 DEF NotSetRow, StoreAvatar
      <4> QED  BY <3>3, <4>1, <4>2 DEF NotModified, Finish
    <3> QED  BY <1>6, <3>1, <3>2, <3>3
  <2>3. path \in BOOLEAN
    BY <1>3
  <2> HIDE DEF path
  <2>4. o \in Cached /\ o.pic = worker.info /\ o.next # "due"
    BY <1>3, <2>3, CachedFacts
  <2> HIDE DEF o
  <2>5. past' \in Past /\ past'.asked = past.asked /\ past'.told = Crossed
    BY <1>1, <1>5, <2>1 DEF Past
  <2> QED  BY <1>5, <2>1, <2>2, <2>4, <2>5, FinishKeeps
<1>7. CASE AskFails
  <2>1. /\ worker.at = "answered" /\ worker' = IdleWorker /\ row' = [row EXCEPT ![worker.jid] = AfterError]
        /\ UNCHANGED <<photo, file, queue, queued, event, marking>> /\ past.lapses < MaxLapses
        /\ past' = [past EXCEPT !.told = past.told \ {worker.jid}, !.lapses = @ + 1]
    BY <1>7 DEF AskFails, Finish
  <2>2. AfterError \in Cached /\ AfterError.next # "due"
    BY <1>3, CachedFacts DEF AfterError
  <2>3. past.told \ {worker.jid} \in SUBSET Numbers
    BY <1>5
  <2>4. past' \in Past /\ past'.asked = past.asked /\ past'.told = past.told \ {worker.jid}
    BY <1>1, <2>1, <2>3, LapsedAs
  <2> QED  BY <2>1, <2>2, <2>4, FinishKeeps
<1> QED  BY <1>4, <1>6, <1>7

(* A crash, and a reset.                                                   *)
LEMMA AvatarFaultsKeep ==
    ASSUME AvatarInv, AvatarCrash \/ WipePhotos
    PROVE  AvatarInv'
<1>1. Typed /\ worker \in Working /\ past \in Past
  BY InvTyped DEF Typed
<1>2. CASE AvatarCrash
  <2>1. /\ queue' = <<>> /\ queued' = {} /\ worker' = IdleWorker /\ marking' = NoMark
        /\ past' = [past EXCEPT !.asked = {}, !.lapses = @ + 1] /\ past.lapses < MaxLapses
        /\ UNCHANGED <<photo, row, file, event>>
    BY <1>2 DEF AvatarCrash
  <2>2. past' \in Past /\ past'.asked = {} /\ past'.told = past.told
    BY <1>1, <2>1, LapsedAs
  <2>3. NoMark \in [jid : Numbers \cup {NoNumber}, old : Cached]
    BY CachedFacts DEF NoMark
  <2>4. Typed' /\ About'
    BY <1>1, <2>1, <2>2, <2>3, WorkerFacts DEF Typed, About
  <2>5. queue' \in Seq(Numbers) /\ Len(queue') <= QueueCap /\ DOMAIN queue' = {}
    BY <2>1, AvatarNumbers
  <2>6. queued' = {queue'[i] : i \in DOMAIN queue'} /\ Once'
    BY <2>1, <2>5 DEF Once
  <2>7. AvatarTypeOK'
    BY <2>4, <2>5, <2>6 DEF Typed, AvatarTypeOK
  <2>8. AskedWaits' /\ AsksPaced' /\ FreshOrDue'
    BY <2>1, <2>2 DEF AvatarInv, AvatarSafe, AskedWaits, AsksPaced, FreshOrDue
  <2> QED  BY <2>4, <2>6, <2>7, <2>8 DEF AvatarInv, AvatarSafe
<1>3. CASE WipePhotos
  <2>1. /\ file' = [j \in Numbers |-> NoPhoto] /\ past.lapses < MaxLapses
        /\ past' = [past EXCEPT !.wiped = TRUE, !.lapses = @ + 1]
        /\ UNCHANGED <<photo, row, queue, queued, worker, event, marking>>
    BY <1>3 DEF WipePhotos
  <2>2. past' \in Past /\ past'.asked = past.asked /\ past'.told = past.told
    BY <1>1, <2>1, LapsedAs
  <2>3. file' \in [Numbers -> Photos]
    BY <2>1, AvatarNumbers
  <2>4. Typed' /\ About'
    BY <1>1, <2>1, <2>2, <2>3 DEF Typed, AvatarInv, About
  <2>5. AskedWaits' /\ AsksPaced' /\ FreshOrDue'
    BY <2>1, <2>2 DEF AvatarInv, AvatarSafe, AskedWaits, AsksPaced, FreshOrDue
  <2> QED  BY <2>1, <2>4, <2>5, HintsStay
<1> QED  BY <1>2, <1>3

-----------------------------------------------------------------------------
LEMMA AvatarStep == AvatarInv /\ [AvatarNext]_avatarVars => AvatarInv'
<1> SUFFICES ASSUME AvatarInv, [AvatarNext]_avatarVars PROVE AvatarInv'
  OBVIOUS
<1>1. CASE Dequeue
  BY <1>1, DequeueKeeps
<1>2. CASE DropHint \/ CheckFresh \/ CheckDue \/ Ask \/ NotSet \/ SaveAvatar \/ DownloadFails
  BY <1>2, WorkKeeps
<1>3. CASE CapSchedule \/ NotSetRow \/ AskFails \/ NotModified \/ StoreAvatar
  BY <1>3, RowsKeep
<1>4. ASSUME NEW j \in Numbers, RequestAvatar(j) \/ Invalidate(j) \/ WindowPasses(j) PROVE AvatarInv'
  BY <1>4, HintsKeep, InvalidateKeeps, WindowPassesKeeps
<1>5. ASSUME NEW j \in Numbers, NEW new \in Photos, NEW told \in BOOLEAN, PhotoChanges(j, new, told)
      PROVE  AvatarInv'
  BY <1>5, ChangesKeep
<1>6. CASE InvalidateWrite
  BY <1>6, InvalidateWriteKeeps
<1>7. CASE AvatarCrash \/ WipePhotos
  BY <1>7, AvatarFaultsKeep
<1>8. CASE UNCHANGED avatarVars
  BY <1>8 DEF avatarVars, AvatarInv, AvatarSafe, AvatarTypeOK, AsksPaced, FreshOrDue, Once, About, AskedWaits
<1> QED  BY <1>1, <1>2, <1>3, <1>4, <1>5, <1>6, <1>7, <1>8 DEF AvatarNext, Answered, Checking

(***************************************************************************)
(* Attachments (Media)                                                     *)
(***************************************************************************)

(* Every reference is one of an arrival, that of the live handler among    *)
(* them.                                                                   *)
Arriving ==
    /\ hist.captures <= hist.arrivals
    /\ handler.step # "none" => hist.captures < hist.arrivals /\ handler.item \in Items
    /\ handler.step = "none" => handler.item = NoItem

(* No two workers hold a claim, and what a popup has still to start on is  *)
(* one row of each message, and nothing it is at.                          *)
Alone ==
    \A m \in Items, v, w \in Workers :
        task[v][m].pc \in Claiming /\ task[w][m].pc \in Claiming => v = w

Unstarted ==
    \A p \in Popups : \A r \in todo[p] :
        /\ task[p][r[1]].pc = "none"
        /\ \A s \in todo[p] : s[1] = r[1] => s = r

(* Whoever is about to add a row has the file, and whoever is about to     *)
(* delete the reference has the row, or a reset took it.                   *)
OnDisk ==
    /\ handler.step = "row" => handler.item \in files \cup hist.wiped
    /\ \A w \in Workers, m \in Items :
          /\ task[w][m].pc = "row" => m \in files \cup hist.wiped
          /\ task[w][m].pc = "forget" => m \in media \cup hist.wiped

(* Unless a message was captured again under a worker, everybody is about  *)
(* the reference at hand, and its attempts, those still to be recorded     *)
(* included, are failures of it.                                           *)
Failing(m) == {w \in Workers : task[w][m].pc = "fail"}

AboutIt(m) ==
    /\ \A w \in Workers : task[w][m].pc # "none" => task[w][m].capture = pending[m].capture
    /\ \A p \in Popups : \A r \in todo[p] : r[1] = m => r[2] = pending[m].capture

Owned(m) ==
    \/ m \in hist.dead \/ hist.failed[m] >= MaxAttempts
    \/ /\ \A w \in Workers : task[w][m].pc # "dead"
       /\ pending[m].attempts + Cardinality(Failing(m)) <= hist.failed[m]

Recorded ==
    \A m \in Items :
        /\ pending[m] = NoRow \/ pending[m].attempts >= 0
        /\ IsFiniteSet(Failing(m))
        /\ m \notin hist.overtaken /\ pending[m] # NoRow => AboutIt(m) /\ Owned(m)

MediaInv ==
    /\ MediaTypeOK /\ NothingForgotten /\ RowHasFile
    /\ Arriving /\ Alone /\ Unstarted /\ OnDisk /\ Recorded


-----------------------------------------------------------------------------
LEMMA MediaNumbers ==
    /\ Items \subseteq Nat /\ NoItem \notin Items /\ "bg" \notin Popups /\ NoItem \in Nat
    /\ MaxAttempts \in Nat /\ MaxAttempts >= 1 /\ MaxArrivals \in Nat /\ MaxFaults \in Nat
    /\ ChatOf \in [Items -> Chats] /\ 0 \in Captures
BY MediaAssumption DEF NoItem, Captures

LEMMA NoTaskTyped == NoTask \in Task /\ NoTask.pc = "none" /\ NoTask.capture = 0
BY MediaNumbers DEF NoTask, Task, Captures

(* A worker goes on with one item, and the others do not; those about to   *)
(* record a failure of it are one more, one less or as many.               *)
FailAt(pc) == IF pc = "fail" THEN 1 ELSE 0

LEMMA TaskSet ==
    ASSUME task \in [Workers -> [Items -> Task]], NEW w \in Workers, NEW m \in Items, NEW t \in Task,
           task' = [task EXCEPT ![w][m] = t]
    PROVE  /\ task' \in [Workers -> [Items -> Task]] /\ task'[w][m] = t
           /\ \A v \in Workers, n \in Items : v # w \/ n # m => task'[v][n] = task[v][n]
           /\ \A n \in Items : n # m => Failing(n)' = Failing(n)
<1>1. /\ task' \in [Workers -> [Items -> Task]] /\ task'[w][m] = t
      /\ \A v \in Workers, n \in Items : v # w \/ n # m => task'[v][n] = task[v][n]
  OBVIOUS
<1>2. \A n \in Items : n # m => Failing(n)' = Failing(n)
  BY <1>1 DEF Failing
<1> QED  BY <1>1, <1>2

LEMMA FailSet ==
    ASSUME task \in [Workers -> [Items -> Task]], NEW w \in Workers, NEW m \in Items, NEW t \in Task,
           task' = [task EXCEPT ![w][m] = t], IsFiniteSet(Failing(m))
    PROVE  /\ IsFiniteSet(Failing(m)')
           /\ Cardinality(Failing(m)') \in Nat /\ Cardinality(Failing(m)) \in Nat
           /\ Cardinality(Failing(m)') + FailAt(task[w][m].pc) = Cardinality(Failing(m)) + FailAt(t.pc)
<1>1. /\ task'[w][m] = t
      /\ \A v \in Workers : v # w => task'[v][m] = task[v][m]
  OBVIOUS
<1>2. Failing(m)' = Failing(m) \cup {w} \/ Failing(m)' = Failing(m) \ {w}
  BY <1>1 DEF Failing
<1>3. w \in Failing(m) <=> task[w][m].pc = "fail"
  BY DEF Failing
<1>4. w \in Failing(m)' <=> t.pc = "fail"
  BY <1>1 DEF Failing
<1>5. /\ IsFiniteSet(Failing(m)')
      /\ Cardinality(Failing(m)') \in Nat /\ Cardinality(Failing(m)) \in Nat
      /\ Cardinality(Failing(m)') + (IF w \in Failing(m) THEN 1 ELSE 0)
           = Cardinality(Failing(m)) + (IF w \in Failing(m)' THEN 1 ELSE 0)
  BY <1>2, CountStep
<1> QED  BY <1>3, <1>4, <1>5 DEF FailAt

LEMMA PcSet ==
    ASSUME task \in [Workers -> [Items -> Task]], NEW w \in Workers, NEW m \in Items,
           NEW pc \in {"none", "claim", "fail", "dead"} \cup Claiming, Goto(w, m, pc)
    PROVE  \E t \in Task : /\ t.pc = pc /\ t.capture = task[w][m].capture
                           /\ task' = [task EXCEPT ![w][m] = t]
<1>1. task[w][m] \in Task
  OBVIOUS
<1>2. PICK t \in Task : t = [pc |-> pc, capture |-> task[w][m].capture]
  BY <1>1 DEF Task
<1>3. [task[w][m] EXCEPT !.pc = pc] = t
  BY <1>1, <1>2 DEF Task
<1>4. task' = [task EXCEPT ![w][m] = t]
  BY <1>3 DEF Goto
<1>5. t.pc = pc /\ t.capture = task[w][m].capture
  BY <1>2
<1> QED  BY <1>5, <1>4

(* The claims are those of the workers that are between claiming and       *)
(* giving back.                                                            *)
LEMMA ClaimSet ==
    ASSUME MediaTypeOK, Alone, NEW w \in Workers, NEW m \in Items, NEW t \in Task,
           task' = [task EXCEPT ![w][m] = t],
           t.pc \in Claiming => task[w][m].pc \in Claiming \/ m \notin claimed,
           \/ t.pc \in Claiming /\ claimed' = claimed \cup {m}
           \/ t.pc \notin Claiming /\ task[w][m].pc \in Claiming /\ claimed' = claimed \ {m}
           \/ t.pc \notin Claiming /\ task[w][m].pc \notin Claiming /\ claimed' = claimed
    PROVE  /\ claimed' \subseteq Items
           /\ claimed' = {n \in Items : \E v \in Workers : task'[v][n].pc \in Claiming}
           /\ Alone'
<1>1. /\ task \in [Workers -> [Items -> Task]] /\ claimed \subseteq Items
      /\ claimed = {n \in Items : \E v \in Workers : task[v][n].pc \in Claiming}
  BY DEF MediaTypeOK
<1>2. /\ task' \in [Workers -> [Items -> Task]] /\ task'[w][m] = t
      /\ \A v \in Workers, n \in Items : v # w \/ n # m => task'[v][n] = task[v][n]
  BY <1>1, TaskSet
<1>3. \A v \in Workers : t.pc \in Claiming /\ task[v][m].pc \in Claiming => v = w
  BY <1>1 DEF Alone
<1>4. Alone'
  BY <1>2, <1>3 DEF Alone
<1>5. claimed' \subseteq Items
  BY <1>1
<1>6. \A n \in Items : n \in claimed' <=> \E v \in Workers : task'[v][n].pc \in Claiming
  <2> TAKE n \in Items
  <2>1. CASE n # m
    BY <1>1, <1>2, <2>1
  <2>2. CASE n = m /\ t.pc \in Claiming
    BY <1>1, <1>2, <2>2
  <2>3. CASE n = m /\ t.pc \notin Claiming /\ task[w][m].pc \in Claiming
    <3>1. \A v \in Workers : task'[v][m].pc \notin Claiming
      BY <1>2, <2>3 DEF Alone
    <3> QED  BY <2>3, <3>1
  <2>4. CASE n = m /\ t.pc \notin Claiming /\ task[w][m].pc \notin Claiming
    BY <1>1, <1>2, <2>4
  <2> QED  BY <2>1, <2>2, <2>3, <2>4
<1>7. claimed' = {n \in Items : \E v \in Workers : task'[v][n].pc \in Claiming}
  BY <1>5, <1>6
<1> QED  BY <1>4, <1>5, <1>7

-----------------------------------------------------------------------------
(* What happens to a worker that neither fails nor records a failure       *)
(* leaves the failures as they were.                                       *)
LEMMA RecordedKeeps ==
    ASSUME MediaInv, NEW w \in Workers, NEW m \in Items, NEW t \in Task,
           task' = [task EXCEPT ![w][m] = t], UNCHANGED <<pending, hist>>,
           \A p \in Popups : todo'[p] \subseteq todo[p],
           t.pc \notin {"fail", "dead"}, task[w][m].pc \notin {"fail", "dead"},
           AboutIt(m) => t.pc = "none" \/ t.capture = pending[m].capture
    PROVE  Recorded'
<1>1. /\ task \in [Workers -> [Items -> Task]] /\ Recorded
  BY DEF MediaInv, MediaTypeOK
<1>2. /\ task' \in [Workers -> [Items -> Task]] /\ task'[w][m] = t
      /\ \A v \in Workers, n \in Items : v # w \/ n # m => task'[v][n] = task[v][n]
      /\ \A n \in Items : n # m => Failing(n)' = Failing(n)
  <2>1. \A n \in Items : n # m => Failing(n)' = Failing(n)
    BY <1>1, TaskSet DEF Failing
  <2> QED  BY <1>1, <2>1
<1>3. ASSUME NEW v \in Workers PROVE task'[v][m].pc = "fail" <=> task[v][m].pc = "fail"
  <2>1. CASE v = w
    BY <1>2, <2>1
  <2>2. CASE v # w
    <3>1. task'[v][m] = task[v][m]
      BY <1>2, <2>2
    <3> QED  BY <3>1
  <2> QED  BY <2>1, <2>2
<1>4. Failing(m)' = Failing(m)
  BY <1>3 DEF Failing
<1>5. \A n \in Items : Failing(n)' = Failing(n)
  BY <1>2, <1>4
<1>6. ASSUME NEW n \in Items, AboutIt(n) PROVE AboutIt(n)'
  BY <1>2, <1>6 DEF AboutIt
<1>7. ASSUME NEW n \in Items, Owned(n) PROVE Owned(n)'
  <2>1. \A v \in Workers : task[v][n].pc # "dead" => task'[v][n].pc # "dead"
    BY <1>2
  <2> QED  BY <1>5, <1>7, <2>1 DEF Owned
<1> QED  BY <1>1, <1>5, <1>6, <1>7 DEF Recorded

(* A capture starts the count of failures anew.                            *)
LEMMA HistTyped ==
    ASSUME hist \in History
    PROVE  /\ hist.failed \in [Items -> 0..MaxAttempts] /\ hist.dead \subseteq Items
           /\ hist.overtaken \subseteq Items /\ hist.lost \subseteq Items /\ hist.wiped \subseteq Items
           /\ hist.captures \in 0..MaxArrivals /\ hist.arrivals \in 0..MaxArrivals
           /\ hist.faults \in 0..MaxFaults
BY DEF History, Captures

LEMMA CaptureSets ==
    ASSUME MediaInv, NEW m \in Items, NEW arrivals \in 0..MaxArrivals,
           hist.captures < arrivals, Capture(m, arrivals), UNCHANGED <<task, todo>>
    PROVE  /\ pending' \in [Items -> [attempts : Int, capture : Captures]] /\ hist' \in History
           /\ hist'.captures = hist.captures + 1 /\ hist'.arrivals = arrivals
           /\ hist'.lost = hist.lost /\ hist'.wiped = hist.wiped
           /\ \A n \in Items : pending'[n] = NoRow => pending[n] = NoRow
           /\ \A n \in Items : n \in {m} => pending'[n] # NoRow
           /\ Recorded'
<1>1. /\ pending \in [Items -> [attempts : Int, capture : Captures]] /\ hist \in History
      /\ task \in [Workers -> [Items -> Task]] /\ Recorded
  BY DEF MediaInv, MediaTypeOK
<1>2. /\ hist.failed \in [Items -> 0..MaxAttempts] /\ hist.dead \subseteq Items
      /\ hist.overtaken \subseteq Items /\ hist.lost \subseteq Items /\ hist.wiped \subseteq Items
      /\ hist.captures \in 0..MaxArrivals /\ hist.arrivals \in 0..MaxArrivals
      /\ hist.faults \in 0..MaxFaults
  BY <1>1, HistTyped
<1>3. hist.captures + 1 \in 0..MaxArrivals
  BY <1>2, MediaNumbers
<1>4. hist.captures + 1 \in Captures
  BY <1>3 DEF Captures
<1>5. PICK number \in Captures : number = hist.captures + 1
  BY <1>4
<1>6. [attempts |-> 0, capture |-> number] \in [attempts : Int, capture : Captures]
  OBVIOUS
<1>7. PICK ref \in [attempts : Int, capture : Captures] : ref = [attempts |-> 0, capture |-> number]
  BY <1>6
<1>8. pending' = [pending EXCEPT ![m] = ref]
  BY <1>7, <1>5 DEF Capture
<1>9. /\ pending' \in [Items -> [attempts : Int, capture : Captures]]
      /\ pending'[m] = ref /\ ref.attempts = 0
      /\ \A n \in Items : n # m => pending'[n] = pending[n]
  BY <1>1, <1>7, <1>8
<1>10. ref # NoRow
  BY <1>7 DEF NoRow
<1>11. PICK o \in SUBSET Items :
          o = IF At(m) # {} \/ Listed(m) THEN hist.overtaken \cup {m} ELSE hist.overtaken \ {m}
  BY <1>2
<1>12. 0 \in 0..MaxAttempts
  BY MediaNumbers
<1>13. PICK f \in [Items -> 0..MaxAttempts] : f = [hist.failed EXCEPT ![m] = 0]
  BY <1>2, <1>12
<1>14. PICK d \in SUBSET Items : d = hist.dead \ {m}
  BY <1>2
<1>15. PICK c \in 0..MaxArrivals : c = hist.captures + 1
  BY <1>3
<1>16. hist' = [hist EXCEPT !.arrivals = arrivals, !.captures = c, !.failed = f, !.dead = d, !.overtaken = o]
  BY <1>1, <1>11, <1>13, <1>14, <1>15 DEF Capture, History
<1>17. /\ hist' \in History /\ hist'.arrivals = arrivals /\ hist'.captures = c
       /\ hist'.failed = f /\ hist'.dead = d /\ hist'.overtaken = o
       /\ hist'.lost = hist.lost /\ hist'.wiped = hist.wiped
  BY <1>1, <1>16 DEF History, Captures
<1>18. \A n \in Items : Failing(n)' = Failing(n)
  BY DEF Failing
<1>19. ASSUME NEW n \in Items, n # m
       PROVE  /\ pending'[n] = NoRow \/ pending'[n].attempts >= 0
              /\ IsFiniteSet(Failing(n)')
              /\ n \notin hist'.overtaken /\ pending'[n] # NoRow => AboutIt(n)' /\ Owned(n)'
  <2>1. n \notin hist'.overtaken => n \notin hist.overtaken
    BY <1>11, <1>17, <1>19
  <2>2. f[n] = hist.failed[n] /\ (n \in hist.dead => n \in d)
    BY <1>2, <1>13, <1>14, <1>19
  <2>3. pending'[n] = pending[n]
    BY <1>9, <1>19
  <2>4. ASSUME AboutIt(n), Owned(n) PROVE AboutIt(n)' /\ Owned(n)'
    <3>1. AboutIt(n)'
      BY <2>3, <2>4 DEF AboutIt
    <3>2. Owned(n)'
      BY <1>17, <1>18, <2>2, <2>3, <2>4 DEF Owned
    <3> QED  BY <3>1, <3>2
  <2> QED  BY <1>1, <1>18, <2>1, <2>3, <2>4 DEF Recorded
<1>20. ASSUME m \notin hist'.overtaken PROVE AboutIt(m)' /\ Owned(m)'
  <2>1. At(m) = {} /\ ~Listed(m)
    BY <1>11, <1>17, <1>20
  <2>2. \A v \in Workers : task[v][m].pc = "none"
    BY <2>1 DEF At
  <2>3. Failing(m)' = {}
    BY <1>18, <2>2 DEF Failing
  <2>4. f[m] = 0
    BY <1>2, <1>13
  <2>5. AboutIt(m)'
    BY <2>1, <2>2 DEF AboutIt, Listed
  <2>6. Cardinality(Failing(m)') = 0
    BY <2>3, FS_EmptySet
  <2>7. Owned(m)'
    BY <1>9, <1>17, <2>2, <2>4, <2>6 DEF Owned
  <2> QED  BY <2>5, <2>7
<1>21. IsFiniteSet(Failing(m)')
  BY <1>1, <1>18 DEF Recorded
<1>22. Recorded'
  BY <1>9, <1>19, <1>20, <1>21 DEF Recorded
<1> QED  BY <1>9, <1>10, <1>15, <1>17, <1>22

-----------------------------------------------------------------------------
(* The step of one worker with one item, whatever it does to the tables.   *)
LEMMA WorkerKeeps ==
    ASSUME MediaInv, NEW w \in Workers, NEW m \in Items, NEW t \in Task,
           task' = [task EXCEPT ![w][m] = t],
           t.pc \in Claiming => task[w][m].pc \in Claiming \/ m \notin claimed,
           \/ t.pc \in Claiming /\ claimed' = claimed \cup {m}
           \/ t.pc \notin Claiming /\ task[w][m].pc \in Claiming /\ claimed' = claimed \ {m}
           \/ t.pc \notin Claiming /\ task[w][m].pc \notin Claiming /\ claimed' = claimed,
           UNCHANGED <<messages, handler, reset>>,
           pending' \in [Items -> [attempts : Int, capture : Captures]],
           \A n \in Items : pending'[n] = NoRow => pending[n] = NoRow \/ n \in media' \cup hist.wiped,
           hist' \in History, hist'.captures = hist.captures, hist'.arrivals = hist.arrivals,
           hist'.wiped = hist.wiped, hist'.lost = hist.lost,
           media \subseteq media', files \subseteq files', files' \subseteq Items,
           \A n \in media' : n \in media \/ (n = m /\ task[w][m].pc = "row"),
           todo' \in [Popups -> SUBSET (Items \X Captures)],
           \A p \in Popups : todo'[p] \subseteq todo[p],
           w \in Popups => \/ t.pc = "none" \/ task[w][m].pc # "none"
                           \/ \A s \in todo'[w] : s[1] # m,
           t.pc = "row" => m \in files' \cup hist.wiped,
           t.pc = "forget" => m \in media' \cup hist.wiped,
           Recorded'
    PROVE  MediaInv'
<1>1. /\ task \in [Workers -> [Items -> Task]] /\ media \subseteq Items /\ files \subseteq Items
      /\ messages \subseteq Items /\ handler \in Handlers /\ reset \in BOOLEAN
      /\ todo \in [Popups -> SUBSET (Items \X Captures)]
      /\ NothingForgotten /\ RowHasFile /\ Arriving /\ Alone /\ Unstarted /\ OnDisk /\ MediaTypeOK
  BY DEF MediaInv, MediaTypeOK
<1>2. /\ task' \in [Workers -> [Items -> Task]] /\ task'[w][m] = t
      /\ \A v \in Workers, n \in Items : v # w \/ n # m => task'[v][n] = task[v][n]
  BY <1>1
<1>3. /\ claimed' \subseteq Items
      /\ claimed' = {n \in Items : \E v \in Workers : task'[v][n].pc \in Claiming}
      /\ Alone'
  BY <1>1, ClaimSet
<1>4. media' \subseteq Items
  BY <1>1
<1>5. MediaTypeOK'
  BY <1>1, <1>2, <1>3, <1>4 DEF MediaTypeOK
<1>6. NothingForgotten'
  <2>1. ASSUME NEW n \in messages'
        PROVE  n \in media' \/ pending'[n] # NoRow \/ n \in hist'.lost \/ n \in hist'.wiped
    <3>1. n \in Items /\ n \in messages
      BY <1>1, <2>1
    <3>2. n \in media \/ pending[n] # NoRow \/ n \in hist.lost \/ n \in hist.wiped
      BY <1>1, <3>1 DEF NothingForgotten
    <3> QED  BY <3>1, <3>2
  <2> QED  BY <1>1, <2>1 DEF NothingForgotten
<1>7. RowHasFile'
  <2>1. ASSUME NEW n \in media' PROVE n \in files' \/ n \in hist'.wiped
    <3>1. CASE n \in media
      BY <1>1, <3>1 DEF RowHasFile
    <3>2. CASE n = m /\ task[w][m].pc = "row"
      BY <1>1, <3>2 DEF OnDisk
    <3> QED  BY <3>1, <3>2
  <2> QED  BY <2>1 DEF RowHasFile
<1>8. Arriving'
  BY <1>1 DEF Arriving
<1>9. Unstarted'
  <2>1. ASSUME NEW p \in Popups, NEW r \in todo'[p]
        PROVE  task'[p][r[1]].pc = "none" /\ \A s \in todo'[p] : s[1] = r[1] => s = r
    <3>1. r \in todo[p] /\ r[1] \in Items /\ p \in Workers
      BY <1>1, <2>1 DEF Workers
    <3>2. task[p][r[1]].pc = "none" /\ \A s \in todo[p] : s[1] = r[1] => s = r
      BY <1>1, <3>1 DEF Unstarted
    <3>3. task'[p][r[1]].pc = "none"
      <4>1. CASE p # w \/ r[1] # m
        BY <1>2, <3>1, <3>2, <4>1
      <4>2. CASE p = w /\ r[1] = m
        BY <1>2, <2>1, <3>2, <4>2
      <4> QED  BY <4>1, <4>2
    <3> QED  BY <2>1, <3>2, <3>3
  <2> QED  BY <2>1 DEF Unstarted
<1>10. OnDisk'
  <2>1. handler'.step = "row" => handler'.item \in files' \cup hist'.wiped
    BY <1>1 DEF OnDisk
  <2>2. ASSUME NEW v \in Workers, NEW n \in Items
        PROVE  /\ task'[v][n].pc = "row" => n \in files' \cup hist'.wiped
               /\ task'[v][n].pc = "forget" => n \in media' \cup hist'.wiped
    <3>1. CASE v = w /\ n = m
      BY <1>2, <3>1
    <3>2. CASE v # w \/ n # m
      <4>1. task'[v][n] = task[v][n]
        BY <1>2, <3>2
      <4>2. /\ task[v][n].pc = "row" => n \in files \cup hist.wiped
            /\ task[v][n].pc = "forget" => n \in media \cup hist.wiped
        BY <1>1 DEF OnDisk
      <4> QED  BY <4>1, <4>2
    <3> QED  BY <3>1, <3>2
  <2> QED  BY <2>1, <2>2 DEF OnDisk
<1> QED  BY <1>3, <1>5, <1>6, <1>7, <1>8, <1>9, <1>10 DEF MediaInv

(* A step that leaves the workers and what they are about alone.           *)
LEMMA RecordedSame ==
    ASSUME Recorded, UNCHANGED <<task, todo, pending>>,
           hist'.failed = hist.failed, hist'.dead = hist.dead, hist'.overtaken = hist.overtaken
    PROVE  Recorded'
<1>1. \A n \in Items : Failing(n)' = Failing(n)
  BY DEF Failing
<1>2. ASSUME NEW n \in Items PROVE (AboutIt(n) => AboutIt(n)') /\ (Owned(n) => Owned(n)')
  <2>1. AboutIt(n) => AboutIt(n)'
    BY DEF AboutIt
  <2>2. Owned(n) => Owned(n)'
    BY <1>1 DEF Owned
  <2> QED  BY <2>1, <2>2
<1> QED  BY <1>1, <1>2 DEF Recorded

(* A step of the live handler or of history sync.                          *)
LEMMA LiveKeeps ==
    ASSUME MediaInv, UNCHANGED <<claimed, task, todo, reset>>, handler' \in Handlers,
           pending' \in [Items -> [attempts : Int, capture : Captures]], hist' \in History,
           media \subseteq media', media' \subseteq Items, files \subseteq files', files' \subseteq Items,
           messages' \subseteq Items, hist'.wiped = hist.wiped,
           NothingForgotten', RowHasFile', Arriving', Recorded',
           handler'.step = "row" => handler'.item \in files' \cup hist'.wiped
    PROVE  MediaInv'
<1>1. /\ Alone /\ Unstarted /\ OnDisk /\ MediaTypeOK
      /\ todo \in [Popups -> SUBSET (Items \X Captures)]
  BY DEF MediaInv, MediaTypeOK
<1>2. MediaTypeOK'
  BY <1>1 DEF MediaTypeOK
<1>3. Alone' /\ Unstarted'
  BY <1>1 DEF Alone, Unstarted
<1>4. OnDisk'
  BY <1>1 DEF OnDisk
<1> QED  BY <1>2, <1>3, <1>4 DEF MediaInv

-----------------------------------------------------------------------------
(* The live handler and history sync                                       *)

LEMMA MediaTyped ==
    ASSUME MediaInv
    PROVE  /\ pending \in [Items -> [attempts : Int, capture : Captures]] /\ hist \in History
           /\ media \subseteq Items /\ files \subseteq Items /\ messages \subseteq Items /\ claimed \subseteq Items
           /\ handler \in Handlers /\ reset \in BOOLEAN /\ handler.item \in Items \cup {NoItem}
           /\ task \in [Workers -> [Items -> Task]] /\ todo \in [Popups -> SUBSET (Items \X Captures)]
           /\ hist.captures \in 0..MaxArrivals /\ hist.arrivals \in 0..MaxArrivals /\ hist.faults \in 0..MaxFaults
           /\ hist.lost \subseteq Items /\ hist.wiped \subseteq Items
           /\ hist.failed \in [Items -> 0..MaxAttempts] /\ hist.dead \subseteq Items
           /\ hist.overtaken \subseteq Items
           /\ hist.captures \in Nat /\ hist.arrivals \in Nat
<1>1. /\ hist \in History /\ handler \in Handlers
      /\ pending \in [Items -> [attempts : Int, capture : Captures]]
      /\ media \subseteq Items /\ files \subseteq Items /\ messages \subseteq Items /\ claimed \subseteq Items
      /\ task \in [Workers -> [Items -> Task]] /\ todo \in [Popups -> SUBSET (Items \X Captures)]
      /\ reset \in BOOLEAN
  BY DEF MediaInv, MediaTypeOK
<1>2. handler.item \in Items \cup {NoItem}
  BY <1>1 DEF Handlers
<1>3. /\ hist.captures \in 0..MaxArrivals /\ hist.arrivals \in 0..MaxArrivals /\ hist.faults \in 0..MaxFaults
      /\ hist.lost \subseteq Items /\ hist.wiped \subseteq Items
      /\ hist.failed \in [Items -> 0..MaxAttempts] /\ hist.dead \subseteq Items
      /\ hist.overtaken \subseteq Items
  BY <1>1, HistTyped
<1>4. hist.captures \in Nat /\ hist.arrivals \in Nat
  BY <1>3, MediaNumbers
<1> QED  BY <1>1, <1>2, <1>3, <1>4

LEMMA LiveBeginKeeps == ASSUME MediaInv, NEW m \in Items, LiveBegin(m) PROVE MediaInv'
<1>1. /\ hist \in History /\ handler \in Handlers /\ hist.arrivals \in Nat /\ hist.captures \in Nat
      /\ hist.arrivals \in 0..MaxArrivals /\ hist.arrivals < MaxArrivals
      /\ messages \subseteq Items /\ media \subseteq Items /\ files \subseteq Items
      /\ pending \in [Items -> [attempts : Int, capture : Captures]]
  BY MediaTyped DEF LiveBegin
<1>2. PICK a \in 0..MaxArrivals : a = hist.arrivals + 1
  BY <1>1, MediaNumbers
<1>3. hist' = [hist EXCEPT !.arrivals = a]
  BY <1>2 DEF LiveBegin
<1>4. /\ hist' \in History /\ hist'.arrivals = a
      /\ hist'.failed = hist.failed /\ hist'.dead = hist.dead /\ hist'.overtaken = hist.overtaken
      /\ hist'.lost = hist.lost /\ hist'.wiped = hist.wiped /\ hist'.captures = hist.captures
  BY <1>1, <1>3 DEF History, Captures
<1>5. handler' = [item |-> m, step |-> "download"]
  BY <1>1 DEF LiveBegin, Handlers
<1>6. handler' \in Handlers /\ handler'.step = "download" /\ handler'.item = m
  BY <1>5 DEF Handlers
<1>7. /\ UNCHANGED <<pending, media, files, messages, claimed, task, todo, reset>>
      /\ NothingForgotten /\ RowHasFile /\ Arriving /\ Recorded
  BY DEF MediaInv, LiveBegin
<1>8. NothingForgotten' /\ RowHasFile'
  BY <1>4, <1>7 DEF NothingForgotten, RowHasFile
<1>9. Arriving'
  BY <1>1, <1>2, <1>4, <1>6, <1>7 DEF Arriving
<1>10. Recorded'
  BY <1>4, <1>7, RecordedSame
<1> QED  BY <1>1, <1>4, <1>6, <1>7, <1>8, <1>9, <1>10, LiveKeeps

LEMMA LiveSavedKeeps == ASSUME MediaInv, LiveSaved PROVE MediaInv'
<1>1. /\ handler \in Handlers /\ hist \in History /\ handler.step = "download"
      /\ messages \subseteq Items /\ media \subseteq Items /\ files \subseteq Items
      /\ pending \in [Items -> [attempts : Int, capture : Captures]]
  BY MediaTyped DEF LiveSaved
<1>2. /\ UNCHANGED <<pending, media, messages, claimed, task, todo, reset, hist>>
      /\ files' = files \cup {handler.item}
      /\ NothingForgotten /\ RowHasFile /\ Arriving /\ Recorded
  BY DEF MediaInv, LiveSaved
<1>3. handler.item \in Items /\ hist.captures < hist.arrivals
  BY <1>1, <1>2 DEF Arriving
<1>4. handler' = [item |-> handler.item, step |-> "row"]
  BY <1>1 DEF LiveSaved, Handlers
<1>5. handler' \in Handlers /\ handler'.step = "row" /\ handler'.item = handler.item
  BY <1>3, <1>4 DEF Handlers
<1>6. NothingForgotten' /\ RowHasFile'
  BY <1>2 DEF NothingForgotten, RowHasFile
<1>7. Arriving'
  BY <1>2, <1>3, <1>5 DEF Arriving
<1>8. Recorded'
  BY <1>2, RecordedSame
<1>9. files \subseteq files' /\ files' \subseteq Items /\ handler'.item \in files'
  BY <1>1, <1>2, <1>3, <1>5
<1> QED  BY <1>1, <1>2, <1>5, <1>6, <1>7, <1>8, <1>9, LiveKeeps

LEMMA LiveFailsKeeps == ASSUME MediaInv, LiveFails PROVE MediaInv'
<1>1. /\ handler \in Handlers /\ hist \in History /\ handler.step = "download"
      /\ messages \subseteq Items /\ media \subseteq Items /\ files \subseteq Items
      /\ pending \in [Items -> [attempts : Int, capture : Captures]]
  BY MediaTyped DEF LiveFails
<1>2. /\ UNCHANGED <<pending, media, files, messages, claimed, task, todo, reset, hist>>
      /\ NothingForgotten /\ RowHasFile /\ Arriving /\ Recorded
  BY DEF MediaInv, LiveFails
<1>3. handler.item \in Items /\ hist.captures < hist.arrivals
  BY <1>1, <1>2 DEF Arriving
<1>4. handler' = [item |-> handler.item, step |-> "capture"]
  BY <1>1 DEF LiveFails, Handlers
<1>5. handler' \in Handlers /\ handler'.step = "capture" /\ handler'.item = handler.item
  BY <1>3, <1>4 DEF Handlers
<1>6. NothingForgotten' /\ RowHasFile'
  BY <1>2 DEF NothingForgotten, RowHasFile
<1>7. Arriving'
  BY <1>2, <1>3, <1>5 DEF Arriving
<1>8. Recorded'
  BY <1>2, RecordedSame
<1> QED  BY <1>1, <1>2, <1>5, <1>6, <1>7, <1>8, LiveKeeps

(* The handler lets the message go.                                        *)
LEMMA LiveDoneSets ==
    ASSUME MediaInv, LiveDone, handler.step # "none"
    PROVE  /\ handler.item \in Items /\ hist.captures < hist.arrivals
           /\ handler' \in Handlers /\ handler'.step = "none" /\ handler'.item = NoItem
           /\ UNCHANGED <<claimed, task, todo, reset>>
           /\ messages' = messages \cup {handler.item} /\ messages' \subseteq Items
<1>1. handler \in Handlers /\ messages \subseteq Items
  BY MediaTyped
<1>2. handler' = [item |-> NoItem, step |-> "none"]
  BY <1>1 DEF LiveDone, Handlers
<1>3. handler' \in Handlers /\ handler'.step = "none" /\ handler'.item = NoItem
  BY <1>2 DEF Handlers
<1>4. handler.item \in Items /\ hist.captures < hist.arrivals
  BY DEF MediaInv, Arriving
<1> QED  BY <1>1, <1>3, <1>4 DEF LiveDone

LEMMA LiveSaveFailsKeeps == ASSUME MediaInv, LiveSaveFails PROVE MediaInv'
<1>1. /\ hist \in History /\ hist.lost \subseteq Items
      /\ messages \subseteq Items /\ media \subseteq Items /\ files \subseteq Items
      /\ pending \in [Items -> [attempts : Int, capture : Captures]]
  BY MediaTyped
<1>2. /\ handler.item \in Items /\ hist.captures < hist.arrivals
      /\ handler' \in Handlers /\ handler'.step = "none" /\ handler'.item = NoItem
      /\ UNCHANGED <<claimed, task, todo, reset>>
      /\ messages' = messages \cup {handler.item} /\ messages' \subseteq Items
  BY LiveDoneSets DEF LiveSaveFails
<1>3. PICK l \in SUBSET Items : l = hist.lost \cup {handler.item}
  BY <1>1, <1>2
<1>4. hist' = [hist EXCEPT !.lost = l]
  BY <1>3 DEF LiveSaveFails
<1>5. /\ hist' \in History /\ hist'.lost = l
      /\ hist'.failed = hist.failed /\ hist'.dead = hist.dead /\ hist'.overtaken = hist.overtaken
      /\ hist'.wiped = hist.wiped /\ hist'.captures = hist.captures /\ hist'.arrivals = hist.arrivals
  BY <1>1, <1>4 DEF History
<1>6. /\ UNCHANGED <<pending, media, files>>
      /\ NothingForgotten /\ RowHasFile /\ Recorded
  BY DEF MediaInv, LiveSaveFails
<1>7. NothingForgotten' /\ RowHasFile'
  BY <1>2, <1>3, <1>5, <1>6 DEF NothingForgotten, RowHasFile
<1>8. hist.captures \in Nat /\ hist.arrivals \in Nat
  BY MediaTyped
<1>9. Arriving'
  BY <1>2, <1>5, <1>8 DEF Arriving
<1>10. Recorded'
  BY <1>2, <1>5, <1>6, RecordedSame
<1> QED  BY <1>1, <1>2, <1>5, <1>6, <1>7, <1>9, <1>10, LiveKeeps

LEMMA LiveRowKeeps == ASSUME MediaInv, LiveRow PROVE MediaInv'
<1>1. /\ hist \in History /\ hist.captures \in Nat /\ hist.arrivals \in Nat
      /\ messages \subseteq Items /\ media \subseteq Items /\ files \subseteq Items
      /\ pending \in [Items -> [attempts : Int, capture : Captures]]
  BY MediaTyped
<1>2. /\ handler.item \in Items /\ hist.captures < hist.arrivals
      /\ handler' \in Handlers /\ handler'.step = "none" /\ handler'.item = NoItem
      /\ UNCHANGED <<claimed, task, todo, reset>>
      /\ messages' = messages \cup {handler.item} /\ messages' \subseteq Items
  BY LiveDoneSets DEF LiveRow
<1>3. /\ UNCHANGED <<pending, files, hist>> /\ media' = media \cup {handler.item}
      /\ NothingForgotten /\ RowHasFile /\ Recorded
      /\ handler.item \in files \cup hist.wiped
  BY DEF MediaInv, LiveRow, OnDisk
<1>4. NothingForgotten'
  BY <1>2, <1>3 DEF NothingForgotten
<1>5. RowHasFile'
  BY <1>3 DEF RowHasFile
<1>6. Arriving'
  BY <1>1, <1>2, <1>3 DEF Arriving
<1>7. Recorded'
  BY <1>2, <1>3, RecordedSame
<1>8. media \subseteq media' /\ media' \subseteq Items
  BY <1>1, <1>2, <1>3
<1> QED  BY <1>1, <1>2, <1>3, <1>4, <1>5, <1>6, <1>7, <1>8, LiveKeeps

LEMMA LiveCaptureKeeps == ASSUME MediaInv, LiveCapture PROVE MediaInv'
<1>1. /\ hist \in History /\ hist.captures \in Nat /\ hist.arrivals \in Nat
      /\ hist.arrivals \in 0..MaxArrivals
      /\ messages \subseteq Items /\ media \subseteq Items /\ files \subseteq Items
  BY MediaTyped
<1>2. /\ handler.item \in Items /\ hist.captures < hist.arrivals
      /\ handler' \in Handlers /\ handler'.step = "none" /\ handler'.item = NoItem
      /\ UNCHANGED <<claimed, task, todo, reset>>
      /\ messages' = messages \cup {handler.item} /\ messages' \subseteq Items
  BY LiveDoneSets DEF LiveCapture
<1>3. /\ pending' \in [Items -> [attempts : Int, capture : Captures]] /\ hist' \in History
      /\ hist'.captures = hist.captures + 1 /\ hist'.arrivals = hist.arrivals
      /\ hist'.lost = hist.lost /\ hist'.wiped = hist.wiped
      /\ \A n \in Items : pending'[n] = NoRow => pending[n] = NoRow
      /\ \A n \in Items : n \in {handler.item} => pending'[n] # NoRow
      /\ Recorded'
  BY <1>1, <1>2, CaptureSets DEF LiveCapture
<1>4. /\ UNCHANGED <<media, files>> /\ NothingForgotten /\ RowHasFile
  BY DEF MediaInv, LiveCapture
<1>5. NothingForgotten'
  BY <1>2, <1>3, <1>4 DEF NothingForgotten
<1>6. RowHasFile'
  BY <1>3, <1>4 DEF RowHasFile
<1>7. Arriving'
  BY <1>1, <1>2, <1>3 DEF Arriving
<1> QED  BY <1>1, <1>2, <1>3, <1>4, <1>5, <1>6, <1>7, LiveKeeps

LEMMA PersistKeeps == ASSUME MediaInv, NEW m \in Items, PersistHistoryMessage(m) PROVE MediaInv'
<1>1. /\ hist \in History /\ hist.captures \in Nat /\ hist.arrivals \in Nat
      /\ hist.arrivals \in 0..MaxArrivals /\ handler \in Handlers
      /\ messages \subseteq Items /\ media \subseteq Items /\ files \subseteq Items
  BY MediaTyped
<1>2. /\ UNCHANGED <<media, files, claimed, task, todo, handler, reset>>
      /\ messages' = messages \cup {m} /\ hist.arrivals < MaxArrivals
      /\ NothingForgotten /\ RowHasFile /\ Arriving /\ OnDisk
  BY DEF MediaInv, PersistHistoryMessage
<1>3. PICK a \in 0..MaxArrivals : a = hist.arrivals + 1
  BY <1>1, <1>2, MediaNumbers
<1>4. Capture(m, a) /\ hist.captures < a
  BY <1>1, <1>2, <1>3 DEF PersistHistoryMessage, Arriving
<1>5. /\ pending' \in [Items -> [attempts : Int, capture : Captures]] /\ hist' \in History
      /\ hist'.captures = hist.captures + 1 /\ hist'.arrivals = a
      /\ hist'.lost = hist.lost /\ hist'.wiped = hist.wiped
      /\ \A n \in Items : pending'[n] = NoRow => pending[n] = NoRow
      /\ \A n \in Items : n \in {m} => pending'[n] # NoRow
      /\ Recorded'
  BY <1>2, <1>4, CaptureSets
<1>6. NothingForgotten'
  BY <1>2, <1>5 DEF NothingForgotten
<1>7. RowHasFile'
  BY <1>2, <1>5 DEF RowHasFile
<1>8. Arriving'
  BY <1>1, <1>2, <1>3, <1>5 DEF Arriving
<1>9. messages' \subseteq Items /\ (handler'.step = "row" => handler'.item \in files' \cup hist'.wiped)
  BY <1>1, <1>2, <1>5 DEF OnDisk
<1> QED  BY <1>1, <1>2, <1>5, <1>6, <1>7, <1>8, <1>9, LiveKeeps

-----------------------------------------------------------------------------
(* The workers                                                             *)

LEMMA AdvanceSets ==
    ASSUME MediaInv, NEW w \in Workers, NEW m \in Items, task[w][m].pc \in Claiming, Advance(w, m)
    PROVE  \E t \in Task :
              /\ t.pc = Script[task[w][m].pc] /\ (t.pc = "none" \/ t.capture = task[w][m].capture)
              /\ task' = [task EXCEPT ![w][m] = t]
              /\ \/ t.pc \in Claiming /\ claimed' = claimed \cup {m}
                 \/ t.pc \notin Claiming /\ task[w][m].pc \in Claiming /\ claimed' = claimed \ {m}
<1>1. /\ task \in [Workers -> [Items -> Task]]
      /\ claimed = {n \in Items : \E v \in Workers : task[v][n].pc \in Claiming}
  BY DEF MediaInv, MediaTypeOK
<1>2. m \in claimed
  BY <1>1
<1>3. CASE Script[task[w][m].pc] = "none"
  <2>1. Leave(w, m) /\ claimed' = claimed \ {m}
    BY <1>3 DEF Advance
  <2>2. "none" \notin Claiming
    BY DEF Claiming
  <2> QED  BY <1>3, <2>1, <2>2, NoTaskTyped DEF Leave
<1>4. CASE Script[task[w][m].pc] # "none"
  <2>1. Goto(w, m, Script[task[w][m].pc]) /\ claimed' = claimed
    BY <1>4 DEF Advance
  <2>2. Script[task[w][m].pc] \in Claiming
    BY <1>4 DEF Script, Claiming
  <2>3. PICK pc \in {"none", "claim", "fail", "dead"} \cup Claiming : pc = Script[task[w][m].pc]
    BY <2>2
  <2>4. Goto(w, m, pc)
    BY <2>1, <2>3
  <2>5. PICK t \in Task : /\ t.pc = pc /\ t.capture = task[w][m].capture
                          /\ task' = [task EXCEPT ![w][m] = t]
    BY <1>1, <2>4, PcSet
  <2>6. claimed' = claimed \cup {m}
    BY <1>2, <2>1
  <2> QED  BY <2>2, <2>3, <2>5, <2>6
<1> QED  BY <1>3, <1>4

(* A download that goes well.                                              *)
LEMMA SavedKeeps ==
    ASSUME MediaInv, NEW w \in Workers, NEW m \in Items, Saved(w, m) PROVE MediaInv'
<1>1. /\ files \subseteq Items /\ media \subseteq Items /\ hist \in History
      /\ pending \in [Items -> [attempts : Int, capture : Captures]]
      /\ todo \in [Popups -> SUBSET (Items \X Captures)]
  BY MediaTyped
<1>2. /\ task[w][m].pc = "download" /\ files' = files \cup {m} /\ Advance(w, m)
      /\ UNCHANGED <<pending, media, messages, todo, handler, reset, hist>>
  BY DEF Saved
<1>3. /\ task[w][m].pc \in Claiming /\ Script[task[w][m].pc] = "row" /\ "row" \in Claiming
      /\ task[w][m].pc \notin {"fail", "dead"}
  BY <1>2 DEF Claiming, Script
<1>4. PICK t \in Task :
          /\ t.pc = Script[task[w][m].pc] /\ (t.pc = "none" \/ t.capture = task[w][m].capture)
          /\ task' = [task EXCEPT ![w][m] = t]
          /\ \/ t.pc \in Claiming /\ claimed' = claimed \cup {m}
             \/ t.pc \notin Claiming /\ task[w][m].pc \in Claiming /\ claimed' = claimed \ {m}
  BY <1>2, <1>3, AdvanceSets
<1>5. t.pc = "row" /\ t.pc \notin {"fail", "dead"}
  BY <1>3, <1>4
<1>6. AboutIt(m) => t.capture = pending[m].capture
  BY <1>2, <1>4, <1>5 DEF AboutIt
<1>7. Recorded'
  BY <1>2, <1>3, <1>4, <1>5, <1>6, RecordedKeeps
<1>8. /\ files \subseteq files' /\ files' \subseteq Items /\ m \in files'
      /\ task[w][m].pc # "none"
  BY <1>1, <1>2
<1>9. t.pc \in Claiming /\ t.pc # "forget" /\ claimed' = claimed \cup {m}
  BY <1>3, <1>4, <1>5
<1>10. media \subseteq media' /\ \A n \in media' : n \in media \/ (n = m /\ task[w][m].pc = "row")
  <2>1. media' = media
    BY <1>2
  <2> QED  BY <2>1
<1>11. \A n \in Items : pending'[n] = NoRow => pending[n] = NoRow \/ n \in media' \cup hist.wiped
  BY <1>2
<1>12. \A p \in Popups : todo'[p] \subseteq todo[p]
  BY <1>2
<1> QED  BY <1>1, <1>2, <1>3, <1>4, <1>5, <1>7, <1>8, <1>9, <1>10, <1>11, <1>12, WorkerKeeps

LEMMA AddRowKeeps ==
    ASSUME MediaInv, NEW w \in Workers, NEW m \in Items, AddRow(w, m) PROVE MediaInv'
<1>1. /\ files \subseteq Items /\ media \subseteq Items /\ hist \in History
      /\ pending \in [Items -> [attempts : Int, capture : Captures]]
      /\ todo \in [Popups -> SUBSET (Items \X Captures)]
  BY MediaTyped
<1>2. /\ task[w][m].pc = "row" /\ media' = media \cup {m} /\ Advance(w, m)
      /\ UNCHANGED <<pending, files, messages, todo, handler, reset, hist>>
  BY DEF AddRow
<1>3. /\ task[w][m].pc \in Claiming /\ Script[task[w][m].pc] = "forget" /\ "forget" \in Claiming
      /\ task[w][m].pc \notin {"fail", "dead"}
  BY <1>2 DEF Claiming, Script
<1>4. PICK t \in Task :
          /\ t.pc = Script[task[w][m].pc] /\ (t.pc = "none" \/ t.capture = task[w][m].capture)
          /\ task' = [task EXCEPT ![w][m] = t]
          /\ \/ t.pc \in Claiming /\ claimed' = claimed \cup {m}
             \/ t.pc \notin Claiming /\ task[w][m].pc \in Claiming /\ claimed' = claimed \ {m}
  BY <1>2, <1>3, AdvanceSets
<1>5. t.pc = "forget" /\ t.pc \notin {"fail", "dead"}
  BY <1>3, <1>4
<1>6. AboutIt(m) => t.capture = pending[m].capture
  BY <1>2, <1>4, <1>5 DEF AboutIt
<1>7. Recorded'
  BY <1>2, <1>3, <1>4, <1>5, <1>6, RecordedKeeps
<1>8. /\ media \subseteq media' /\ m \in media' /\ task[w][m].pc # "none"
      /\ \A n \in media' : n \in media \/ (n = m /\ task[w][m].pc = "row")
  BY <1>1, <1>2
<1> QED  BY <1>1, <1>2, <1>3, <1>4, <1>5, <1>7, <1>8, WorkerKeeps

LEMMA ForgetKeeps ==
    ASSUME MediaInv, NEW w \in Workers, NEW m \in Items, Forget(w, m) PROVE MediaInv'
<1>1. /\ files \subseteq Items /\ media \subseteq Items /\ hist \in History
      /\ pending \in [Items -> [attempts : Int, capture : Captures]]
      /\ todo \in [Popups -> SUBSET (Items \X Captures)]
      /\ task \in [Workers -> [Items -> Task]] /\ Recorded
      /\ m \in Items
  BY MediaTyped DEF MediaInv
<1>2. /\ task[w][m].pc = "forget" /\ pending' = [pending EXCEPT ![m] = NoRow] /\ Advance(w, m)
      /\ UNCHANGED <<media, files, messages, todo, handler, reset, hist>>
  BY DEF Forget
<1>3. /\ task[w][m].pc \in Claiming /\ Script[task[w][m].pc] = "none" /\ "none" \notin Claiming
      /\ task[w][m].pc \notin {"fail", "dead"}
  BY <1>2 DEF Claiming, Script
<1>4. PICK t \in Task :
          /\ t.pc = Script[task[w][m].pc] /\ (t.pc = "none" \/ t.capture = task[w][m].capture)
          /\ task' = [task EXCEPT ![w][m] = t]
          /\ \/ t.pc \in Claiming /\ claimed' = claimed \cup {m}
             \/ t.pc \notin Claiming /\ task[w][m].pc \in Claiming /\ claimed' = claimed \ {m}
  BY <1>2, <1>3, AdvanceSets
<1>5. t.pc = "none" /\ t.pc \notin Claiming
  BY <1>3, <1>4
<1>6. PICK zero \in Captures : zero = 0
  BY MediaNumbers
<1>7. PICK minus \in Int : minus = -1
  OBVIOUS
<1>8. [attempts |-> minus, capture |-> zero] \in [attempts : Int, capture : Captures]
  OBVIOUS
<1>9. NoRow \in [attempts : Int, capture : Captures]
  BY <1>6, <1>7, <1>8 DEF NoRow
<1>10. /\ pending' \in [Items -> [attempts : Int, capture : Captures]] /\ pending'[m] = NoRow
       /\ \A n \in Items : n # m => pending'[n] = pending[n]
  BY <1>1, <1>2, <1>9
<1>11. m \in media' \cup hist.wiped
  BY <1>2 DEF MediaInv, OnDisk
<1>12. /\ task'[w][m] = t
       /\ \A v \in Workers, n \in Items : v # w \/ n # m => task'[v][n] = task[v][n]
  BY <1>1, <1>4
<1>13. IsFiniteSet(Failing(m)')
  <2>1. IsFiniteSet(Failing(m))
    BY <1>1 DEF Recorded
  <2> QED  BY <1>1, <1>4, <2>1, FailSet
<1>14. \A n \in Items : n # m => Failing(n)' = Failing(n)
  BY <1>12 DEF Failing
<1>15. ASSUME NEW n \in Items, n # m
       PROVE  (AboutIt(n) => AboutIt(n)') /\ (Owned(n) => Owned(n)')
  <2>1. AboutIt(n) => AboutIt(n)'
    BY <1>2, <1>10, <1>12, <1>15 DEF AboutIt
  <2>2. \A v \in Workers : task'[v][n] = task[v][n]
    BY <1>12, <1>15
  <2>3. Owned(n) => Owned(n)'
    BY <1>2, <1>10, <1>14, <1>15, <2>2 DEF Owned
  <2> QED  BY <2>1, <2>3
<1>16. Recorded'
  BY <1>1, <1>2, <1>10, <1>14, <1>15, <1>13 DEF Recorded
<1>17. \A n \in Items : pending'[n] = NoRow => pending[n] = NoRow \/ n \in media' \cup hist.wiped
  BY <1>10, <1>11
<1>18. t.pc # "row" /\ t.pc # "forget" /\ claimed' = claimed \ {m}
  BY <1>4, <1>5
<1>19. media \subseteq media' /\ \A n \in media' : n \in media \/ (n = m /\ task[w][m].pc = "row")
  <2>1. media' = media
    BY <1>2
  <2> QED  BY <2>1
<1>20. files \subseteq files' /\ files' \subseteq Items
  BY <1>1, <1>2
<1>21. \A p \in Popups : todo'[p] \subseteq todo[p]
  BY <1>2
<1> QED  BY <1>1, <1>2, <1>3, <1>4, <1>5, <1>10, <1>16, <1>17, <1>18, <1>19, <1>20, <1>21, WorkerKeeps

(* A download that fails counts against the reference it was of, if that   *)
(* is still the one at hand.                                               *)
LEMMA FailsHist ==
    ASSUME MediaInv, NEW w \in Workers, NEW m \in Items, NEW dead \in BOOLEAN, Fails(w, m, dead)
    PROVE  /\ hist' \in History /\ hist'.captures = hist.captures /\ hist'.arrivals = hist.arrivals
           /\ hist'.wiped = hist.wiped /\ hist'.lost = hist.lost /\ hist'.overtaken = hist.overtaken
           /\ hist'.failed \in [Items -> 0..MaxAttempts]
           /\ \A n \in Items : n # m => hist'.failed[n] = hist.failed[n]
           /\ hist.dead \subseteq hist'.dead /\ hist.failed[m] <= hist'.failed[m]
           /\ task[w][m].capture = pending[m].capture =>
                 \/ dead /\ m \in hist'.dead
                 \/ ~dead /\ (hist'.failed[m] >= MaxAttempts \/ hist'.failed[m] = hist.failed[m] + 1)
<1>1. /\ hist \in History /\ hist.failed \in [Items -> 0..MaxAttempts] /\ hist.dead \subseteq Items
  BY MediaTyped
<1>2. hist.failed[m] \in Nat /\ hist.failed[m] \in 0..MaxAttempts /\ MaxAttempts \in Nat
  BY <1>1, MediaNumbers
<1>3. CASE task[w][m].capture # pending[m].capture
  <2>1. hist' = hist
    BY <1>3 DEF Fails
  <2>2. hist.failed[m] <= hist'.failed[m]
    BY <1>2, <2>1
  <2> QED  BY <1>1, <1>3, <2>1, <2>2
<1>4. CASE task[w][m].capture = pending[m].capture
  <2>1. PICK k \in 0..MaxAttempts : k = IF hist.failed[m] < MaxAttempts THEN hist.failed[m] + 1 ELSE hist.failed[m]
    BY <1>2
  <2>2. PICK f \in [Items -> 0..MaxAttempts] : f = [hist.failed EXCEPT ![m] = k]
    BY <1>1
  <2>3. PICK d \in SUBSET Items : d = IF dead THEN hist.dead \cup {m} ELSE hist.dead
    BY <1>1
  <2>4. hist' = [hist EXCEPT !.failed = f, !.dead = d]
    BY <1>1, <1>4, <2>1, <2>2, <2>3 DEF Fails, History
  <2>5. /\ hist' \in History /\ hist'.failed = f /\ hist'.dead = d
        /\ hist'.captures = hist.captures /\ hist'.arrivals = hist.arrivals
        /\ hist'.wiped = hist.wiped /\ hist'.lost = hist.lost /\ hist'.overtaken = hist.overtaken
    BY <1>1, <2>4 DEF History
  <2>6. f[m] = k /\ \A n \in Items : n # m => f[n] = hist.failed[n]
    BY <1>1, <2>2
  <2>7. hist.failed[m] <= k /\ (k >= MaxAttempts \/ k = hist.failed[m] + 1)
    BY <1>2, <2>1
  <2>8. hist.dead \subseteq d /\ (dead => m \in d)
    BY <2>3
  <2> QED  BY <1>4, <2>5, <2>6, <2>7, <2>8
<1> QED  BY <1>3, <1>4

LEMMA FailsKeeps ==
    ASSUME MediaInv, NEW w \in Workers, NEW m \in Items, NEW dead \in BOOLEAN, Fails(w, m, dead)
    PROVE  MediaInv'
<1>1. /\ files \subseteq Items /\ media \subseteq Items
      /\ pending \in [Items -> [attempts : Int, capture : Captures]]
      /\ todo \in [Popups -> SUBSET (Items \X Captures)]
      /\ task \in [Workers -> [Items -> Task]] /\ Recorded
      /\ hist.failed \in [Items -> 0..MaxAttempts]
  BY MediaTyped DEF MediaInv
<1>2. /\ task[w][m].pc = "download" /\ claimed' = claimed \ {m}
      /\ Goto(w, m, IF dead THEN "dead" ELSE "fail")
      /\ UNCHANGED <<pending, media, files, messages, todo, handler, reset>>
  BY DEF Fails
<1>3. PICK pc \in {"none", "claim", "fail", "dead"} \cup Claiming : pc = IF dead THEN "dead" ELSE "fail"
  OBVIOUS
<1>4. PICK t \in Task : /\ t.pc = pc /\ t.capture = task[w][m].capture
                        /\ task' = [task EXCEPT ![w][m] = t]
  <2>1. Goto(w, m, pc)
    BY <1>2, <1>3
  <2> QED  BY <1>1, <2>1, PcSet
<1>5. /\ pc \in {"dead", "fail"} /\ (pc = "dead" <=> dead) /\ pc \notin Claiming /\ task[w][m].pc \in Claiming
      /\ task[w][m].pc # "none" /\ pc # "row" /\ pc # "forget" /\ (pc = "fail" <=> ~dead)
  BY <1>2, <1>3 DEF Claiming
<1>6. /\ hist' \in History /\ hist'.captures = hist.captures /\ hist'.arrivals = hist.arrivals
      /\ hist'.wiped = hist.wiped /\ hist'.lost = hist.lost /\ hist'.overtaken = hist.overtaken
      /\ hist'.failed \in [Items -> 0..MaxAttempts]
      /\ \A n \in Items : n # m => hist'.failed[n] = hist.failed[n]
      /\ hist.dead \subseteq hist'.dead /\ hist.failed[m] <= hist'.failed[m]
      /\ task[w][m].capture = pending[m].capture =>
            \/ dead /\ m \in hist'.dead
            \/ ~dead /\ (hist'.failed[m] >= MaxAttempts \/ hist'.failed[m] = hist.failed[m] + 1)
  BY FailsHist
<1>7. /\ task'[w][m] = t
      /\ \A v \in Workers, n \in Items : v # w \/ n # m => task'[v][n] = task[v][n]
  BY <1>1, <1>4
<1>8. IsFiniteSet(Failing(m)) /\ \A n \in Items : n # m => Failing(n)' = Failing(n)
  BY <1>1, <1>7 DEF Failing, Recorded
<1>9. /\ IsFiniteSet(Failing(m)')
      /\ Cardinality(Failing(m)') \in Nat /\ Cardinality(Failing(m)) \in Nat
      /\ Cardinality(Failing(m)') + FailAt(task[w][m].pc) = Cardinality(Failing(m)) + FailAt(t.pc)
  BY <1>1, <1>4, <1>8, FailSet
<1>10. Cardinality(Failing(m)') = Cardinality(Failing(m)) + (IF dead THEN 0 ELSE 1)
  BY <1>2, <1>4, <1>5, <1>9 DEF FailAt
<1>11. ASSUME NEW n \in Items, n # m
       PROVE  (AboutIt(n) => AboutIt(n)') /\ (Owned(n) => Owned(n)')
  <2>1. AboutIt(n) => AboutIt(n)'
    BY <1>2, <1>7, <1>11 DEF AboutIt
  <2>2. \A v \in Workers : task'[v][n] = task[v][n]
    BY <1>7, <1>11
  <2>3. Owned(n) => Owned(n)'
    BY <1>2, <1>6, <1>8, <1>11, <2>2 DEF Owned
  <2> QED  BY <2>1, <2>3
<1>12. ASSUME AboutIt(m), Owned(m) PROVE AboutIt(m)' /\ Owned(m)'
  <2>1. task[w][m].capture = pending[m].capture /\ t.capture = pending[m].capture
    BY <1>4, <1>5, <1>12 DEF AboutIt
  <2>2. AboutIt(m)'
    BY <1>2, <1>7, <1>12, <2>1 DEF AboutIt
  <2>3. /\ pending[m].attempts \in Int /\ hist.failed[m] \in Nat /\ hist'.failed[m] \in Nat
        /\ MaxAttempts \in Nat
    BY <1>1, <1>6, MediaNumbers
  <2>4. CASE m \in hist.dead \/ hist.failed[m] >= MaxAttempts
    <3>1. m \in hist'.dead \/ hist'.failed[m] >= MaxAttempts
      BY <1>6, <2>3, <2>4
    <3> QED  BY <2>2, <3>1 DEF Owned
  <2>5. CASE dead
    BY <1>6, <2>1, <2>2, <2>5 DEF Owned
  <2>6. CASE ~dead /\ hist'.failed[m] >= MaxAttempts
    BY <2>2, <2>6 DEF Owned
  <2>7. CASE /\ ~dead /\ hist'.failed[m] = hist.failed[m] + 1
             /\ ~(m \in hist.dead \/ hist.failed[m] >= MaxAttempts)
    <3>1. /\ \A v \in Workers : task[v][m].pc # "dead"
          /\ pending[m].attempts + Cardinality(Failing(m)) <= hist.failed[m]
      BY <1>12, <2>7 DEF Owned
    <3>2. \A v \in Workers : task'[v][m].pc # "dead"
      BY <1>4, <1>5, <1>7, <2>7, <3>1
    <3>3. pending[m].attempts + Cardinality(Failing(m)') <= hist'.failed[m]
      BY <1>9, <1>10, <2>3, <2>7, <3>1
    <3>4. pending'[m] = pending[m]
      BY <1>2
    <3> QED  BY <2>2, <3>2, <3>3, <3>4 DEF Owned
  <2> QED  BY <1>6, <2>1, <2>4, <2>5, <2>6, <2>7
<1>13. Recorded'
  BY <1>1, <1>2, <1>6, <1>8, <1>9, <1>11, <1>12 DEF Recorded
<1>14. media \subseteq media' /\ \A n \in media' : n \in media \/ (n = m /\ task[w][m].pc = "row")
  BY <1>2
<1>15. \A n \in Items : pending'[n] = NoRow => pending[n] = NoRow \/ n \in media' \cup hist.wiped
  BY <1>2
<1>16. files \subseteq files' /\ files' \subseteq Items /\ \A p \in Popups : todo'[p] \subseteq todo[p]
  BY <1>1, <1>2
<1>17. /\ t.pc \notin Claiming /\ task[w][m].pc \in Claiming /\ claimed' = claimed \ {m}
       /\ t.pc # "row" /\ t.pc # "forget"
  BY <1>2, <1>4, <1>5
<1> QED  BY <1>1, <1>2, <1>4, <1>5, <1>6, <1>13, <1>14, <1>15, <1>16, <1>17, WorkerKeeps

LEMMA RecordFailureKeeps ==
    ASSUME MediaInv, NEW w \in Workers, NEW m \in Items, RecordFailure(w, m) PROVE MediaInv'
<1>1. /\ files \subseteq Items /\ media \subseteq Items /\ hist \in History
      /\ pending \in [Items -> [attempts : Int, capture : Captures]]
      /\ todo \in [Popups -> SUBSET (Items \X Captures)]
      /\ task \in [Workers -> [Items -> Task]] /\ Recorded
      /\ hist.failed \in [Items -> 0..MaxAttempts]
  BY MediaTyped DEF MediaInv
<1>2. /\ task[w][m].pc \in {"fail", "dead"} /\ Leave(w, m)
      /\ UNCHANGED <<media, files, messages, claimed, todo, handler, reset, hist>>
  BY DEF RecordFailure
<1>3. PICK t \in Task : t.pc = "none" /\ task' = [task EXCEPT ![w][m] = t]
  BY <1>2, NoTaskTyped DEF Leave
<1>4. /\ t.pc \notin Claiming /\ task[w][m].pc \notin Claiming /\ claimed' = claimed
      /\ t.pc # "row" /\ t.pc # "forget"
  BY <1>2, <1>3 DEF Claiming
<1>5. /\ task'[w][m] = t
      /\ \A v \in Workers, n \in Items : v # w \/ n # m => task'[v][n] = task[v][n]
  BY <1>1, <1>3
<1>6. IsFiniteSet(Failing(m)) /\ \A n \in Items : n # m => Failing(n)' = Failing(n)
  BY <1>1, <1>5 DEF Failing, Recorded
<1>7. /\ IsFiniteSet(Failing(m)')
      /\ Cardinality(Failing(m)') \in Nat /\ Cardinality(Failing(m)) \in Nat
      /\ Cardinality(Failing(m)') + FailAt(task[w][m].pc) = Cardinality(Failing(m)) + FailAt(t.pc)
  BY <1>1, <1>3, <1>6, FailSet
<1>8. task[w][m].pc = "fail" => Cardinality(Failing(m)') + 1 = Cardinality(Failing(m))
  BY <1>3, <1>7 DEF FailAt
<1>9. /\ pending' \in [Items -> [attempts : Int, capture : Captures]]
      /\ \A n \in Items : n # m => pending'[n] = pending[n]
      /\ pending[m] = NoRow => pending'[m] = NoRow
      /\ pending[m] # NoRow => /\ pending'[m].capture = pending[m].capture
                               /\ pending'[m].attempts = Counted(pending[m].attempts, task[w][m].pc = "dead")
                               /\ pending'[m] # NoRow /\ pending'[m].attempts >= 0
  <2>1. CASE pending[m] = NoRow
    <3>1. pending' = pending
      BY <2>1 DEF RecordFailure
    <3> QED  BY <1>1, <2>1, <3>1
  <2>2. CASE pending[m] # NoRow
    <3>1. pending[m].attempts \in Int /\ pending[m].attempts >= 0 /\ pending[m].capture \in Captures
      BY <1>1, <2>2 DEF Recorded
    <3>2. PICK k \in Int : k = Counted(pending[m].attempts, task[w][m].pc = "dead")
      BY <3>1, MediaNumbers DEF Counted
    <3>3. k >= 0
      BY <3>1, <3>2, MediaNumbers DEF Counted
    <3>4. PICK ref \in [attempts : Int, capture : Captures] : ref = [attempts |-> k, capture |-> pending[m].capture]
      BY <3>1
    <3>5. [pending[m] EXCEPT !.attempts = k] = ref
      BY <1>1, <3>4
    <3>6. pending' = [pending EXCEPT ![m].attempts = Counted(pending[m].attempts, task[w][m].pc = "dead")]
      BY <2>2 DEF RecordFailure
    <3>7. pending' = [pending EXCEPT ![m] = ref]
      BY <3>2, <3>5, <3>6
    <3>8. /\ pending'[m] = ref /\ pending' \in [Items -> [attempts : Int, capture : Captures]]
          /\ \A n \in Items : n # m => pending'[n] = pending[n]
      BY <1>1, <3>7
    <3>9. ref.attempts = k /\ ref.capture = pending[m].capture /\ ref # NoRow
      BY <3>3, <3>4 DEF NoRow
    <3> QED  BY <2>2, <3>2, <3>3, <3>8, <3>9
  <2> QED  BY <2>1, <2>2
<1>10. ASSUME NEW n \in Items, n # m
       PROVE  (AboutIt(n) => AboutIt(n)') /\ (Owned(n) => Owned(n)')
  <2>1. AboutIt(n) => AboutIt(n)'
    BY <1>2, <1>5, <1>9, <1>10 DEF AboutIt
  <2>2. \A v \in Workers : task'[v][n] = task[v][n]
    BY <1>5, <1>10
  <2>3. Owned(n) => Owned(n)'
    BY <1>2, <1>6, <1>9, <1>10, <2>2 DEF Owned
  <2> QED  BY <2>1, <2>3
<1>11. ASSUME AboutIt(m), Owned(m), pending[m] # NoRow PROVE AboutIt(m)' /\ Owned(m)'
  <2>1. AboutIt(m)'
    BY <1>2, <1>3, <1>5, <1>9, <1>11 DEF AboutIt
  <2>2. CASE m \in hist.dead \/ hist.failed[m] >= MaxAttempts
    BY <1>2, <2>1, <2>2 DEF Owned
  <2>3. CASE ~(m \in hist.dead \/ hist.failed[m] >= MaxAttempts)
    <3>1. /\ \A v \in Workers : task[v][m].pc # "dead"
          /\ pending[m].attempts + Cardinality(Failing(m)) <= hist.failed[m]
      BY <1>11, <2>3 DEF Owned
    <3>2. task[w][m].pc = "fail"
      BY <1>2, <3>1
    <3>3. pending'[m].attempts = pending[m].attempts + 1
      BY <1>9, <1>11, <3>2 DEF Counted
    <3>4. pending[m].attempts \in Int /\ hist.failed[m] \in Nat
      BY <1>1, MediaNumbers
    <3>5. pending'[m].attempts + Cardinality(Failing(m)') <= hist.failed[m]
      BY <1>7, <1>8, <3>1, <3>2, <3>3, <3>4
    <3>6. \A v \in Workers : task'[v][m].pc # "dead"
      BY <1>3, <1>5, <3>1
    <3> QED  BY <1>2, <2>1, <3>5, <3>6 DEF Owned
  <2> QED  BY <2>2, <2>3
<1>12. ASSUME NEW n \in Items
       PROVE  /\ pending'[n] = NoRow \/ pending'[n].attempts >= 0
              /\ IsFiniteSet(Failing(n)')
              /\ n \notin hist'.overtaken /\ pending'[n] # NoRow => AboutIt(n)' /\ Owned(n)'
  <2>1. CASE n # m
    BY <1>1, <1>2, <1>6, <1>9, <1>10, <2>1 DEF Recorded
  <2>2. CASE n = m
    BY <1>1, <1>2, <1>7, <1>9, <1>11, <2>2 DEF Recorded
  <2> QED  BY <2>1, <2>2
<1>13. Recorded'
  BY <1>12 DEF Recorded
<1>14. media \subseteq media' /\ \A n \in media' : n \in media \/ (n = m /\ task[w][m].pc = "row")
  BY <1>2
<1>15. \A n \in Items : pending'[n] = NoRow => pending[n] = NoRow \/ n \in media' \cup hist.wiped
  BY <1>9
<1>16. files \subseteq files' /\ files' \subseteq Items /\ \A p \in Popups : todo'[p] \subseteq todo[p]
  BY <1>1, <1>2
<1>17. hist' \in History /\ hist' = hist /\ todo' \in [Popups -> SUBSET (Items \X Captures)]
  BY <1>1, <1>2
<1> QED  BY <1>1, <1>2, <1>3, <1>4, <1>9, <1>13, <1>14, <1>15, <1>16, <1>17, WorkerKeeps

-----------------------------------------------------------------------------
(* What is to be fetched next                                              *)

LEMMA OldestIsOne ==
    ASSUME NEW S, S \subseteq Nat, S # {}
    PROVE  Oldest(S) \in S
<1>1. PICK m \in S : \A n \in Nat : n < m => n \notin S
  <2>1. IsWellFoundedOn(OpToRel(<, Nat), Nat)
    BY NatLessThanWellFounded
  <2>2. PICK m \in S : \A n \in Nat : <<n, m>> \in OpToRel(<, Nat) => n \notin S
    BY <2>1, WFMin
  <2>3. \A n \in Nat : n < m => <<n, m>> \in OpToRel(<, Nat)
    BY <2>2 DEF OpToRel
  <2> QED  BY <2>2, <2>3
<1>2. \A n \in S : m <= n
  BY <1>1
<1> QED  BY <1>2 DEF Oldest

LEMMA NextMediaPendingKeeps == ASSUME MediaInv, NextMediaPending PROVE MediaInv'
<1>1. /\ files \subseteq Items /\ media \subseteq Items /\ hist \in History
      /\ pending \in [Items -> [attempts : Int, capture : Captures]]
      /\ todo \in [Popups -> SUBSET (Items \X Captures)]
      /\ task \in [Workers -> [Items -> Task]] /\ Recorded
  BY MediaTyped DEF MediaInv
<1>2. /\ Busy("bg") = {} /\ \E n \in Items : Waiting(n)
      /\ UNCHANGED <<pending, media, files, messages, claimed, todo, handler, reset, hist>>
  BY DEF NextMediaPending
<1>3. PICK w \in Workers : w = "bg"
  BY DEF Workers
<1>4. Oldest({n \in Items : Waiting(n)}) \in {n \in Items : Waiting(n)}
  BY <1>2, OldestIsOne, MediaNumbers
<1>5. PICK m \in Items : m = Oldest({n \in Items : Waiting(n)})
  BY <1>4
<1>6. task' = [task EXCEPT ![w][m] = [pc |-> "claim", capture |-> pending[m].capture]]
  BY <1>3, <1>5 DEF NextMediaPending
<1>7. PICK c \in Captures : c = pending[m].capture
  BY <1>1
<1>8. PICK t \in Task : t = [pc |-> "claim", capture |-> c]
  BY DEF Task
<1>9. task' = [task EXCEPT ![w][m] = t] /\ t.pc = "claim" /\ t.capture = pending[m].capture
  BY <1>6, <1>7, <1>8
<1>10. task[w][m].pc = "none"
  BY <1>2, <1>3 DEF Busy
<1>11. /\ t.pc \notin Claiming /\ task[w][m].pc \notin Claiming /\ claimed' = claimed
       /\ t.pc # "row" /\ t.pc # "forget" /\ t.pc \notin {"fail", "dead"}
       /\ task[w][m].pc \notin {"fail", "dead"} /\ w \notin Popups
  BY <1>2, <1>3, <1>9, <1>10, MediaNumbers DEF Claiming
<1>12. Recorded'
  <2>1. \A p \in Popups : todo'[p] \subseteq todo[p]
    BY <1>2
  <2> QED  BY <1>2, <1>9, <1>11, <2>1, RecordedKeeps
<1>13. media \subseteq media' /\ \A n \in media' : n \in media \/ (n = m /\ task[w][m].pc = "row")
  BY <1>2
<1>14. \A n \in Items : pending'[n] = NoRow => pending[n] = NoRow \/ n \in media' \cup hist.wiped
  BY <1>2
<1>15. files \subseteq files' /\ files' \subseteq Items /\ \A p \in Popups : todo'[p] \subseteq todo[p]
  BY <1>1, <1>2
<1>16. /\ hist' \in History /\ hist' = hist /\ todo' \in [Popups -> SUBSET (Items \X Captures)]
       /\ pending' \in [Items -> [attempts : Int, capture : Captures]]
  BY <1>1, <1>2
<1> QED  BY <1>2, <1>9, <1>11, <1>12, <1>13, <1>14, <1>15, <1>16, WorkerKeeps

LEMMA ClaimSets ==
    ASSUME MediaInv, NEW w \in Workers, NEW m \in Items, NEW c \in Captures, Claim(w, m, c)
    PROVE  \E t \in Task :
              /\ task' = [task EXCEPT ![w][m] = t]
              /\ \/ t.pc = "none" /\ claimed' = claimed
                 \/ t.pc = "download" /\ t.capture = c /\ m \notin claimed /\ claimed' = claimed \cup {m}
<1>1. CASE m \in claimed
  <2>1. claimed' = claimed /\ Leave(w, m)
    BY <1>1 DEF Claim, MayClaim
  <2> QED  BY <2>1, NoTaskTyped DEF Leave
<1>2. CASE m \notin claimed
  <2>1. PICK t \in Task : t = [pc |-> "download", capture |-> c]
    BY DEF Task, Claiming
  <2>2. task' = [task EXCEPT ![w][m] = t] /\ claimed' = claimed \cup {m}
    BY <1>2, <2>1 DEF Claim, MayClaim
  <2>3. t.pc = "download" /\ t.capture = c
    BY <2>1
  <2> QED  BY <1>2, <2>2, <2>3
<1> QED  BY <1>1, <1>2

(* Claiming is the same whoever does it, for a reference that is the one   *)
(* at hand unless it was captured again.                                   *)
LEMMA ClaimKeeps ==
    ASSUME MediaInv, NEW w \in Workers, NEW m \in Items, NEW c \in Captures, Claim(w, m, c),
           UNCHANGED <<pending, media, files, messages, handler, reset, hist>>,
           todo' \in [Popups -> SUBSET (Items \X Captures)],
           \A p \in Popups : todo'[p] \subseteq todo[p],
           task[w][m].pc \in {"none", "claim"},
           AboutIt(m) => c = pending[m].capture,
           w \in Popups => task[w][m].pc # "none" \/ \A s \in todo'[w] : s[1] # m
    PROVE  MediaInv'
<1>1. /\ files \subseteq Items /\ media \subseteq Items /\ hist \in History
      /\ pending \in [Items -> [attempts : Int, capture : Captures]]
  BY MediaTyped
<1>2. PICK t \in Task :
          /\ task' = [task EXCEPT ![w][m] = t]
          /\ \/ t.pc = "none" /\ claimed' = claimed
             \/ t.pc = "download" /\ t.capture = c /\ m \notin claimed /\ claimed' = claimed \cup {m}
  BY ClaimSets
<1>3. /\ "none" \notin Claiming /\ "download" \in Claiming
      /\ task[w][m].pc \notin Claiming /\ task[w][m].pc \notin {"fail", "dead"}
      /\ t.pc \notin {"fail", "dead"} /\ t.pc # "row" /\ t.pc # "forget"
  BY <1>2 DEF Claiming
<1>4. t.pc \in Claiming => task[w][m].pc \in Claiming \/ m \notin claimed
  BY <1>2, <1>3
<1>5. \/ t.pc \in Claiming /\ claimed' = claimed \cup {m}
      \/ t.pc \notin Claiming /\ task[w][m].pc \in Claiming /\ claimed' = claimed \ {m}
      \/ t.pc \notin Claiming /\ task[w][m].pc \notin Claiming /\ claimed' = claimed
  BY <1>2, <1>3
<1>6. AboutIt(m) => t.pc = "none" \/ t.capture = pending[m].capture
  BY <1>2
<1>7. Recorded'
  BY <1>2, <1>3, <1>6, RecordedKeeps
<1>8. media \subseteq media' /\ \A n \in media' : n \in media \/ (n = m /\ task[w][m].pc = "row")
  OBVIOUS
<1>9. \A n \in Items : pending'[n] = NoRow => pending[n] = NoRow \/ n \in media' \cup hist.wiped
  OBVIOUS
<1>10. /\ files \subseteq files' /\ files' \subseteq Items /\ hist' \in History /\ hist' = hist
       /\ pending' \in [Items -> [attempts : Int, capture : Captures]]
  BY <1>1
<1> QED  BY <1>2, <1>3, <1>4, <1>5, <1>7, <1>8, <1>9, <1>10, WorkerKeeps

LEMMA ClaimNextKeeps == ASSUME MediaInv, NEW m \in Items, ClaimNext(m) PROVE MediaInv'
<1>1. /\ todo \in [Popups -> SUBSET (Items \X Captures)] /\ task \in [Workers -> [Items -> Task]]
  BY MediaTyped
<1>2. PICK w \in Workers : w = "bg"
  BY DEF Workers
<1>3. PICK c \in Captures : c = task[w][m].capture
  BY <1>1 DEF Task
<1>4. /\ task[w][m].pc = "claim" /\ Claim(w, m, c)
      /\ UNCHANGED <<pending, media, files, messages, todo, handler, reset, hist>>
  BY <1>2, <1>3 DEF ClaimNext
<1>5. AboutIt(m) => c = pending[m].capture
  BY <1>3, <1>4 DEF AboutIt
<1>6. \A p \in Popups : todo'[p] \subseteq todo[p]
  BY <1>4
<1>7. /\ todo' \in [Popups -> SUBSET (Items \X Captures)] /\ task[w][m].pc \in {"none", "claim"}
      /\ task[w][m].pc # "none"
  BY <1>1, <1>4
<1> QED  BY <1>4, <1>5, <1>6, <1>7, ClaimKeeps

LEMMA ClaimListedKeeps == ASSUME MediaInv, NEW p \in Popups, ClaimListed(p) PROVE MediaInv'
<1>1. /\ todo \in [Popups -> SUBSET (Items \X Captures)] /\ Unstarted
  BY MediaTyped DEF MediaInv
<1>2. PICK r \in todo[p] : todo' = [todo EXCEPT ![p] = @ \ {r}] /\ Claim(p, r[1], r[2])
  BY DEF ClaimListed
<1>3. UNCHANGED <<pending, media, files, messages, handler, reset, hist>>
  BY DEF ClaimListed
<1>4. r \in Items \X Captures /\ p \in Workers
  BY <1>1 DEF Workers
<1>5. PICK m \in Items, c \in Captures : m = r[1] /\ c = r[2]
  BY <1>4
<1>6. task[p][m].pc = "none" /\ \A s \in todo[p] : s[1] = m => s = r
  BY <1>1, <1>5 DEF Unstarted
<1>7. todo' = [todo EXCEPT ![p] = todo[p] \ {r}]
  BY <1>2
<1>8. /\ todo' \in [Popups -> SUBSET (Items \X Captures)]
      /\ \A q \in Popups : todo'[q] \subseteq todo[q]
      /\ todo'[p] = todo[p] \ {r}
  BY <1>1, <1>7
<1>9. \A s \in todo'[p] : s[1] # m
  BY <1>6, <1>8
<1>10. AboutIt(m) => c = pending[m].capture
  BY <1>2, <1>5 DEF AboutIt
<1>11. Claim(p, m, c) /\ task[p][m].pc \in {"none", "claim"}
  BY <1>2, <1>5, <1>6
<1> QED  BY <1>3, <1>4, <1>8, <1>9, <1>10, <1>11, ClaimKeeps

(* A list of what the chat has waiting, and one that is let go of.         *)
LEMMA ListKeeps ==
    ASSUME MediaInv, NEW p \in Popups, NEW l \in SUBSET (Items \X Captures),
           todo' = [todo EXCEPT ![p] = l],
           UNCHANGED <<pending, media, files, messages, claimed, task, handler, reset, hist>>,
           \A r \in l : /\ task[p][r[1]].pc = "none" /\ r[2] = pending[r[1]].capture
                        /\ \A s \in l : s[1] = r[1] => s = r
    PROVE  MediaInv'
<1>1. /\ MediaTypeOK /\ NothingForgotten /\ RowHasFile /\ Arriving /\ Alone /\ Unstarted /\ OnDisk /\ Recorded
      /\ todo \in [Popups -> SUBSET (Items \X Captures)]
  BY MediaTyped DEF MediaInv
<1>2. /\ todo' \in [Popups -> SUBSET (Items \X Captures)] /\ todo'[p] = l
      /\ \A q \in Popups : q # p => todo'[q] = todo[q]
  BY <1>1
<1>3. MediaTypeOK'
  BY <1>1, <1>2 DEF MediaTypeOK
<1>4. NothingForgotten' /\ RowHasFile' /\ Arriving' /\ Alone' /\ OnDisk'
  BY <1>1 DEF NothingForgotten, RowHasFile, Arriving, Alone, OnDisk
<1>5. Unstarted'
  <2>1. ASSUME NEW q \in Popups, NEW r \in todo'[q]
        PROVE  task'[q][r[1]].pc = "none" /\ \A s \in todo'[q] : s[1] = r[1] => s = r
    <3>1. CASE q = p
      BY <1>2, <2>1, <3>1
    <3>2. CASE q # p
      <4>1. r \in todo[q] /\ todo'[q] = todo[q]
        BY <1>2, <2>1, <3>2
      <4> QED  BY <1>1, <4>1 DEF Unstarted
    <3> QED  BY <3>1, <3>2
  <2> QED  BY <2>1 DEF Unstarted
<1>6. \A n \in Items : Failing(n)' = Failing(n)
  BY DEF Failing
<1>7. ASSUME NEW n \in Items PROVE (AboutIt(n) => AboutIt(n)') /\ (Owned(n) => Owned(n)')
  <2>1. ASSUME AboutIt(n), NEW q \in Popups, NEW r \in todo'[q], r[1] = n
        PROVE  r[2] = pending'[n].capture
    <3>1. CASE q = p
      BY <1>2, <2>1, <3>1
    <3>2. CASE q # p
      BY <1>2, <2>1, <3>2 DEF AboutIt
    <3> QED  BY <3>1, <3>2
  <2>2. AboutIt(n) => AboutIt(n)'
    BY <2>1 DEF AboutIt
  <2>3. Owned(n) => Owned(n)'
    BY <1>6 DEF Owned
  <2> QED  BY <2>2, <2>3
<1>8. Recorded'
  BY <1>1, <1>6, <1>7 DEF Recorded
<1> QED  BY <1>3, <1>4, <1>5, <1>8 DEF MediaInv

LEMMA OpenChatKeeps ==
    ASSUME MediaInv, NEW p \in Popups, NEW c \in Chats, OpenChat(p, c) PROVE MediaInv'
<1>1. pending \in [Items -> [attempts : Int, capture : Captures]]
  BY MediaTyped
<1>2. Busy(p) = {} /\ UNCHANGED <<pending, media, files, messages, claimed, task, handler, reset, hist>>
  BY DEF OpenChat
<1> DEFINE list == {<<m, pending[m].capture>> : m \in {n \in Items : ChatOf[n] = c /\ Waiting(n)}}
<1>3. list \subseteq Items \X Captures
  BY <1>1
<1>4. todo' = [todo EXCEPT ![p] = list]
  BY DEF OpenChat
<1>5. ASSUME NEW r \in list
      PROVE  /\ task[p][r[1]].pc = "none" /\ r[2] = pending[r[1]].capture
             /\ \A s \in list : s[1] = r[1] => s = r
  <2>1. PICK m \in Items : r = <<m, pending[m].capture>>
    BY <1>5
  <2>2. \A s \in list : s[1] = m => s = r
    BY <2>1
  <2>3. task[p][m].pc = "none"
    BY <1>2 DEF Busy
  <2> QED  BY <2>1, <2>2, <2>3
<1> HIDE DEF list
<1>6. PICK l \in SUBSET (Items \X Captures) : l = list
  BY <1>3
<1>7. /\ todo' = [todo EXCEPT ![p] = l]
      /\ \A r \in l : /\ task[p][r[1]].pc = "none" /\ r[2] = pending[r[1]].capture
                      /\ \A s \in l : s[1] = r[1] => s = r
  BY <1>4, <1>5, <1>6
<1> QED  BY <1>2, <1>7, ListKeeps

LEMMA KilledListKeeps == ASSUME MediaInv, NEW p \in Popups, KilledList(p) PROVE MediaInv'
<1>1. PICK l \in SUBSET (Items \X Captures) : l = {}
  OBVIOUS
<1>2. /\ todo' = [todo EXCEPT ![p] = l]
      /\ UNCHANGED <<pending, media, files, messages, claimed, task, handler, reset, hist>>
  BY <1>1 DEF KilledList
<1>3. \A r \in l : /\ task[p][r[1]].pc = "none" /\ r[2] = pending[r[1]].capture
                   /\ \A s \in l : s[1] = r[1] => s = r
  BY <1>1
<1> QED  BY <1>2, <1>3, ListKeeps

-----------------------------------------------------------------------------
(* Resets and crashes                                                      *)

LEMMA NoRowTyped == NoRow \in [attempts : Int, capture : Captures]
<1>1. PICK zero \in Captures : zero = 0
  BY MediaNumbers
<1>2. PICK minus \in Int : minus = -1
  OBVIOUS
<1>3. [attempts |-> minus, capture |-> zero] \in [attempts : Int, capture : Captures]
  OBVIOUS
<1> QED  BY <1>1, <1>2, <1>3 DEF NoRow

LEMMA WipedTyped ==
    ASSUME MediaInv
    PROVE  /\ hist.wiped \subseteq Wiped /\ Wiped \subseteq Items
           /\ handler.step = "row" => handler.item \in Wiped
           /\ \A w \in Workers, m \in Items : task[w][m].pc # "none" => m \in Wiped
<1>1. handler.item \in Items \cup {NoItem} /\ hist.wiped \subseteq Items /\ Arriving
  BY MediaTyped DEF MediaInv
<1>2. hist.wiped \subseteq Wiped
  BY DEF Wiped
<1>3. Wiped \subseteq Items
  BY <1>1, MediaNumbers DEF Wiped, UnderWay
<1>4. handler.step = "row" => handler.item \in Wiped
  <2>1. handler.step = "row" => handler.item \in Items /\ handler.item # NoItem
    BY <1>1, MediaNumbers DEF Arriving
  <2> QED  BY <2>1 DEF Wiped, UnderWay
<1>5. ASSUME NEW w \in Workers, NEW m \in Items, task[w][m].pc # "none" PROVE m \in Wiped
  <2>1. w \in At(m) /\ m # NoItem
    BY <1>5, MediaNumbers DEF At
  <2> QED  BY <2>1 DEF Wiped, UnderWay
<1> QED  BY <1>2, <1>3, <1>4, <1>5

LEMMA ResetBeginKeeps == ASSUME MediaInv, ResetBegin PROVE MediaInv'
<1>1. /\ files \subseteq Items /\ hist \in History /\ Arriving /\ Alone /\ Unstarted /\ OnDisk /\ Recorded
      /\ MediaTypeOK
      /\ hist.faults \in 0..MaxFaults /\ hist.captures \in Nat /\ hist.arrivals \in Nat
  BY MediaTyped DEF MediaInv
<1>2. /\ hist.faults < MaxFaults /\ reset' = TRUE
      /\ pending' = [m \in Items |-> NoRow] /\ media' = {} /\ messages' = {}
      /\ UNCHANGED <<files, claimed, task, todo, handler>>
  BY DEF ResetBegin
<1>3. /\ hist.wiped \subseteq Wiped /\ Wiped \subseteq Items
      /\ handler.step = "row" => handler.item \in Wiped
      /\ \A w \in Workers, m \in Items : task[w][m].pc # "none" => m \in Wiped
  BY WipedTyped
<1>4. PICK k \in 0..MaxFaults : k = hist.faults + 1
  BY <1>1, <1>2, MediaNumbers
<1>5. PICK d \in SUBSET Items : d = Wiped
  BY <1>3
<1>6. PICK e \in SUBSET Items : e = {}
  OBVIOUS
<1>7. hist' = [hist EXCEPT !.faults = k, !.wiped = d, !.lost = e]
  BY <1>4, <1>5, <1>6 DEF ResetBegin
<1>8. /\ hist' \in History /\ hist'.wiped = d
      /\ hist'.captures = hist.captures /\ hist'.arrivals = hist.arrivals
  BY <1>1, <1>7 DEF History
<1>9. pending' \in [Items -> [attempts : Int, capture : Captures]] /\ \A n \in Items : pending'[n] = NoRow
  BY <1>2, NoRowTyped
<1>10. MediaTypeOK'
  BY <1>1, <1>2, <1>8, <1>9 DEF MediaTypeOK
<1>11. NothingForgotten' /\ RowHasFile'
  BY <1>2 DEF NothingForgotten, RowHasFile
<1>12. Arriving'
  BY <1>1, <1>2, <1>8 DEF Arriving
<1>13. Alone' /\ Unstarted'
  BY <1>1, <1>2 DEF Alone, Unstarted
<1>14. OnDisk'
  BY <1>1, <1>2, <1>3, <1>5, <1>8 DEF OnDisk
<1>15. \A n \in Items : Failing(n)' = Failing(n)
  BY <1>2 DEF Failing
<1>16. Recorded'
  BY <1>1, <1>9, <1>15 DEF Recorded
<1> QED  BY <1>10, <1>11, <1>12, <1>13, <1>14, <1>16 DEF MediaInv

LEMMA ResetEndKeeps == ASSUME MediaInv, ResetEnd PROVE MediaInv'
<1>1. /\ files \subseteq Items /\ hist \in History /\ Arriving /\ Alone /\ Unstarted /\ OnDisk /\ Recorded
      /\ MediaTypeOK /\ NothingForgotten /\ media \subseteq Items
      /\ hist.captures \in Nat /\ hist.arrivals \in Nat
  BY MediaTyped DEF MediaInv
<1>2. /\ reset' = FALSE /\ files' = {}
      /\ UNCHANGED <<pending, media, messages, claimed, task, todo, handler>>
  BY DEF ResetEnd
<1>3. /\ hist.wiped \subseteq Wiped /\ Wiped \subseteq Items
      /\ handler.step = "row" => handler.item \in Wiped
      /\ \A w \in Workers, m \in Items : task[w][m].pc # "none" => m \in Wiped
  BY WipedTyped
<1>4. PICK d \in SUBSET Items : d = Wiped \cup media
  BY <1>1, <1>3
<1>5. hist' = [hist EXCEPT !.wiped = d]
  BY <1>4 DEF ResetEnd
<1>6. /\ hist' \in History /\ hist'.wiped = d /\ hist'.lost = hist.lost
      /\ hist'.failed = hist.failed /\ hist'.dead = hist.dead /\ hist'.overtaken = hist.overtaken
      /\ hist'.captures = hist.captures /\ hist'.arrivals = hist.arrivals
  BY <1>1, <1>5 DEF History
<1>7. MediaTypeOK'
  BY <1>1, <1>2, <1>6 DEF MediaTypeOK
<1>8. NothingForgotten'
  BY <1>1, <1>2, <1>3, <1>4, <1>6 DEF NothingForgotten
<1>9. RowHasFile'
  BY <1>2, <1>4, <1>6 DEF RowHasFile
<1>10. Arriving'
  BY <1>1, <1>2, <1>6 DEF Arriving
<1>11. Alone' /\ Unstarted'
  BY <1>1, <1>2 DEF Alone, Unstarted
<1>12. OnDisk'
  BY <1>1, <1>2, <1>3, <1>4, <1>6 DEF OnDisk
<1>13. Recorded'
  BY <1>1, <1>2, <1>6, RecordedSame
<1> QED  BY <1>7, <1>8, <1>9, <1>10, <1>11, <1>12, <1>13 DEF MediaInv

(* Nobody is at anything.                                                  *)
LEMMA NobodyAt ==
    ASSUME task = [w \in Workers |-> [m \in Items |-> NoTask]]
    PROVE  /\ task \in [Workers -> [Items -> Task]]
           /\ \A w \in Workers, m \in Items : task[w][m].pc = "none"
           /\ \A m \in Items : Failing(m) = {}
<1>1. /\ task \in [Workers -> [Items -> Task]]
      /\ \A w \in Workers, m \in Items : task[w][m].pc = "none"
  BY NoTaskTyped
<1>2. \A m \in Items : Failing(m) = {}
  BY <1>1 DEF Failing
<1> QED  BY <1>1, <1>2

LEMMA CrashKeeps == ASSUME MediaInv, Crash PROVE MediaInv'
<1>1. /\ hist \in History /\ MediaTypeOK /\ NothingForgotten /\ RowHasFile /\ Arriving /\ Recorded
      /\ pending \in [Items -> [attempts : Int, capture : Captures]]
      /\ hist.faults \in 0..MaxFaults /\ hist.captures \in Nat /\ hist.arrivals \in Nat
      /\ hist.failed \in [Items -> 0..MaxAttempts]
  BY MediaTyped DEF MediaInv
<1>2. /\ hist.faults < MaxFaults /\ claimed' = {} /\ reset' = FALSE
      /\ task' = [w \in Workers |-> [m \in Items |-> NoTask]]
      /\ todo' = [p \in Popups |-> {}] /\ handler' = [item |-> NoItem, step |-> "none"]
      /\ UNCHANGED <<pending, media, files, messages>>
  BY DEF Crash
<1>3. PICK k \in 0..MaxFaults : k = hist.faults + 1
  BY <1>1, <1>2, MediaNumbers
<1>4. hist' = [hist EXCEPT !.faults = k]
  BY <1>3 DEF Crash
<1>5. /\ hist' \in History /\ hist'.wiped = hist.wiped /\ hist'.lost = hist.lost
      /\ hist'.failed = hist.failed /\ hist'.dead = hist.dead /\ hist'.overtaken = hist.overtaken
      /\ hist'.captures = hist.captures /\ hist'.arrivals = hist.arrivals
  BY <1>1, <1>4 DEF History
<1>6. /\ task' \in [Workers -> [Items -> Task]]
      /\ \A w \in Workers, m \in Items : task'[w][m].pc = "none"
  BY <1>2, NoTaskTyped
<1>7. \A m \in Items : Failing(m)' = {}
  BY <1>6 DEF Failing
<1>8. "none" \notin Claiming
  BY DEF Claiming
<1>9. todo' \in [Popups -> SUBSET (Items \X Captures)] /\ handler' \in Handlers
  BY <1>2 DEF Handlers
<1>10. claimed' = {m \in Items : \E w \in Workers : task'[w][m].pc \in Claiming} /\ claimed' \subseteq Items
  BY <1>2, <1>6, <1>8
<1>11. MediaTypeOK'
  BY <1>1, <1>2, <1>5, <1>6, <1>9, <1>10 DEF MediaTypeOK
<1>12. NothingForgotten' /\ RowHasFile'
  BY <1>1, <1>2, <1>5 DEF NothingForgotten, RowHasFile
<1>13. Arriving'
  BY <1>1, <1>2, <1>5 DEF Arriving
<1>14. Alone' /\ Unstarted'
  BY <1>2, <1>6, <1>8 DEF Alone, Unstarted
<1>15. OnDisk'
  BY <1>2, <1>6 DEF OnDisk
<1>16. ASSUME NEW n \in Items
       PROVE  /\ pending'[n] = NoRow \/ pending'[n].attempts >= 0
              /\ IsFiniteSet(Failing(n)')
              /\ n \notin hist'.overtaken /\ pending'[n] # NoRow => AboutIt(n)' /\ Owned(n)'
  <2>1. IsFiniteSet(Failing(n)') /\ Cardinality(Failing(n)') = 0
    BY <1>7, FS_EmptySet
  <2>2. AboutIt(n)'
    BY <1>2, <1>6 DEF AboutIt
  <2>3. pending'[n] = NoRow \/ pending'[n].attempts >= 0
    BY <1>1, <1>2 DEF Recorded
  <2>4. ASSUME Owned(n) PROVE Owned(n)'
    <3>1. CASE n \in hist.dead \/ hist.failed[n] >= MaxAttempts
      BY <1>5, <3>1 DEF Owned
    <3>2. CASE pending[n].attempts + Cardinality(Failing(n)) <= hist.failed[n]
      <4>1. IsFiniteSet(Failing(n))
        BY <1>1 DEF Recorded
      <4>2. Cardinality(Failing(n)) \in Nat
        BY <4>1, FS_CardinalityType
      <4>3. pending[n].attempts \in Int /\ hist.failed[n] \in Nat
        BY <1>1, MediaNumbers
      <4>4. pending[n].attempts + 0 <= hist.failed[n]
        BY <3>2, <4>2, <4>3
      <4> QED  BY <1>2, <1>5, <1>6, <2>1, <4>4 DEF Owned
    <3> QED  BY <2>4, <3>1, <3>2 DEF Owned
  <2>5. n \notin hist'.overtaken /\ pending'[n] # NoRow => Owned(n)
    BY <1>1, <1>2, <1>5 DEF Recorded
  <2> QED  BY <2>1, <2>2, <2>3, <2>4, <2>5
<1>17. Recorded'
  BY <1>16 DEF Recorded
<1> QED  BY <1>11, <1>12, <1>13, <1>14, <1>15, <1>17 DEF MediaInv

LEMMA MediaStart == Init => MediaInv
<1> SUFFICES ASSUME Init PROVE MediaInv
  OBVIOUS
<1>1. /\ pending = [m \in Items |-> NoRow]
      /\ media = {} /\ files = {} /\ messages = {} /\ claimed = {}
      /\ task = [w \in Workers |-> [m \in Items |-> NoTask]]
      /\ todo = [p \in Popups |-> {}] /\ handler = [item |-> NoItem, step |-> "none"] /\ reset = FALSE
      /\ hist = [failed |-> [m \in Items |-> 0], dead |-> {}, overtaken |-> {}, lost |-> {},
                 wiped |-> {}, captures |-> 0, arrivals |-> 0, faults |-> 0]
  BY DEF Init
<1>2. /\ task \in [Workers -> [Items -> Task]]
      /\ \A w \in Workers, m \in Items : task[w][m].pc = "none"
      /\ \A m \in Items : Failing(m) = {}
  BY <1>1, NobodyAt
<1>3. pending \in [Items -> [attempts : Int, capture : Captures]] /\ \A n \in Items : pending[n] = NoRow
  BY <1>1, NoRowTyped
<1>4. /\ [m \in Items |-> 0] \in [Items -> 0..MaxAttempts] /\ 0 \in Captures /\ 0 \in 0..MaxFaults
  BY MediaNumbers
<1>5. hist \in History
  BY <1>1, <1>4 DEF History
<1>6. handler \in Handlers /\ todo \in [Popups -> SUBSET (Items \X Captures)]
  BY <1>1 DEF Handlers
<1>7. "none" \notin Claiming
  BY DEF Claiming
<1>8. claimed = {m \in Items : \E w \in Workers : task[w][m].pc \in Claiming}
  BY <1>1, <1>2, <1>7
<1>9. reset \in BOOLEAN /\ {media, files, messages, claimed} \subseteq SUBSET Items
  BY <1>1
<1>10. MediaTypeOK
  BY <1>2, <1>3, <1>5, <1>6, <1>8, <1>9 DEF MediaTypeOK
<1>11. NothingForgotten /\ RowHasFile /\ Arriving
  BY <1>1 DEF NothingForgotten, RowHasFile, Arriving
<1>12. Alone /\ Unstarted /\ OnDisk
  BY <1>1, <1>2, <1>7 DEF Alone, Unstarted, OnDisk
<1>13. Recorded
  BY <1>2, <1>3, FS_EmptySet DEF Recorded
<1> QED  BY <1>10, <1>11, <1>12, <1>13 DEF MediaInv

LEMMA MediaStep == MediaInv /\ [Next]_vars => MediaInv'
<1> SUFFICES ASSUME MediaInv, [Next]_vars PROVE MediaInv'
  OBVIOUS
<1>1. CASE UNCHANGED vars
  <2>1. UNCHANGED <<pending, media, files, messages, claimed, task, todo, handler, reset, hist>>
    BY <1>1 DEF vars
  <2>2. /\ MediaTypeOK' /\ NothingForgotten' /\ RowHasFile'
        /\ Arriving' /\ Alone' /\ Unstarted' /\ OnDisk'
    BY <2>1 DEF MediaInv, MediaTypeOK, NothingForgotten, RowHasFile, Arriving, Alone, Unstarted, OnDisk
  <2>3. Recorded'
    BY <2>1, RecordedSame DEF MediaInv
  <2> QED  BY <2>2, <2>3 DEF MediaInv
<1>2. CASE Source
  BY <1>2, LiveBeginKeeps, PersistKeeps, LiveSavedKeeps, LiveFailsKeeps, LiveSaveFailsKeeps, LiveRowKeeps,
     LiveCaptureKeeps DEF Source
<1>3. CASE NextMediaPending
  BY <1>3, NextMediaPendingKeeps
<1>4. ASSUME NEW w \in Workers, Fetch(w) PROVE MediaInv'
  BY <1>4, ClaimNextKeeps, SavedKeeps, AddRowKeeps, ForgetKeeps, RecordFailureKeeps, FailsKeeps DEF Fetch
<1>5. ASSUME NEW p \in Popups, ClaimListed(p) \/ KilledList(p) \/ \E c \in Chats : OpenChat(p, c) PROVE MediaInv'
  BY <1>5, ClaimListedKeeps, KilledListKeeps, OpenChatKeeps
<1>6. CASE ResetBegin \/ ResetEnd \/ Crash
  BY <1>6, ResetBeginKeeps, ResetEndKeeps, CrashKeeps
<1> QED  BY <1>1, <1>2, <1>3, <1>4, <1>5, <1>6 DEF Next

LEMMA MediaInvSafe == MediaInv => MediaSafe
<1> SUFFICES ASSUME MediaInv PROVE MediaSafe
  OBVIOUS
<1>1. ASSUME NEW m \in Items PROVE Cardinality({w \in Workers : task[w][m].pc \in Claiming}) <= 1
  <2> DEFINE S == {w \in Workers : task[w][m].pc \in Claiming}
  <2>1. CASE S = {}
    BY <2>1, FS_EmptySet
  <2>2. CASE S # {}
    <3>1. PICK w \in S : TRUE
      BY <2>2
    <3>2. \A v \in S : v = w
      BY <3>1 DEF MediaInv, Alone
    <3>3. S = {w}
      BY <3>1, <3>2
    <3>4. Cardinality({w}) = 1
      BY FS_Singleton
    <3>5. Cardinality(S) = 1
      BY <3>3, <3>4
    <3> HIDE DEF S
    <3>6. Cardinality(S) <= 1
      BY <3>5
    <3> QED  BY <3>6 DEF S
  <2> QED  BY <2>1, <2>2
<1>2. GivenUpHonestly
  <2>1. ASSUME NEW m \in Items \ hist.overtaken, GivenUp(m)
        PROVE  m \in hist.dead \/ hist.failed[m] >= MaxAttempts
    <3>1. /\ pending \in [Items -> [attempts : Int, capture : Captures]] /\ Recorded
          /\ hist.failed \in [Items -> 0..MaxAttempts]
      BY MediaTyped DEF MediaInv
    <3>2. pending[m].attempts >= MaxAttempts /\ pending[m].attempts \in Int
      BY <2>1, <3>1 DEF GivenUp
    <3>3. pending[m] # NoRow
      BY <3>2, MediaNumbers DEF NoRow
    <3>4. Owned(m) /\ IsFiniteSet(Failing(m))
      BY <3>1, <3>3 DEF Recorded
    <3>5. Cardinality(Failing(m)) \in Nat
      <4>1. IsFiniteSet(Failing(m))
        BY <3>4
      <4> QED  BY <4>1, FS_CardinalityType
    <3>6. PICK k \in Nat : k = Cardinality(Failing(m))
      BY <3>5
    <3>7. hist.failed[m] \in 0..MaxAttempts
      BY <2>1, <3>1
    <3>8. hist.failed[m] \in Nat /\ MaxAttempts \in Nat
      BY <3>7, MediaNumbers
    <3>9. CASE m \in hist.dead \/ hist.failed[m] >= MaxAttempts
      BY <3>9
    <3>10. CASE pending[m].attempts + k <= hist.failed[m]
      BY <3>2, <3>6, <3>8, <3>10
    <3> QED  BY <3>4, <3>6, <3>9, <3>10 DEF Owned
  <2> QED  BY <2>1 DEF GivenUpHonestly
<1> QED  BY <1>1, <1>2 DEF MediaInv, MediaSafe, OneDownloadAtATime

(***************************************************************************)
(* What each promises on its own                                           *)
(***************************************************************************)

(* A stored message's file is there or its reference is; what the table    *)
(* offers is on the disk; nothing is fetched twice at a time; and nothing  *)
(* is given up but for failures of its own.                                *)
THEOREM MediaSafeHolds == Spec => []MediaSafe
<1> QED  BY MediaStart, MediaStep, MediaInvSafe, PTL DEF Spec

(* WhatsApp is asked for photos at a pace, and a photo on show is the one  *)
(* there is, or is due to be looked at again.                              *)
THEOREM AvatarSafeHolds == AvatarSpec => []AvatarSafe
<1>1. AvatarInv => AvatarSafe
  BY DEF AvatarInv
<1>2. AvatarSpec => AvatarInit /\ [][AvatarNext]_avatarVars
  BY PTL DEF AvatarSpec
<1> QED  BY <1>1, <1>2, AvatarStart, AvatarStep, PTL

(* When all that is known is applied, and nothing of it was lost, the      *)
(* roster is the group.                                                    *)
THEOREM RosterSafeHolds == RosterSpec => []RosterSafe
<1>1. RosterSpec => RosterInit /\ [][RosterNext]_rosterVars
  BY PTL DEF RosterSpec
<1> QED  BY <1>1, RosterStart, RosterStep, RosterInvSafe, PTL

(* No message is typed twice into a terminal, and unless a rewiring        *)
(* crossed a call the session kept is the present antenna's own; none      *)
(* costs more than two sessions, which is what bounds those issued.        *)
THEOREM InjectorSafeHolds == InjectorSpec => []InjectorSafe
<1>1. InjectorInv => InjectorSafe
  BY DEF InjectorInv
<1> QED  BY <1>1, InjectorStart, InjectorStep, PTL DEF InjectorSpec

(* No client of the tools is served more than a full bucket and a minute's *)
(* refill in a minute, and a block is served to its end.                   *)
THEOREM GuardSafeHolds == GuardSpec => []GuardSafe
<1>1. GuardSpec => GuardInit /\ [][GuardNext]_guardVars
  BY PTL DEF GuardSpec
<1> QED  BY <1>1, GuardStart, GuardStep, GuardInvSafe, PTL

(***************************************************************************)
(* All of it (MCBackground)                                                *)
(***************************************************************************)

(* A behaviour is one of any of the five, and the other four stand still:  *)
(* each part takes its own steps or none.                                  *)
LEMMA EachTakesItsSteps ==
    [MCNext]_all => /\ [Next]_vars /\ [AvatarNext]_avatarVars /\ [RosterNext]_rosterVars
                    /\ [InjectorNext]_injectorVars /\ [GuardNext]_guardVars
BY DEF MCNext, all, InMedia, InAvatars, InRoster, InInjector, InGuard

BackgroundInv == MediaInv /\ AvatarInv /\ RosterInv /\ InjectorInv /\ GuardInv

LEMMA BackgroundStart == MCInit => BackgroundInv
BY MediaStart, AvatarStart, RosterStart, InjectorStart, GuardStart DEF MCInit, BackgroundInv

LEMMA BackgroundStep == BackgroundInv /\ [MCNext]_all => BackgroundInv'
BY EachTakesItsSteps, MediaStep, AvatarStep, RosterStep, InjectorStep, GuardStep DEF BackgroundInv

LEMMA BackgroundInvSafe == BackgroundInv => BackgroundSafe
BY MediaInvSafe, RosterInvSafe, GuardInvSafe DEF BackgroundInv, BackgroundSafe, AvatarInv, InjectorInv

(* The fairness of the parts is no part of what follows.                   *)
LEMMA MCSpecSteps == MCSpec => MCInit /\ [][MCNext]_all
BY PTL DEF MCSpec

(* All five promises at once, whichever part a behaviour is one of.        *)
THEOREM BackgroundSafeHolds == MCSpec => []BackgroundSafe
<1>1. MCInit => BackgroundInv
  BY BackgroundStart
<1>2. BackgroundInv /\ [MCNext]_all => BackgroundInv'
  BY BackgroundStep
<1>3. BackgroundInv => BackgroundSafe
  BY BackgroundInvSafe
<1> QED  BY <1>1, <1>2, <1>3, MCSpecSteps, PTL

(* A member of the group is struck off the roster only when somebody left  *)
(* meanwhile or a reset emptied it.                                        *)
THEOREM MembersStayHolds == MCSpec => MembersStay
<1> DEFINE Struck(p) == p \notin members \/ p \in log.crossed \/ log'.resets # log.resets
<1>1. MCInit => BackgroundInv
  BY BackgroundStart
<1>2. BackgroundInv /\ [MCNext]_all => BackgroundInv'
  BY BackgroundStep
<1>3. BackgroundInv /\ [MCNext]_all => [\A p \in rows \ rows' : Struck(p)]_rosterVars
  BY EachTakesItsSteps, StaysStep DEF BackgroundInv
<1> QED  BY <1>1, <1>2, <1>3, MCSpecSteps, PTL DEF MembersStay

=============================================================================
