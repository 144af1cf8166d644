----------------------------- MODULE PlayProofs -----------------------------
(***************************************************************************)
(* Proofs about Play, for any requests, any content of a level and any     *)
(* capacities: the kill counter is the number of the dead, a command hits  *)
(* the enemy that was seen, one that fails leaves the game alone, and one  *)
(* that is reported as done has done what it was asked for.                *)
(***************************************************************************)
EXTENDS Play, FiniteSetTheorems, SequenceTheorems, WellFoundedInduction, TLAPS

-----------------------------------------------------------------------------
(* Sequences and numbers.                                                  *)

LEMMA Appended ==
  ASSUME NEW T, NEW s \in Seq(T), NEW x \in T
  PROVE  /\ Append(s, x) \in Seq(T) /\ Len(s) \in Nat /\ Len(Append(s, x)) = Len(s) + 1
         /\ \A i \in 1..Len(s) : Append(s, x)[i] = s[i]
         /\ Append(s, x)[Len(s) + 1] = x
  OBVIOUS

LEMMA Rest ==
  ASSUME NEW T, NEW s \in Seq(T), s # << >>
  PROVE  /\ Tail(s) \in Seq(T) /\ Head(s) = s[1] /\ Head(s) \in T
         /\ Len(s) \in Nat \ {0} /\ Len(Tail(s)) = Len(s) - 1
         /\ \A i \in 1..Len(Tail(s)) : i + 1 \in 1..Len(s) /\ Tail(s)[i] = s[i + 1]
<1>1. Len(s) \in Nat \ {0}
  BY EmptySeq
<1> QED BY <1>1, HeadTailProperties, LenProperties

LEMMA Removed ==
  ASSUME NEW T, NEW s \in Seq(T), NEW i \in 1..Len(s)
  PROVE  /\ RemoveAt(s, i) \in Seq(T) /\ Len(s) \in Nat /\ Len(RemoveAt(s, i)) = Len(s) - 1
         /\ \A k \in 1..(Len(s) - 1) : RemoveAt(s, i)[k] = IF k < i THEN s[k] ELSE s[k + 1]
<1> DEFINE p == SubSeq(s, 1, i - 1)
           q == SubSeq(s, i + 1, Len(s))
<1>1. Len(s) \in Nat /\ i \in Nat /\ 1 <= i /\ i <= Len(s)
  OBVIOUS
<1>2. p \in Seq(T) /\ Len(p) = i - 1 /\ \A k \in 1..(i - 1) : p[k] = s[k]
  BY <1>1, SubSeqProperties
<1>3. q \in Seq(T) /\ Len(q) = Len(s) - i /\ \A k \in 1..(Len(s) - i) : q[k] = s[i + k]
  BY <1>1, SubSeqProperties
<1> HIDE DEF p, q
<1>4. /\ p \o q \in Seq(T) /\ Len(p \o q) = Len(s) - 1
      /\ \A k \in 1..(Len(s) - 1) : (p \o q)[k] = IF k <= Len(p) THEN p[k] ELSE q[k - Len(p)]
  <2>1. /\ p \o q \in Seq(T) /\ Len(p \o q) = Len(p) + Len(q)
        /\ \A k \in 1..Len(p) + Len(q) : (p \o q)[k] = IF k <= Len(p) THEN p[k] ELSE q[k - Len(p)]
    BY <1>2, <1>3, ConcatProperties
  <2>2. Len(p) + Len(q) = Len(s) - 1
    BY <1>1, <1>2, <1>3
  <2> QED BY <2>1, <2>2
<1>5. \A k \in 1..(Len(s) - 1) : (p \o q)[k] = IF k < i THEN s[k] ELSE s[k + 1]
  BY <1>1, <1>2, <1>3, <1>4
<1> QED BY <1>1, <1>4, <1>5 DEF RemoveAt, p, q
-----------------------------------------------------------------------------
(* The dead of a list of things.                                           *)

Numbered(s, next) ==
  \A i \in 1..Len(s) : /\ s[i].uid \in 1..(next - 1)
                       /\ \A j \in 1..Len(s) : s[i].uid = s[j].uid => i = j

DeadPlaces(s) == {i \in 1..Len(s) : s[i].hp <= 0}
DeadOf(s)     == {m \in {s[i] : i \in 1..Len(s)} : m.hp <= 0}

LEMMA DeadCount ==
  ASSUME NEW s, NEW next, Numbered(s, next), Len(s) \in Nat
  PROVE  /\ IsFiniteSet(DeadOf(s)) /\ IsFiniteSet(DeadPlaces(s))
         /\ Cardinality(DeadOf(s)) = Cardinality(DeadPlaces(s))
         /\ Cardinality(DeadOf(s)) \in Nat
<1> DEFINE f == [i \in DeadPlaces(s) |-> s[i]]
<1>1. IsFiniteSet(DeadPlaces(s))
  <2>1. IsFiniteSet(1..Len(s))
    BY FS_Interval
  <2>2. DeadPlaces(s) \in SUBSET (1..Len(s))
    BY DEF DeadPlaces
  <2> QED BY <2>1, <2>2, FS_Subset
<1>2. f \in Bijection(DeadPlaces(s), DeadOf(s))
  <2>1. f \in [DeadPlaces(s) -> DeadOf(s)]
    BY DEF DeadPlaces, DeadOf
  <2>2. \A i, j \in DeadPlaces(s) : f[i] = f[j] => i = j
    BY DEF DeadPlaces, Numbered
  <2>3. \A m \in DeadOf(s) : \E i \in DeadPlaces(s) : f[i] = m
    BY DEF DeadPlaces, DeadOf
  <2> HIDE DEF f
  <2>4. f \in Injection(DeadPlaces(s), DeadOf(s))
    BY <2>1, <2>2 DEF Injection, IsInjective
  <2>5. f \in Surjection(DeadPlaces(s), DeadOf(s))
    BY <2>1, <2>3 DEF Surjection
  <2> QED BY <2>4, <2>5 DEF Bijection
<1>3. ExistsBijection(DeadPlaces(s), DeadOf(s))
  BY <1>2 DEF ExistsBijection
<1> QED BY <1>1, <1>3, FS_Bijection, FS_CardinalityType

(* One thing is hurt. *)
LEMMA HurtCount ==
  ASSUME NEW s, NEW r, NEW next, Numbered(s, next), Numbered(r, next),
         Len(s) \in Nat, Len(r) = Len(s), NEW i \in 1..Len(s), s[i].hp \in Int, s[i].hp > 0,
         r[i].hp \in Int, \A j \in 1..Len(s) : j # i => r[j] = s[j]
  PROVE  Cardinality(DeadOf(r)) = Cardinality(DeadOf(s)) + (IF r[i].hp <= 0 THEN 1 ELSE 0)
<1>1. /\ IsFiniteSet(DeadPlaces(s)) /\ i \notin DeadPlaces(s)
      /\ DeadPlaces(r) = IF r[i].hp <= 0 THEN DeadPlaces(s) \cup {i} ELSE DeadPlaces(s)
  BY DeadCount DEF DeadPlaces
<1>2. Cardinality(DeadPlaces(s) \cup {i}) = Cardinality(DeadPlaces(s)) + 1
  BY <1>1, FS_AddElement
<1>3. /\ Cardinality(DeadOf(s)) = Cardinality(DeadPlaces(s)) /\ Cardinality(DeadOf(s)) \in Nat
      /\ Cardinality(DeadOf(r)) = Cardinality(DeadPlaces(r))
  BY DeadCount
<1> QED BY <1>1, <1>2, <1>3

(* All things are killed. *)
LEMMA KilledCount ==
  ASSUME NEW s, NEW r, NEW next, Numbered(s, next), Numbered(r, next),
         Len(s) \in Nat, Len(r) = Len(s),
         \A i \in 1..Len(s) : s[i].hp \in Int /\ r[i].hp <= 0
  PROVE  /\ Cardinality({i \in 1..Len(s) : s[i].hp > 0}) \in Nat
         /\ Cardinality(DeadOf(r)) =
              Cardinality(DeadOf(s)) + Cardinality({i \in 1..Len(s) : s[i].hp > 0})
<1> DEFINE alive == {i \in 1..Len(s) : s[i].hp > 0}
<1>1. /\ DeadPlaces(r) = DeadPlaces(s) \cup alive
      /\ DeadPlaces(s) \cap alive = {}
  BY DEF DeadPlaces
<1>2. IsFiniteSet(alive) /\ IsFiniteSet(DeadPlaces(s)) /\ Cardinality(alive) \in Nat
  <2>1. IsFiniteSet(1..Len(s)) /\ alive \in SUBSET (1..Len(s))
    BY FS_Interval
  <2> HIDE DEF alive
  <2>2. IsFiniteSet(alive)
    BY <2>1, FS_Subset
  <2> QED BY <2>2, FS_CardinalityType, DeadCount
<1> HIDE DEF alive
<1>3. Cardinality(DeadPlaces(r)) = Cardinality(DeadPlaces(s)) + Cardinality(alive) - 0
  BY <1>1, <1>2, FS_Union, FS_EmptySet
<1>4. /\ Cardinality(DeadOf(s)) = Cardinality(DeadPlaces(s)) /\ Cardinality(DeadOf(s)) \in Nat
      /\ Cardinality(DeadOf(r)) = Cardinality(DeadPlaces(r))
  BY DeadCount
<1>5. Cardinality(DeadOf(r)) = Cardinality(DeadOf(s)) + Cardinality(alive)
  BY <1>2, <1>3, <1>4
<1> QED BY <1>2, <1>5 DEF alive

(* A dead thing is taken out. *)
LEMMA RemovedCount ==
  ASSUME NEW T, NEW s \in Seq(T), NEW next, Numbered(s, next),
         NEW i \in 1..Len(s), s[i].hp <= 0
  PROVE  /\ Numbered(RemoveAt(s, i), next)
         /\ Cardinality(DeadOf(RemoveAt(s, i))) = Cardinality(DeadOf(s)) - 1
<1> DEFINE r == RemoveAt(s, i)
<1>1. /\ Len(s) \in Nat /\ Len(r) = Len(s) - 1
      /\ \A k \in 1..(Len(s) - 1) : r[k] = IF k < i THEN s[k] ELSE s[k + 1]
  BY Removed
<1> HIDE DEF r
<1>2. \A k \in 1..Len(r) : \E j \in 1..Len(s) \ {i} : j = (IF k < i THEN k ELSE k + 1) /\ r[k] = s[j]
  BY <1>1
<1>3. \A j \in 1..Len(s) \ {i} : \E k \in 1..Len(r) : r[k] = s[j]
  <2> SUFFICES ASSUME NEW j \in 1..Len(s) \ {i} PROVE \E k \in 1..Len(r) : r[k] = s[j]
    OBVIOUS
  <2>1. CASE j < i
    BY <1>1, <2>1
  <2>2. CASE j > i
    <3>1. j - 1 \in 1..Len(r) /\ ~(j - 1 < i) /\ (j - 1) + 1 = j
      BY <1>1, <2>2
    <3> QED BY <1>1, <3>1
  <2> QED BY <1>1, <2>1, <2>2
<1>4. Numbered(r, next)
  <2> SUFFICES ASSUME NEW k \in 1..Len(r)
               PROVE  /\ r[k].uid \in 1..(next - 1)
                      /\ \A l \in 1..Len(r) : r[k].uid = r[l].uid => k = l
    BY DEF Numbered
  <2>1. PICK j \in 1..Len(s) \ {i} : j = (IF k < i THEN k ELSE k + 1) /\ r[k] = s[j]
    BY <1>2
  <2>2. r[k].uid \in 1..(next - 1)
    BY <2>1 DEF Numbered
  <2>3. ASSUME NEW l \in 1..Len(r), r[k].uid = r[l].uid PROVE k = l
    <3>1. PICK h \in 1..Len(s) \ {i} : h = (IF l < i THEN l ELSE l + 1) /\ r[l] = s[h]
      BY <1>2
    <3>2. j = h
      BY <2>1, <2>3, <3>1 DEF Numbered
    <3> QED BY <1>1, <2>1, <3>1, <3>2
  <2> QED BY <2>2, <2>3
<1>5. DeadOf(r) = DeadOf(s) \ {s[i]}
  <2>1. \A j \in 1..Len(s) : s[j] = s[i] => j = i
    BY DEF Numbered
  <2>2. \A m \in DeadOf(r) : m \in DeadOf(s) /\ m # s[i]
    <3> SUFFICES ASSUME NEW m \in DeadOf(r) PROVE m \in DeadOf(s) /\ m # s[i]
      OBVIOUS
    <3>1. PICK k \in 1..Len(r) : m = r[k] /\ m.hp <= 0
      BY DEF DeadOf
    <3>2. PICK j \in 1..Len(s) \ {i} : r[k] = s[j]
      BY <1>2
    <3> QED BY <2>1, <3>1, <3>2 DEF DeadOf
  <2>3. \A m \in DeadOf(s) : m # s[i] => m \in DeadOf(r)
    BY <1>3 DEF DeadOf
  <2> QED BY <2>2, <2>3
<1>6. s[i] \in DeadOf(s) /\ IsFiniteSet(DeadOf(s))
  BY <1>1, DeadCount DEF DeadOf
<1>7. Cardinality(DeadOf(r)) = Cardinality(DeadOf(s)) - 1
  BY <1>5, <1>6, FS_RemoveElement
<1> QED BY <1>4, <1>7 DEF r

(* One that is alive is added. *)
LEMMA AddedCount ==
  ASSUME NEW T, NEW s \in Seq(T), NEW next \in Nat, Numbered(s, next),
         NEW m \in T, m.uid = next, next > 0, m.hp \in Int, m.hp > 0
  PROVE  /\ Numbered(Append(s, m), next + 1)
         /\ DeadOf(Append(s, m)) = DeadOf(s)
<1> DEFINE r == Append(s, m)
<1>1. /\ Len(s) \in Nat /\ Len(r) = Len(s) + 1 /\ r[Len(s) + 1] = m
      /\ \A i \in 1..Len(s) : r[i] = s[i]
  BY Appended
<1> HIDE DEF r
<1>2. \A i \in 1..Len(r) : i \in 1..Len(s) \/ i = Len(s) + 1
  BY <1>1
<1>3. \A i \in 1..Len(s) : s[i].uid \in 1..(next - 1) /\ s[i].uid # next
  BY DEF Numbered
<1>4. Numbered(r, next + 1)
  <2> SUFFICES ASSUME NEW i \in 1..Len(r)
               PROVE  /\ r[i].uid \in 1..((next + 1) - 1)
                      /\ \A j \in 1..Len(r) : r[i].uid = r[j].uid => i = j
    BY DEF Numbered
  <2>1. CASE i \in 1..Len(s)
    <3>1. r[i].uid \in 1..((next + 1) - 1)
      BY <1>1, <1>3, <2>1
    <3>2. \A j \in 1..Len(r) : r[i].uid = r[j].uid => i = j
      BY <1>1, <1>2, <1>3, <2>1 DEF Numbered
    <3> QED BY <3>1, <3>2
  <2>2. CASE i = Len(s) + 1
    <3>1. r[i].uid = next
      BY <1>1, <2>2
    <3>2. r[i].uid \in 1..((next + 1) - 1)
      BY <3>1
    <3>3. \A j \in 1..Len(s) : r[j].uid # next
      BY <1>1, <1>3
    <3> QED BY <1>2, <2>2, <3>1, <3>2, <3>3
  <2> QED BY <1>2, <2>1, <2>2
<1>5. DeadOf(r) = DeadOf(s)
  <2>1. {r[i] : i \in 1..Len(r)} = {s[i] : i \in 1..Len(s)} \cup {m}
    BY <1>1, <1>2
  <2>2. ~(m.hp <= 0)
    OBVIOUS
  <2> QED BY <2>1, <2>2 DEF DeadOf
<1> QED BY <1>4, <1>5 DEF r

-----------------------------------------------------------------------------
(* The game of Crispy Doom.                                                *)

Names == AllEnemies \cup AllItems \cup AllWeapons
Types == Names \cup {LevelThings[i] : i \in 1..Len(LevelThings)}

(* Nobody has more hit points than to begin with. *)
Points == {n \in Int : n <= SpawnHealth}

Thing == [uid : Nat, type : Types, hp : Points]
Kinds == {"clip", "shell", "misl", "cell"}

PlayerFields(p) ==
  p = [f \in {"hp", "armor", "ammo", "maxammo", "owned", "cheats", "pending", "x", "y", "angle"} |->
         p[f]]

CrispyPlayer(p) ==
  /\ PlayerFields(p)
  /\ p.hp \in 0..MaxHealth /\ p.armor \in 0..200
  /\ p.ammo \in [Kinds -> Nat] /\ p.maxammo \in [Kinds -> Nat]
  /\ \A k \in Kinds : p.ammo[k] <= p.maxammo[k]
  /\ p.maxammo["clip"] = (IF "Backpack" \in p.owned THEN 400 ELSE 200)

CrispyFields(w) ==
  w = [f \in {"mobjs", "nextUid", "mode", "inLevel", "inGame", "deferred", "paused", "kills",
              "skill", "ticcmd", "player"} |-> w[f]]

CrispyGame(w) ==
  /\ CrispyFields(w)
  /\ w.mobjs \in Seq(Thing) /\ w.nextUid \in Nat \ {0} /\ Numbered(w.mobjs, w.nextUid)
  /\ w.kills \in Nat /\ w.paused \in BOOLEAN
  /\ CrispyPlayer(w.player)

(* A list only grows at its end, and its things keep what they are. *)
Continues(s, r) ==
  /\ Len(s) <= Len(r)
  /\ \A i \in 1..Len(s) : r[i] = [s[i] EXCEPT !.hp = r[i].hp]

(* What every command and every input does: who dies is counted. *)
CrispyAfter(w, v) ==
  /\ CrispyGame(v)
  /\ Continues(w.mobjs, v.mobjs) /\ w.nextUid <= v.nextUid
  /\ v.kills + Cardinality(DeadOf(w.mobjs)) = w.kills + Cardinality(DeadOf(v.mobjs))

(* The elements of a list are records with hit points. *)
Breathing(T) == \A m \in T : m = [m EXCEPT !.hp = m.hp]

LEMMA ThingsStay ==
  ASSUME NEW T, Breathing(T), NEW s \in Seq(T) PROVE Continues(s, s)
<1>1. Len(s) \in Nat /\ \A i \in 1..Len(s) : s[i] \in T
  OBVIOUS
<1> QED BY <1>1 DEF Continues, Breathing

LEMMA OneMore ==
  ASSUME NEW T, Breathing(T), NEW s \in Seq(T), NEW m \in T
  PROVE  Continues(s, Append(s, m))
<1>1. Len(s) \in Nat /\ \A i \in 1..Len(s) : s[i] \in T
  OBVIOUS
<1>2. /\ Len(Append(s, m)) = Len(s) + 1
      /\ \A i \in 1..Len(s) : Append(s, m)[i] = s[i]
  BY Appended
<1> QED BY <1>1, <1>2 DEF Continues, Breathing

LEMMA ThingsBreathe == Breathing(Thing)
  BY DEF Breathing, Thing, Points

LEMMA CrispyUntouched ==
  ASSUME NEW w, NEW v, CrispyGame(w), CrispyFields(v),
         v.mobjs = w.mobjs, v.nextUid = w.nextUid, v.kills = w.kills,
         v.paused \in BOOLEAN, CrispyPlayer(v.player)
  PROVE  CrispyAfter(w, v)
<1>1. CrispyGame(v)
  BY DEF CrispyGame
<1>2. Continues(w.mobjs, v.mobjs)
  BY ThingsStay, ThingsBreathe DEF CrispyGame
<1>3. Cardinality(DeadOf(w.mobjs)) \in Nat
  BY DeadCount DEF CrispyGame
<1> QED BY <1>1, <1>2, <1>3 DEF CrispyAfter, CrispyGame

(* P_DamageMobj counts a death once. *)
LEMMA CrispyHurts ==
  ASSUME NEW w, CrispyGame(w), NEW uid \in Nat, NEW damage \in Nat
  PROVE  CrispyAfter(w, DamageMobj(w, uid, damage))
<1> DEFINE v == DamageMobj(w, uid, damage)
           s == w.mobjs
           r == [i \in 1..Len(s) |-> IF s[i].uid # uid \/ s[i].hp <= 0 THEN s[i]
                                     ELSE [s[i] EXCEPT !.hp = s[i].hp - damage]]
           deaths == {i \in 1..Len(r) : s[i].hp > 0 /\ r[i].hp <= 0}
<1>1. /\ s \in Seq(Thing) /\ Len(s) \in Nat /\ Numbered(s, w.nextUid) /\ w.kills \in Nat
      /\ \A i \in 1..Len(s) : s[i] \in Thing
  BY DEF CrispyGame
<1>2. v = [w EXCEPT !.mobjs = r, !.kills = w.kills + (IF deaths = {} THEN 0 ELSE 1)]
  BY DEF DamageMobj
<1>3. /\ CrispyFields(v)
      /\ v.mobjs = r /\ v.kills = w.kills + (IF deaths = {} THEN 0 ELSE 1)
      /\ v.nextUid = w.nextUid /\ v.paused = w.paused /\ v.player = w.player
  BY <1>2 DEF CrispyGame, CrispyFields
<1>4. /\ Len(r) = Len(s) /\ r \in [1..Len(s) -> Thing]
      /\ \A i \in 1..Len(s) : r[i] = [s[i] EXCEPT !.hp = r[i].hp] /\ r[i].uid = s[i].uid
  <2>1. \A m \in Thing : /\ m = [m EXCEPT !.hp = m.hp] /\ [m EXCEPT !.hp = m.hp - damage] \in Thing
                         /\ [m EXCEPT !.hp = m.hp - damage].hp = m.hp - damage
                         /\ [m EXCEPT !.hp = m.hp - damage].uid = m.uid
    <3>1. \A n \in Points : n - damage \in Points
      BY PlayAssumption DEF Points
    <3> QED BY <3>1 DEF Thing
  <2>2. \A i \in 1..Len(s) : /\ r[i] = [s[i] EXCEPT !.hp = r[i].hp] /\ r[i].uid = s[i].uid
                             /\ r[i] \in Thing
    BY <1>1, <2>1
  <2>3. DOMAIN r = 1..Len(s) /\ Len(r) = Len(s)
    BY <1>1
  <2> QED BY <2>2, <2>3
<1>5. \A i \in 1..Len(s) : r[i] # s[i] => s[i].uid = uid /\ s[i].hp > 0
  BY <1>1 DEF Thing, Points
<1> HIDE DEF v, r
<1>6. r \in Seq(Thing)
  BY <1>1, <1>4
<1>7. Numbered(r, w.nextUid)
  BY <1>1, <1>4 DEF Numbered
<1>8. Cardinality(DeadOf(s)) \in Nat
  BY <1>1, DeadCount
<1>9. Cardinality(DeadOf(r)) = Cardinality(DeadOf(s)) + (IF deaths = {} THEN 0 ELSE 1)
  <2>1. CASE deaths = {}
    <3>1. DeadPlaces(r) = DeadPlaces(s)
      <4>1. \A i \in 1..Len(s) : s[i].hp \in Int /\ ~(s[i].hp > 0 /\ r[i].hp <= 0)
        BY <1>1, <1>4, <2>1 DEF Thing, Points
      <4>2. \A i \in 1..Len(s) : s[i].hp <= 0 <=> r[i].hp <= 0
        BY <1>5, <4>1
      <4> QED BY <1>4, <4>2 DEF DeadPlaces
    <3> QED BY <1>1, <1>4, <1>7, <1>8, <2>1, <3>1, DeadCount
  <2>2. CASE deaths # {}
    <3>1. PICK i \in 1..Len(s) : s[i].hp > 0 /\ r[i].hp <= 0
      BY <1>4, <2>2
    <3>2. s[i].hp \in Int /\ r[i].hp \in Int /\ r[i] # s[i]
      <4>1. s[i] \in Thing /\ r[i] \in Thing
        BY <1>1, <1>4
      <4>2. s[i].hp \in Int /\ r[i].hp \in Int
        BY <4>1 DEF Thing, Points
      <4> QED BY <3>1, <4>2
    <3>3. \A j \in 1..Len(s) : j # i => r[j] = s[j]
      BY <1>1, <1>5, <3>2 DEF Numbered
    <3> QED BY <1>1, <1>4, <1>7, <2>2, <3>1, <3>2, <3>3, HurtCount
  <2> QED BY <2>1, <2>2
<1> HIDE DEF deaths
<1>10. CrispyGame(v)
  BY <1>1, <1>3, <1>6, <1>7 DEF CrispyGame
<1>11. Continues(s, r)
  BY <1>1, <1>4 DEF Continues
<1>12. CrispyAfter(w, v)
  <2>0. w.nextUid \in Nat
    BY DEF CrispyGame
  <2>1. w.nextUid <= v.nextUid /\ Continues(w.mobjs, v.mobjs)
    BY <1>3, <1>11, <2>0
  <2>2. v.kills + Cardinality(DeadOf(w.mobjs)) = w.kills + Cardinality(DeadOf(v.mobjs))
    <3>1. v.mobjs = r /\ v.kills = w.kills + (IF deaths = {} THEN 0 ELSE 1)
      BY <1>3
    <3>2. w.kills \in Nat
      BY <1>1
    <3> HIDE DEF s
    <3>3. (w.kills + (IF deaths = {} THEN 0 ELSE 1)) + Cardinality(DeadOf(s))
            = w.kills + Cardinality(DeadOf(r))
      BY <1>8, <1>9, <3>2
    <3> QED BY <3>1, <3>3 DEF s
  <2> QED BY <1>3, <1>10, <2>1, <2>2 DEF CrispyAfter
<1> QED BY <1>12 DEF v

(* What the parser made of a call. *)
CommandOK(c) ==
  /\ c.type \in CommandTypes
  /\ c.type = "spawn_entity" => c.entity_class \in Names /\ c.tid \in Nat
  /\ c.type = "set_player_health" => c.health \in Int
  /\ c.type = "give_item" => c.item_class \in Names /\ c.amount \in Nat \ {0}
  /\ c.type = "pause_game" => c.paused \in BOOLEAN
  /\ c.type = "damage_entity" => c.damage \in Nat \ {0}

LEMMA Gifts ==
  ASSUME NEW item \in DOMAIN AmmoGiven
  PROVE  AmmoGiven[item][1] \in Kinds /\ AmmoGiven[item][2] \in Nat
  BY DEF AmmoGiven, Kinds

LEMMA GivenPlayer ==
  ASSUME NEW q, CrispyPlayer(q), NEW item, NEW amount \in Int
  PROVE  CrispyPlayer(Given(q, item, amount))
<1>a. /\ DOMAIN AmmoGiven = {"Clip", "BoxOfBullets", "Shells", "BoxOfShells", "RocketAmmo",
                             "BoxOfRockets", "Cell", "CellPack"}
      /\ DOMAIN HealthGiven = {"Stimpack", "Medikit", "SoulSphere"}
  BY DEF AmmoGiven, HealthGiven
<1>b. MaxHealth \in Nat \ {0} /\ q.hp \in Int
  BY WidthsAssumption DEF CrispyPlayer
<1>1. CASE item \in DOMAIN AmmoGiven
  <2> DEFINE k == AmmoGiven[item][1]
             n == AmmoGiven[item][2]
             left == Clamp(q.ammo[k] + n * amount, 0, q.maxammo[k])
             p == [q EXCEPT !.ammo[k] = left]
  <2>1. Given(q, item, amount) = p
    BY <1>1, <1>a DEF Given
  <2>2. k \in Kinds /\ n \in Nat
    BY <1>1, Gifts
  <2> HIDE DEF k, n
  <2>3. n * amount \in Int
    BY <2>2
  <2>4. left \in 0..q.maxammo[k] /\ q.maxammo[k] \in Nat
    <3>1. q.ammo[k] \in Nat /\ q.maxammo[k] \in Nat
      BY <2>2 DEF CrispyPlayer
    <3> DEFINE sum == q.ammo[k] + n * amount
    <3>2. sum \in Int
      BY <2>3, <3>1
    <3> HIDE DEF sum
    <3>3. Clamp(sum, 0, q.maxammo[k]) \in 0..q.maxammo[k]
      BY <3>1, <3>2 DEF Clamp
    <3> QED BY <3>1, <3>3 DEF sum
  <2> HIDE DEF left
  <2>5. /\ PlayerFields(p) /\ p.hp = q.hp /\ p.armor = q.armor
        /\ p.ammo = [q.ammo EXCEPT ![k] = left] /\ p.maxammo = q.maxammo /\ p.owned = q.owned
    BY DEF CrispyPlayer, PlayerFields
  <2> HIDE DEF p
  <2>6. CrispyPlayer(p)
    BY <2>2, <2>4, <2>5 DEF CrispyPlayer
  <2> QED BY <2>1, <2>6
<1>2. CASE item \notin DOMAIN AmmoGiven /\ item \in DOMAIN HealthGiven
  <2> DEFINE hp == Clamp(q.hp + HealthGiven[item] * amount, 1, MaxHealth)
  <2>1. Given(q, item, amount) = [q EXCEPT !.hp = hp]
    BY <1>2, <1>a DEF Given
  <2>2. HealthGiven[item] \in Int
    BY <1>2 DEF HealthGiven
  <2>3. hp \in 1..MaxHealth
    <3> DEFINE sum == q.hp + HealthGiven[item] * amount
    <3>1. sum \in Int
      BY <1>b, <2>2
    <3> HIDE DEF sum
    <3>2. Clamp(sum, 1, MaxHealth) \in 1..MaxHealth
      BY <1>b, <3>1 DEF Clamp
    <3> QED BY <3>2 DEF sum
  <2> HIDE DEF hp
  <2> DEFINE p == [q EXCEPT !.hp = hp]
  <2>4. /\ PlayerFields(p) /\ p.hp = hp /\ p.armor = q.armor
        /\ p.ammo = q.ammo /\ p.maxammo = q.maxammo /\ p.owned = q.owned
    BY DEF CrispyPlayer, PlayerFields
  <2> HIDE DEF p
  <2>5. CrispyPlayer(p)
    BY <1>b, <2>3, <2>4 DEF CrispyPlayer
  <2> QED BY <2>1, <2>5 DEF p
<1>3. CASE item \notin DOMAIN AmmoGiven /\ item \notin DOMAIN HealthGiven
  <2>1. CASE item = "MegaSphere"
    <3> DEFINE p == [q EXCEPT !.hp = MaxHealth, !.armor = 200]
    <3>1. Given(q, item, amount) = p
      BY <1>3, <2>1 DEF Given
    <3>2. /\ PlayerFields(p) /\ p.hp = MaxHealth /\ p.armor = 200
          /\ p.ammo = q.ammo /\ p.maxammo = q.maxammo /\ p.owned = q.owned
      BY DEF CrispyPlayer, PlayerFields
    <3> HIDE DEF p
    <3> QED BY <1>b, <3>1, <3>2 DEF CrispyPlayer
  <2>2. CASE item \in {"GreenArmor", "BlueArmor", "MegaArmor"}
    <3> DEFINE p(armor) == [q EXCEPT !.armor = armor]
    <3>1. PICK armor \in {100, 200} : Given(q, item, amount) = p(armor)
      BY <1>3, <2>2 DEF Given
    <3>2. /\ PlayerFields(p(armor)) /\ p(armor).hp = q.hp /\ p(armor).armor = armor
          /\ p(armor).ammo = q.ammo /\ p(armor).maxammo = q.maxammo /\ p(armor).owned = q.owned
      BY DEF CrispyPlayer, PlayerFields
    <3> HIDE DEF p
    <3> QED BY <1>b, <3>1, <3>2 DEF CrispyPlayer
  <2>3. CASE item = "Backpack"
    <3> DEFINE p == [q EXCEPT !.maxammo = [k \in DOMAIN @ |-> 2 * @[k]], !.owned = @ \cup {item}]
    <3>1. \/ Given(q, item, amount) = q
          \/ "Backpack" \notin q.owned /\ Given(q, item, amount) = p
      BY <1>3, <2>3 DEF Given
    <3> DEFINE more == [k \in Kinds |-> 2 * q.maxammo[k]]
    <3>2. DOMAIN q.maxammo = Kinds
      BY DEF CrispyPlayer
    <3>3. more \in [Kinds -> Nat] /\ \A k \in Kinds : q.ammo[k] <= more[k]
      BY DEF CrispyPlayer
    <3>7. "Backpack" \notin q.owned => more["clip"] = 400
      BY DEF CrispyPlayer, Kinds
    <3>4. p = [q EXCEPT !.maxammo = more, !.owned = @ \cup {item}]
      BY <3>2
    <3> HIDE DEF more, p
    <3>5. /\ PlayerFields(p) /\ p.hp = q.hp /\ p.armor = q.armor
          /\ p.ammo = q.ammo /\ p.maxammo = more /\ "Backpack" \in p.owned
      BY <2>3, <3>4 DEF CrispyPlayer, PlayerFields
    <3>6. "Backpack" \notin q.owned => CrispyPlayer(p)
      BY <3>3, <3>5, <3>7 DEF CrispyPlayer
    <3> QED BY <3>1, <3>6
  <2>4. CASE item \notin {"MegaSphere", "GreenArmor", "BlueArmor", "MegaArmor", "Backpack"}
    <3> DEFINE p == [q EXCEPT !.owned = q.owned \cup {item}]
    <3>1. Given(q, item, amount) = p
      BY <1>3, <2>4 DEF Given
    <3>2. /\ PlayerFields(p) /\ p.hp = q.hp /\ p.armor = q.armor
          /\ p.ammo = q.ammo /\ p.maxammo = q.maxammo
          /\ p.owned = q.owned \cup {item}
      BY DEF CrispyPlayer, PlayerFields
    <3>3. "Backpack" \in p.owned <=> "Backpack" \in q.owned
      BY <2>4, <3>2
    <3> HIDE DEF p
    <3>4. CrispyPlayer(p)
      BY <3>2, <3>3 DEF CrispyPlayer
    <3> QED BY <3>1, <3>4
  <2> QED BY <2>1, <2>2, <2>3, <2>4
<1> QED BY <1>1, <1>2, <1>3

LEMMA PowerPlayer ==
  ASSUME NEW q, CrispyPlayer(q), NEW item
  PROVE  CrispyPlayer(GivenPower(q, item))
<1> DEFINE g == Given(q, item, 1)
           p == [g EXCEPT !.hp = IF @ < 100 THEN 100 ELSE @, !.pending = "Fist"]
<1>1. CrispyPlayer(g)
  BY GivenPlayer
<1> HIDE DEF g
<1>2. PlayerFields(p) /\ p.hp = (IF g.hp < 100 THEN 100 ELSE g.hp) /\ p.armor = g.armor
      /\ p.ammo = g.ammo /\ p.maxammo = g.maxammo /\ p.owned = g.owned
  BY <1>1 DEF CrispyPlayer, PlayerFields
<1>3. 100 <= MaxHealth /\ MaxHealth \in Nat
  BY PlayAssumption, WidthsAssumption
<1> HIDE DEF p
<1>4. CrispyPlayer(p)
  BY <1>1, <1>2, <1>3 DEF CrispyPlayer
<1> QED BY <1>1, <1>4 DEF GivenPower, g, p

-----------------------------------------------------------------------------
(* What a command can lead to in Crispy Doom: a failure leaves the game    *)
(* alone, but for the uid of a thing that was in it for a moment.          *)

CrispyOutcome(w, o) ==
  /\ o.ok \in BOOLEAN /\ o.hit \in 0..w.nextUid
  /\ CrispyAfter(w, o.world)
  /\ ~o.ok => o.world = [w EXCEPT !.nextUid = o.world.nextUid]

LEMMA CrispyFails ==
  ASSUME NEW w, CrispyGame(w), NEW o \in Failed(w)
  PROVE  CrispyOutcome(w, o)
<1>1. o = [ok |-> FALSE, hit |-> 0, world |-> w]
  BY DEF Failed
<1>2. CrispyAfter(w, w) /\ w.nextUid \in Nat
  BY CrispyUntouched DEF CrispyGame
<1>3. w = [w EXCEPT !.nextUid = w.nextUid]
  BY DEF CrispyGame, CrispyFields
<1> QED BY <1>1, <1>2, <1>3 DEF CrispyOutcome

LEMMA CrispyDoes ==
  ASSUME NEW w, CrispyGame(w), NEW v, CrispyAfter(w, v), NEW o \in Done(v)
  PROVE  CrispyOutcome(w, o)
<1>1. o = [ok |-> TRUE, hit |-> 0, world |-> v] /\ w.nextUid \in Nat
  BY DEF Done, CrispyGame
<1> QED BY <1>1 DEF CrispyOutcome

LEMMA CrispySpawns ==
  ASSUME NEW w, CrispyGame(w), NEW type \in Types
  PROVE  CrispyAfter(w, SpawnMobj(w, type))
<1> DEFINE m == Mobj(w.nextUid, type)
           mobjs == Append(w.mobjs, m)
           v == [w EXCEPT !.mobjs = mobjs, !.nextUid = w.nextUid + 1]
<1>1. /\ m \in Thing /\ m.uid = w.nextUid /\ m.hp \in Int /\ m.hp > 0
      /\ w.mobjs \in Seq(Thing) /\ w.nextUid \in Nat /\ w.nextUid > 0
      /\ Numbered(w.mobjs, w.nextUid)
  BY PlayAssumption DEF Mobj, Thing, Points, CrispyGame
<1>2. /\ CrispyFields(v) /\ v.mobjs = mobjs /\ v.nextUid = w.nextUid + 1
      /\ v.kills = w.kills /\ v.paused = w.paused /\ v.player = w.player
  BY DEF CrispyGame, CrispyFields
<1> HIDE DEF m
<1>3. mobjs \in Seq(Thing)
  BY <1>1
<1>4. Numbered(mobjs, w.nextUid + 1) /\ DeadOf(mobjs) = DeadOf(w.mobjs)
  BY <1>1, AddedCount
<1>5. Continues(w.mobjs, mobjs)
  BY <1>1, OneMore, ThingsBreathe
<1>6. Cardinality(DeadOf(w.mobjs)) \in Nat
  BY <1>1, DeadCount
<1> HIDE DEF mobjs, v
<1>7. CrispyGame(v)
  BY <1>1, <1>2, <1>3, <1>4 DEF CrispyGame
<1>8. CrispyAfter(w, v)
  BY <1>1, <1>2, <1>4, <1>5, <1>6, <1>7 DEF CrispyAfter, CrispyGame
<1> QED BY <1>8 DEF v, mobjs, m, SpawnMobj

(* A thing that is blocked: what was linked at the end of the list is taken out of it. *)
LEMMA TakenOut ==
  ASSUME NEW T, NEW s \in Seq(T), NEW x \in T
  PROVE  RemoveAt(Append(s, x), Len(Append(s, x))) = s
<1> DEFINE r == Append(s, x)
           n == Len(s) + 1
<1>1. /\ r \in Seq(T) /\ Len(s) \in Nat /\ Len(r) = n /\ n \in 1..Len(r)
      /\ \A i \in 1..Len(s) : r[i] = s[i]
  BY Appended
<1> HIDE DEF r
<1> DEFINE q == RemoveAt(r, n)
<1>2. /\ q \in Seq(T) /\ Len(q) = Len(r) - 1
      /\ \A k \in 1..(Len(r) - 1) : q[k] = IF k < n THEN r[k] ELSE r[k + 1]
  BY <1>1, Removed
<1> HIDE DEF q
<1>3. Len(q) = Len(s) /\ \A k \in 1..Len(s) : q[k] = s[k]
  BY <1>1, <1>2
<1>4. q = s
  BY <1>2, <1>3, SeqEqual
<1> QED BY <1>1, <1>4 DEF r, q

LEMMA CrispySpawnsBlocked ==
  ASSUME NEW w, CrispyGame(w), NEW type \in Types, NEW spawned, spawned = SpawnMobj(w, type),
         NEW o \in Failed(RemoveMobj(spawned, Len(spawned.mobjs)))
  PROVE  CrispyOutcome(w, o)
<1> DEFINE m == Mobj(w.nextUid, type)
           v == RemoveMobj(spawned, Len(spawned.mobjs))
<1>1. m \in Thing /\ w.mobjs \in Seq(Thing) /\ w.nextUid \in Nat
  BY PlayAssumption DEF Mobj, Thing, Points, CrispyGame
<1> HIDE DEF m
<1>2. /\ spawned = [w EXCEPT !.mobjs = Append(w.mobjs, m), !.nextUid = w.nextUid + 1]
      /\ spawned.mobjs = Append(w.mobjs, m)
  BY DEF SpawnMobj, CrispyGame, CrispyFields, m
<1>3. v = [spawned EXCEPT !.mobjs = RemoveAt(Append(w.mobjs, m), Len(Append(w.mobjs, m)))]
  BY <1>2 DEF RemoveMobj
<1>4. v = [spawned EXCEPT !.mobjs = w.mobjs]
  BY <1>1, <1>3, TakenOut
<1> HIDE DEF v
<1>5. /\ CrispyFields(v) /\ v.mobjs = w.mobjs /\ v.nextUid = w.nextUid + 1
      /\ v.kills = w.kills /\ v.paused = w.paused /\ v.player = w.player
      /\ v = [w EXCEPT !.nextUid = v.nextUid]
  BY <1>2, <1>4 DEF CrispyGame, CrispyFields
<1>6. CrispyAfter(w, v)
  <2>1. v.nextUid \in Nat \ {0} /\ w.nextUid <= v.nextUid
    BY <1>1, <1>5
  <2>2. Numbered(v.mobjs, v.nextUid)
    BY <1>1, <1>5 DEF CrispyGame, Numbered
  <2>3. CrispyGame(v)
    BY <1>5, <2>1, <2>2 DEF CrispyGame
  <2>4. Continues(w.mobjs, v.mobjs)
    BY <1>1, <1>5, ThingsStay, ThingsBreathe
  <2>5. v.kills + Cardinality(DeadOf(w.mobjs)) = w.kills + Cardinality(DeadOf(v.mobjs))
    BY <1>5
  <2> QED BY <2>1, <2>3, <2>4, <2>5 DEF CrispyAfter
<1>7. o = [ok |-> FALSE, hit |-> 0, world |-> v]
  BY DEF Failed, v
<1> QED BY <1>1, <1>5, <1>6, <1>7 DEF CrispyOutcome

LEMMA CrispyStrikes ==
  ASSUME NEW w, CrispyGame(w), NEW target \in SUBSET {w.mobjs[i] : i \in Counted(w)},
         NEW damage \in Nat, NEW o \in Struck(w, target, damage)
  PROVE  CrispyOutcome(w, o)
<1>1. PICK i \in 1..Len(w.mobjs) :
        o = [ok |-> TRUE, hit |-> w.mobjs[i].uid,
             world |-> DamageMobj(w, w.mobjs[i].uid, damage)]
  BY DEF Struck, Counted
<1>2. w.mobjs[i].uid \in 1..(w.nextUid - 1) /\ w.nextUid \in Nat
  BY DEF CrispyGame, Numbered
<1>3. CrispyAfter(w, o.world)
  BY <1>1, <1>2, CrispyHurts
<1> QED BY <1>1, <1>2, <1>3 DEF CrispyOutcome

(* Only the player, the pause, or what the engine reads later is changed. *)
LEMMA CrispySteers ==
  ASSUME NEW w, CrispyGame(w), NEW v, CrispyFields(v),
         v.mobjs = w.mobjs, v.nextUid = w.nextUid, v.kills = w.kills,
         v.paused \in BOOLEAN, CrispyPlayer(v.player), NEW o \in Done(v)
  PROVE  CrispyOutcome(w, o)
BY CrispyUntouched, CrispyDoes

LEMMA PlayerChanges ==
  ASSUME NEW w, CrispyGame(w), NEW p, CrispyPlayer(p), NEW o \in Done([w EXCEPT !.player = p])
  PROVE  CrispyOutcome(w, o)
<1> DEFINE v == [w EXCEPT !.player = p]
<1>1. /\ CrispyFields(v) /\ v.mobjs = w.mobjs /\ v.nextUid = w.nextUid /\ v.kills = w.kills
      /\ v.paused = w.paused /\ v.player = p
  BY DEF CrispyGame, CrispyFields
<1>2. o \in Done(v) /\ w.paused \in BOOLEAN
  BY DEF CrispyGame
<1> HIDE DEF v
<1> QED BY <1>1, <1>2, CrispySteers

LEMMA CrispyTypes ==
  ASSUME NEW w, CrispyGame(w), NEW c, CommandOK(c), NEW o \in CrispyExecute(w, c)
  PROVE  CrispyOutcome(w, o)
<1> DEFINE Known == {"spawn_entity", "change_level", "give_item", "set_player_health",
                     "set_player_position", "execute_console", "pause_game", "damage_entity",
                     "kill_entity"}
<1>0. c.type \in Known
  BY DEF CommandOK, CommandTypes
<1>1. CASE o \in Failed(w)
  BY <1>1, CrispyFails
<1>2. CASE o \notin Failed(w) /\ c.type = "spawn_entity"
  <2>1. o \in CrispySpawn(w, c)
    BY <1>2 DEF CrispyExecute
  <2> DEFINE v == SpawnMobj(w, MobjType(c.entity_class))
             u == RemoveMobj(v, Len(v.mobjs))
  <2>2. o \in Done(v) \cup Failed(u)
    BY <1>2, <2>1 DEF CrispySpawn
  <2>3. MobjType(c.entity_class) \in Types
    <3>1. c.entity_class \in Names
      BY <1>2 DEF CommandOK
    <3>2. "BlueArmor" \in Names
      BY DEF Names, AllItems
    <3> QED BY <3>1, <3>2 DEF MobjType, Types
  <2>4. CrispyAfter(w, v)
    BY <2>3, CrispySpawns
  <2>5. CASE o \in Done(v)
    <3> HIDE DEF v
    <3> QED BY <2>4, <2>5, CrispyDoes
  <2>6. CASE o \in Failed(u)
    BY <2>3, <2>6, CrispySpawnsBlocked
  <2> QED BY <2>2, <2>5, <2>6
<1>3. CASE o \notin Failed(w) /\ c.type = "change_level"
  <2>1. o \in CrispyChangeLevel(w, c)
    BY <1>3 DEF CrispyExecute
  <2> DEFINE skill == Clamp(c.skill_level, 1, 5)
             v == [w EXCEPT !.deferred = {<<c.map_name, skill>>}]
  <2>2. o \in Done(v)
    BY <1>3, <2>1 DEF CrispyChangeLevel
  <2> HIDE DEF skill
  <2>3. /\ CrispyFields(v) /\ v.mobjs = w.mobjs /\ v.nextUid = w.nextUid /\ v.kills = w.kills
        /\ v.paused = w.paused /\ v.player = w.player
    BY DEF CrispyGame, CrispyFields
  <2>4. w.paused \in BOOLEAN /\ CrispyPlayer(w.player)
    BY DEF CrispyGame
  <2> HIDE DEF v
  <2> QED BY <2>2, <2>3, <2>4, CrispySteers
<1>4. CASE o \notin Failed(w) /\ c.type = "give_item"
  <2>1. o \in CrispyGive(w, c)
    BY <1>4 DEF CrispyExecute
  <2> DEFINE amount == Clamp(c.amount, 1, AmountMax)
             p == IF c.item_class \in PowerupItems \ {"ComputerMap"}
                  THEN GivenPower(w.player, c.item_class)
                  ELSE Given(w.player, c.item_class, amount)
  <2>2. amount \in Int
    BY <1>4, WidthsAssumption DEF Clamp, CommandOK
  <2> HIDE DEF amount
  <2>3. CrispyPlayer(p)
    BY <2>2, PowerPlayer, GivenPlayer DEF CrispyGame
  <2>4. o \in Done([w EXCEPT !.player = p])
    BY <1>4, <2>1 DEF CrispyGive, amount
  <2> HIDE DEF p
  <2> QED BY <2>3, <2>4, PlayerChanges
<1>5. CASE o \notin Failed(w) /\ c.type = "set_player_health"
  <2>1. o \in CrispySetHealth(w, c)
    BY <1>5 DEF CrispyExecute
  <2> DEFINE hp == HealthPoints(c.health)
             p == [w.player EXCEPT !.hp = hp]
  <2>2. hp \in 0..MaxHealth
    BY <1>5, WidthsAssumption DEF HealthPoints, Clamp, CommandOK
  <2>3. o \in Done([w EXCEPT !.player = p])
    BY <2>1 DEF CrispySetHealth
  <2> HIDE DEF hp
  <2>4. /\ PlayerFields(p) /\ p.hp = hp /\ p.armor = w.player.armor
        /\ p.ammo = w.player.ammo /\ p.maxammo = w.player.maxammo /\ p.owned = w.player.owned
    <3>1. PlayerFields(w.player)
      BY DEF CrispyGame, CrispyPlayer
    <3> QED BY <3>1 DEF PlayerFields
  <2> HIDE DEF p
  <2>5. CrispyPlayer(p)
    BY <2>2, <2>4 DEF CrispyPlayer, CrispyGame
  <2> QED BY <2>3, <2>5, PlayerChanges
<1>6. CASE o \notin Failed(w) /\ c.type = "set_player_position"
  <2>1. o \in CrispySetPosition(w, c)
    BY <1>6 DEF CrispyExecute
  <2>2. PICK p \in Placements(w.player, c) : o \in Done([w EXCEPT !.player = p])
    BY <1>6, <2>1 DEF CrispySetPosition
  <2>3. PICK x \in ToFixed(c.x), y \in ToFixed(c.y), angle \in ToAngle(c.angle) :
          p = PutAt(w.player, x, y, angle)
    BY <2>2 DEF Placements
  <2>4. /\ PlayerFields(p) /\ p.hp = w.player.hp /\ p.armor = w.player.armor
        /\ p.ammo = w.player.ammo /\ p.maxammo = w.player.maxammo /\ p.owned = w.player.owned
    <3>1. PlayerFields(w.player)
      BY DEF CrispyGame, CrispyPlayer
    <3> QED BY <2>3, <3>1 DEF PlayerFields, PutAt
  <2>5. CrispyPlayer(p)
    BY <2>4 DEF CrispyPlayer, CrispyGame
  <2> QED BY <2>2, <2>5, PlayerChanges
<1>7. CASE o \notin Failed(w) /\ c.type = "execute_console"
  <2>1. o \in CrispyConsole(w, c)
    BY <1>7 DEF CrispyExecute
  <2>2. \/ \E cheats : o \in Done([w EXCEPT !.player.cheats = cheats])
        \/ \E paused \in BOOLEAN : o \in Done([w EXCEPT !.paused = paused])
    BY <1>7, <2>1 DEF CrispyConsole
  <2>3. ASSUME NEW cheats, o \in Done([w EXCEPT !.player.cheats = cheats])
        PROVE  CrispyOutcome(w, o)
    <3> DEFINE p == [w.player EXCEPT !.cheats = cheats]
    <3>1. o \in Done([w EXCEPT !.player = p])
      BY <2>3
    <3>2. /\ PlayerFields(p) /\ p.hp = w.player.hp /\ p.armor = w.player.armor
          /\ p.ammo = w.player.ammo /\ p.maxammo = w.player.maxammo /\ p.owned = w.player.owned
      <4>1. PlayerFields(w.player)
        BY DEF CrispyGame, CrispyPlayer
      <4> QED BY <4>1 DEF PlayerFields
    <3> HIDE DEF p
    <3>3. CrispyPlayer(p)
      BY <3>2 DEF CrispyPlayer, CrispyGame
    <3> QED BY <3>1, <3>3, PlayerChanges
  <2>4. ASSUME NEW paused \in BOOLEAN, o \in Done([w EXCEPT !.paused = paused])
        PROVE  CrispyOutcome(w, o)
    <3> DEFINE v == [w EXCEPT !.paused = paused]
    <3>1. /\ CrispyFields(v) /\ v.mobjs = w.mobjs /\ v.nextUid = w.nextUid /\ v.kills = w.kills
          /\ v.paused = paused /\ v.player = w.player
      BY DEF CrispyGame, CrispyFields
    <3>2. CrispyPlayer(w.player)
      BY DEF CrispyGame
    <3> HIDE DEF v
    <3>3. o \in Done(v)
      BY <2>4 DEF v
    <3> QED BY <3>1, <3>2, <3>3, CrispySteers
  <2> QED BY <2>2, <2>3, <2>4
<1>8. CASE o \notin Failed(w) /\ c.type = "pause_game"
  <2> DEFINE v == [w EXCEPT !.paused = c.paused]
  <2>1. o \in Done(v) /\ c.paused \in BOOLEAN
    BY <1>8 DEF CrispyExecute, CommandOK
  <2>2. /\ CrispyFields(v) /\ v.mobjs = w.mobjs /\ v.nextUid = w.nextUid /\ v.kills = w.kills
        /\ v.paused = c.paused /\ v.player = w.player
    BY DEF CrispyGame, CrispyFields
  <2>3. CrispyPlayer(w.player)
    BY DEF CrispyGame
  <2> HIDE DEF v
  <2> QED BY <2>1, <2>2, <2>3, CrispySteers
<1>9. CASE o \notin Failed(w) /\ c.type = "damage_entity"
  <2>1. o \in CrispyDamage(w, c)
    BY <1>9 DEF CrispyExecute
  <2>2. /\ o \in Struck(w, FindEnemy(w, c.target_tid), c.damage)
        /\ c.damage \in Nat
    BY <1>9, <2>1 DEF CrispyDamage, CommandOK
  <2>3. FindEnemy(w, c.target_tid) \in SUBSET {w.mobjs[i] : i \in Counted(w)}
    BY DEF FindEnemy
  <2> QED BY <2>2, <2>3, CrispyStrikes
<1>10. CASE o \notin Failed(w) /\ c.type = "kill_entity"
  <2>1. o \in CrispyKill(w, c)
    BY <1>10 DEF CrispyExecute
  <2>2. PICK m \in FindEnemy(w, c.target_tid) : o \in Struck(w, {m}, Clamp(m.hp + 1024, 1, 32000))
    BY <1>10, <2>1 DEF CrispyKill
  <2>3. {m} \in SUBSET {w.mobjs[i] : i \in Counted(w)}
    BY DEF FindEnemy
  <2>4. m \in Thing
    BY <2>3 DEF CrispyGame, Counted
  <2>5. Clamp(m.hp + 1024, 1, 32000) \in Nat
    BY <2>4 DEF Clamp, Thing, Points
  <2> QED BY <2>2, <2>3, <2>5, CrispyStrikes
<1> QED BY <1>0, <1>1, <1>2, <1>3, <1>4, <1>5, <1>6, <1>7, <1>8, <1>9, <1>10

LEMMA CrispyInputs ==
  ASSUME NEW w, CrispyGame(w), NEW c, NEW o \in CrispyInput(w, c)
  PROVE  CrispyAfter(w, o.world)
<1>1. CASE o \in Failed(w)
  <2>1. CrispyOutcome(w, o)
    BY <1>1, CrispyFails
  <2> QED BY <2>1 DEF CrispyOutcome
<1>2. CASE o \notin Failed(w)
  <2>1. PICK cmd : o \in Done([w EXCEPT !.ticcmd = cmd])
    BY <1>2 DEF CrispyInput
  <2> DEFINE v == [w EXCEPT !.ticcmd = cmd]
  <2>2. /\ CrispyFields(v) /\ v.mobjs = w.mobjs /\ v.nextUid = w.nextUid /\ v.kills = w.kills
        /\ v.paused = w.paused /\ v.player = w.player
    BY DEF CrispyGame, CrispyFields
  <2>3. w.paused \in BOOLEAN /\ CrispyPlayer(w.player) /\ o.world = v
    BY <2>1 DEF CrispyGame, Done
  <2> HIDE DEF v
  <2> QED BY <2>2, <2>3, CrispyUntouched
<1> QED BY <1>1, <1>2

-----------------------------------------------------------------------------
(* The fake game.                                                          *)

Foe == [uid : Nat, id : Nat, type : Names, hp : Int]

Slot == [name : Names \cup {"Bullets"}, amount : Nat]

(* No item is in two slots. *)
Inventory(s) == s \in Seq(Slot) /\ \A i, j \in 1..Len(s) : s[i].name = s[j].name => i = j

FakePlayer(p) ==
  /\ p = [f \in {"hp", "god", "ammo", "weapon", "x", "y", "angle"} |-> p[f]]
  /\ p.hp \in 0..MaxHealth
  /\ p.ammo \in {<<50, 8, 0, 0>>, MaxAmmo}

FakeFields(w) ==
  w = [f \in {"enemies", "nextId", "nextUid", "inventory", "player", "level", "kills", "used",
              "paused"} |-> w[f]]

FakeGame(w) ==
  /\ FakeFields(w)
  /\ w.enemies \in Seq(Foe) /\ w.nextUid \in Nat \ {0} /\ Numbered(w.enemies, w.nextUid)
  /\ w.nextId \in Nat /\ w.kills \in Nat /\ w.paused \in BOOLEAN
  /\ FakePlayer(w.player) /\ Inventory(w.inventory)

Ids(s) == {s[i].id : i \in 1..Len(s)}

(* What every command, every input and the advance do: a new enemy gets one of
   the ids. *)
FakeAfter(w, v, ids) ==
  /\ FakeGame(v)
  /\ Continues(w.enemies, v.enemies) /\ w.nextUid <= v.nextUid
  /\ v.nextId \in {w.nextId, w.nextId + 1}
  /\ Ids(v.enemies) \subseteq Ids(w.enemies) \cup ids

FakeCounts(w, v) ==
  v.kills + Cardinality(DeadOf(w.enemies)) = w.kills + Cardinality(DeadOf(v.enemies))

LEMMA FoesBreathe == Breathing(Foe)
  BY DEF Breathing, Foe

LEMMA FakeUntouched ==
  ASSUME NEW w, NEW v, NEW ids, FakeGame(w), FakeFields(v),
         v.enemies = w.enemies, v.nextUid = w.nextUid, v.nextId \in {w.nextId, w.nextId + 1},
         v.kills \in Nat, v.paused \in BOOLEAN, FakePlayer(v.player), Inventory(v.inventory)
  PROVE  FakeAfter(w, v, ids) /\ (v.kills = w.kills => FakeCounts(w, v))
<1>1. w.nextId \in Nat
  BY DEF FakeGame
<1>2. FakeGame(v)
  BY <1>1 DEF FakeGame
<1>3. Continues(w.enemies, v.enemies)
  BY ThingsStay, FoesBreathe DEF FakeGame
<1>4. w.nextUid <= v.nextUid
  BY DEF FakeGame
<1> QED BY <1>2, <1>3, <1>4 DEF FakeAfter, FakeCounts

(* apply_damage_to_enemy counts a death once. *)
LEMMA FakeHurts ==
  ASSUME NEW w, NEW ids, FakeGame(w), NEW i \in 1..Len(w.enemies), NEW damage \in Int
  PROVE  /\ FakeAfter(w, FakeDamaged(w, i, damage), ids)
         /\ FakeCounts(w, FakeDamaged(w, i, damage))
         /\ FakeDamaged(w, i, damage).nextId = w.nextId
<1> DEFINE s == w.enemies
           left == s[i].hp - damage
           hp == IF left > 0 THEN left ELSE 0
           m == [s[i] EXCEPT !.hp = hp]
           r == [s EXCEPT ![i] = m]
           kills == IF left <= 0 THEN w.kills + 1 ELSE w.kills
           v == [w EXCEPT !.enemies = r, !.kills = kills]
<1>1. /\ s \in Seq(Foe) /\ Len(s) \in Nat /\ Numbered(s, w.nextUid) /\ w.kills \in Nat
      /\ w.nextUid \in Nat /\ w.nextId \in Nat
      /\ \A j \in 1..Len(s) : s[j] \in Foe
  BY DEF FakeGame
<1>2. CASE FakeDamaged(w, i, damage) = w
  BY <1>2, FakeUntouched DEF FakeGame
<1>3. CASE FakeDamaged(w, i, damage) # w
  <2>1. s[i].hp > 0 /\ FakeDamaged(w, i, damage) = v
    <3>1. ~(damage <= 0 \/ i \notin Alive(w))
      BY <1>3 DEF FakeDamaged
    <3>2. FakeDamaged(w, i, damage)
            = [w EXCEPT !.enemies[i].hp = hp, !.kills = IF left <= 0 THEN @ + 1 ELSE @]
      BY <3>1 DEF FakeDamaged
    <3> QED BY <3>1, <3>2 DEF Alive
  <2>2. /\ FakeFields(v) /\ v.enemies = r /\ v.kills = kills /\ v.nextUid = w.nextUid
        /\ v.nextId = w.nextId /\ v.paused = w.paused /\ v.inventory = w.inventory /\ v.player = w.player
    BY DEF FakeGame, FakeFields
  <2>3. left \in Int /\ hp \in Int /\ (hp <= 0 <=> left <= 0)
    <3>1. s[i].hp \in Int
      BY <1>1 DEF Foe
    <3> QED BY <3>1
  <2> HIDE DEF left, hp
  <2>4. m \in Foe /\ m.uid = s[i].uid /\ m.id = s[i].id /\ m.hp = hp
        /\ m = [s[i] EXCEPT !.hp = m.hp]
    BY <1>1, <2>3 DEF Foe
  <2>5. \A j \in 1..Len(s) : s[j] = [s[j] EXCEPT !.hp = s[j].hp]
    BY <1>1, FoesBreathe DEF Breathing
  <2> HIDE DEF m
  <2>6. /\ r \in Seq(Foe) /\ Len(r) = Len(s) /\ r[i] = m
        /\ \A j \in 1..Len(s) : j # i => r[j] = s[j]
    BY <1>1, <2>4
  <2> HIDE DEF r, v
  <2>7. \A j \in 1..Len(s) : /\ r[j].uid = s[j].uid /\ r[j].id = s[j].id
                             /\ r[j] = [s[j] EXCEPT !.hp = r[j].hp]
    BY <2>4, <2>5, <2>6
  <2>8. Numbered(r, w.nextUid)
    BY <1>1, <2>6, <2>7 DEF Numbered
  <2>9. Cardinality(DeadOf(r)) = Cardinality(DeadOf(s)) + (IF r[i].hp <= 0 THEN 1 ELSE 0)
    BY <1>1, <2>1, <2>3, <2>4, <2>6, <2>8, HurtCount DEF Foe
  <2>10. Continues(s, r)
    BY <1>1, <2>6, <2>7 DEF Continues
  <2>11. Ids(v.enemies) \subseteq Ids(w.enemies) \cup ids
    <3>1. Ids(r) \subseteq Ids(s)
      <4>1. \A j \in 1..Len(r) : r[j].id \in {s[k].id : k \in 1..Len(s)}
        BY <2>6, <2>7
      <4> QED BY <4>1 DEF Ids
    <3> QED BY <2>2, <3>1
  <2>12. Cardinality(DeadOf(s)) \in Nat
    BY <1>1, DeadCount
  <2>13. kills \in Nat
    BY <1>1
  <2>14. FakeCounts(w, v)
    <3>1. kills = w.kills + (IF r[i].hp <= 0 THEN 1 ELSE 0)
      BY <1>1, <2>3, <2>4, <2>6
    <3> QED BY <1>1, <2>2, <2>9, <2>12, <3>1 DEF FakeCounts
  <2> HIDE DEF kills
  <2>15. FakeGame(v)
    BY <1>1, <2>2, <2>6, <2>8, <2>13 DEF FakeGame
  <2>16. FakeAfter(w, v, ids)
    BY <1>1, <2>2, <2>10, <2>11, <2>15 DEF FakeAfter
  <2> QED BY <2>1, <2>2, <2>14, <2>16
<1> QED BY <1>2, <1>3

LEMMA FakeSpawns ==
  ASSUME NEW w, FakeGame(w), NEW id \in Nat, NEW type \in Names, NEW next \in {w.nextId, w.nextId + 1},
         NEW v, v = [w EXCEPT !.enemies = Append(@, FakeEnemy(w.nextUid, id, type)),
                              !.nextUid = @ + 1, !.nextId = next]
  PROVE  FakeAfter(w, v, {id}) /\ FakeCounts(w, v)
<1> DEFINE s == w.enemies
           m == FakeEnemy(w.nextUid, id, type)
           r == Append(s, m)
<1>1. /\ s \in Seq(Foe) /\ Numbered(s, w.nextUid) /\ w.nextUid \in Nat /\ w.nextUid > 0
      /\ w.nextId \in Nat /\ w.kills \in Nat /\ Len(s) \in Nat
  BY DEF FakeGame
<1>2. m \in Foe /\ m.uid = w.nextUid /\ m.id = id /\ m.hp \in Int /\ m.hp > 0
  BY <1>1 DEF FakeEnemy, Foe, EnemyHealth
<1>3. /\ FakeFields(v) /\ v.enemies = r /\ v.nextUid = w.nextUid + 1 /\ v.nextId = next
      /\ v.kills = w.kills /\ v.paused = w.paused /\ v.inventory = w.inventory /\ v.player = w.player
  BY DEF FakeGame, FakeFields
<1> HIDE DEF m
<1>4. /\ r \in Seq(Foe) /\ Len(r) = Len(s) + 1 /\ r[Len(s) + 1] = m
      /\ \A i \in 1..Len(s) : r[i] = s[i]
  BY <1>1, <1>2, Appended
<1>5. Numbered(r, w.nextUid + 1) /\ DeadOf(r) = DeadOf(s)
  BY <1>1, <1>2, AddedCount
<1>6. Continues(s, r)
  BY <1>1, <1>2, OneMore, FoesBreathe
<1> HIDE DEF r
<1>7. Ids(v.enemies) \subseteq Ids(w.enemies) \cup {id}
  <2>1. \A i \in 1..Len(r) : i \in 1..Len(s) \/ i = Len(s) + 1
    BY <1>1, <1>4
  <2>2. \A i \in 1..Len(r) : r[i].id = id \/ \E j \in 1..Len(s) : r[i].id = s[j].id
    BY <1>2, <1>4, <2>1
  <2>3. Ids(r) \subseteq Ids(s) \cup {id}
    BY <2>2 DEF Ids
  <2> QED BY <1>3, <2>3
<1>8. FakeGame(v)
  <2>1. next \in Nat /\ w.nextUid + 1 \in Nat \ {0}
    BY <1>1
  <2> QED BY <1>1, <1>3, <1>4, <1>5, <2>1 DEF FakeGame
<1>9. Cardinality(DeadOf(s)) \in Nat
  BY <1>1, DeadCount
<1>10. FakeCounts(w, v)
  BY <1>1, <1>3, <1>5, <1>9 DEF FakeCounts
<1>11. FakeAfter(w, v, {id})
  <2>1. w.nextUid <= v.nextUid /\ v.nextId \in {w.nextId, w.nextId + 1}
    BY <1>1, <1>3
  <2>2. Continues(w.enemies, v.enemies)
    BY <1>3, <1>6
  <2> QED BY <2>1, <2>2, <1>7, <1>8 DEF FakeAfter
<1> QED BY <1>10, <1>11

(* "killall" kills those that are alive, and counts each. *)
LEMMA FakeKillsAll ==
  ASSUME NEW w, NEW ids, FakeGame(w),
         NEW v, v = [w EXCEPT !.enemies = [i \in 1..Len(w.enemies) |-> [w.enemies[i] EXCEPT !.hp = 0]],
                              !.kills = @ + Cardinality(Alive(w))]
  PROVE  FakeAfter(w, v, ids) /\ FakeCounts(w, v)
<1> DEFINE s == w.enemies
           r == [i \in 1..Len(s) |-> [s[i] EXCEPT !.hp = 0]]
           alive == Cardinality(Alive(w))
<1>1. /\ s \in Seq(Foe) /\ Numbered(s, w.nextUid) /\ w.nextUid \in Nat
      /\ w.nextId \in Nat /\ w.kills \in Nat /\ Len(s) \in Nat
      /\ \A i \in 1..Len(s) : s[i] \in Foe
  BY DEF FakeGame
<1>2. /\ FakeFields(v) /\ v.enemies = r /\ v.kills = w.kills + alive /\ v.nextUid = w.nextUid
      /\ v.nextId = w.nextId /\ v.paused = w.paused /\ v.inventory = w.inventory /\ v.player = w.player
  BY DEF FakeGame, FakeFields
<1>3. \A m \in Foe : /\ [m EXCEPT !.hp = 0] \in Foe /\ [m EXCEPT !.hp = 0].uid = m.uid
                     /\ [m EXCEPT !.hp = 0].id = m.id /\ [m EXCEPT !.hp = 0].hp = 0
  BY DEF Foe
<1>4. /\ Len(r) = Len(s) /\ r \in [1..Len(s) -> Foe]
      /\ \A i \in 1..Len(s) : /\ r[i].uid = s[i].uid /\ r[i].id = s[i].id /\ r[i].hp = 0
                             /\ r[i] = [s[i] EXCEPT !.hp = r[i].hp]
  <2>1. \A i \in 1..Len(s) : r[i] = [s[i] EXCEPT !.hp = 0] /\ r[i] \in Foe
    BY <1>1, <1>3
  <2>2. Len(r) = Len(s) /\ r \in [1..Len(s) -> Foe]
    BY <1>1, <1>3
  <2> HIDE DEF r
  <2>3. ASSUME NEW i \in 1..Len(s)
        PROVE  /\ r[i].uid = s[i].uid /\ r[i].id = s[i].id /\ r[i].hp = 0
               /\ r[i] = [s[i] EXCEPT !.hp = r[i].hp]
    <3>1. s[i] \in Foe /\ r[i] = [s[i] EXCEPT !.hp = 0]
      BY <1>1, <2>1
    <3>2. r[i].uid = s[i].uid /\ r[i].id = s[i].id /\ r[i].hp = 0
      BY <1>3, <3>1
    <3> QED BY <3>1, <3>2
  <2> QED BY <2>2, <2>3
<1> HIDE DEF r
<1>5. r \in Seq(Foe)
  BY <1>1, <1>4
<1>6. Numbered(r, w.nextUid)
  BY <1>1, <1>4 DEF Numbered
<1>7. /\ Cardinality({i \in 1..Len(s) : s[i].hp > 0}) \in Nat
      /\ Cardinality(DeadOf(r)) =
           Cardinality(DeadOf(s)) + Cardinality({i \in 1..Len(s) : s[i].hp > 0})
  <2>1. \A i \in 1..Len(s) : s[i].hp \in Int /\ r[i].hp <= 0
    <3> SUFFICES ASSUME NEW i \in 1..Len(s) PROVE s[i].hp \in Int /\ r[i].hp <= 0
      OBVIOUS
    <3>1. s[i].hp \in Int
      BY <1>1 DEF Foe
    <3>2. r[i].hp = 0
      BY <1>4
    <3> QED BY <3>1, <3>2
  <2> QED BY <1>1, <1>4, <1>6, <2>1, KilledCount
<1>8. alive \in Nat /\ Cardinality(DeadOf(r)) = Cardinality(DeadOf(s)) + alive
  BY <1>7 DEF Alive
<1> HIDE DEF alive
<1>9. Continues(s, r)
  BY <1>1, <1>4 DEF Continues
<1>10. Ids(v.enemies) \subseteq Ids(w.enemies) \cup ids
  <2>1. Ids(r) \subseteq Ids(s)
    <3>1. \A i \in 1..Len(r) : r[i].id \in {s[k].id : k \in 1..Len(s)}
      BY <1>4
    <3> QED BY <3>1 DEF Ids
  <2> QED BY <1>2, <2>1
<1>11. FakeGame(v)
  <2>1. w.kills + alive \in Nat
    BY <1>1, <1>8
  <2> QED BY <1>1, <1>2, <1>5, <1>6, <2>1 DEF FakeGame
<1>12. Cardinality(DeadOf(s)) \in Nat
  BY <1>1, DeadCount
<1>13. FakeCounts(w, v)
  <2>1. v.kills = w.kills + alive /\ DeadOf(v.enemies) = DeadOf(r)
    BY <1>2
  <2> HIDE DEF s, r
  <2>2. w.kills + alive + Cardinality(DeadOf(s)) = w.kills + Cardinality(DeadOf(r))
    BY <1>1, <1>8, <1>12
  <2> QED BY <2>1, <2>2 DEF FakeCounts, s
<1>14. FakeAfter(w, v, ids)
  <2>1. w.nextUid <= v.nextUid /\ v.nextId \in {w.nextId, w.nextId + 1}
    BY <1>1, <1>2
  <2>2. Continues(w.enemies, v.enemies)
    BY <1>2, <1>9
  <2> QED BY <2>1, <2>2, <1>10, <1>11 DEF FakeAfter
<1> QED BY <1>13, <1>14

(* What a command can lead to in the fake game: a failure uses up a number at
   most, and only a change of level forgets the dead. *)
FakeIds(w, c) ==
  {w.nextId} \cup (IF c.type = "spawn_entity" /\ c.tid > 0 THEN {c.tid} ELSE {})

FakeOutcome(w, c, o) ==
  /\ o.ok \in BOOLEAN /\ o.hit \in 0..w.nextUid
  /\ FakeAfter(w, o.world, FakeIds(w, c))
  /\ IF c.type = "change_level" THEN o.world.kills = 0 /\ o.world.enemies = w.enemies
     ELSE FakeCounts(w, o.world)
  /\ ~o.ok => o.world = [w EXCEPT !.nextId = o.world.nextId]

LEMMA FakeDoes ==
  ASSUME NEW w, FakeGame(w), NEW c, c.type # "change_level",
         NEW v, FakeAfter(w, v, FakeIds(w, c)), FakeCounts(w, v), NEW o \in Done(v)
  PROVE  FakeOutcome(w, c, o)
<1>1. o = [ok |-> TRUE, hit |-> 0, world |-> v] /\ w.nextUid \in Nat
  BY DEF Done, FakeGame
<1> QED BY <1>1 DEF FakeOutcome

LEMMA FakeSteers ==
  ASSUME NEW w, FakeGame(w), NEW c, c.type # "change_level", NEW v, FakeFields(v),
         v.enemies = w.enemies, v.nextUid = w.nextUid, v.nextId = w.nextId,
         v.kills = w.kills, v.paused \in BOOLEAN, FakePlayer(v.player), Inventory(v.inventory),
         NEW o \in Done(v)
  PROVE  FakeOutcome(w, c, o)
<1>1. v.kills \in Nat
  BY DEF FakeGame
<1>2. FakeAfter(w, v, FakeIds(w, c)) /\ FakeCounts(w, v)
  BY <1>1, FakeUntouched
<1> QED BY <1>2, FakeDoes

LEMMA FakeFails ==
  ASSUME NEW w, FakeGame(w), NEW c, c.type # "change_level",
         NEW next \in {w.nextId, w.nextId + 1}, NEW o \in Failed([w EXCEPT !.nextId = next])
  PROVE  FakeOutcome(w, c, o)
<1> DEFINE v == [w EXCEPT !.nextId = next]
<1>1. o = [ok |-> FALSE, hit |-> 0, world |-> v] /\ w.nextUid \in Nat
  BY DEF Failed, FakeGame
<1>2. /\ FakeFields(v) /\ v.enemies = w.enemies /\ v.nextUid = w.nextUid /\ v.nextId = next
      /\ v.kills = w.kills /\ v.paused = w.paused /\ v.inventory = w.inventory /\ v.player = w.player
  BY DEF FakeGame, FakeFields
<1>3. v = [w EXCEPT !.nextId = v.nextId]
  BY <1>2
<1> HIDE DEF v
<1>4. w.kills \in Nat /\ w.paused \in BOOLEAN /\ FakePlayer(w.player) /\ Inventory(w.inventory)
  BY DEF FakeGame
<1>5. FakeAfter(w, v, FakeIds(w, c)) /\ FakeCounts(w, v)
  BY <1>2, <1>4, FakeUntouched
<1> QED BY <1>1, <1>3, <1>5 DEF FakeOutcome

LEMMA Unnumbered ==
  ASSUME NEW w, FakeGame(w)
  PROVE  w = [w EXCEPT !.nextId = w.nextId] /\ w.nextId \in {w.nextId, w.nextId + 1}
  BY DEF FakeGame, FakeFields

LEMMA FakeStrikes ==
  ASSUME NEW w, FakeGame(w), NEW c, c.type # "change_level",
         NEW i \in 1..Len(w.enemies), NEW damage \in Int,
         NEW o, o = [ok |-> TRUE, hit |-> w.enemies[i].uid, world |-> FakeDamaged(w, i, damage)]
  PROVE  FakeOutcome(w, c, o)
<1>1. w.enemies[i].uid \in 1..(w.nextUid - 1) /\ w.nextUid \in Nat
  BY DEF FakeGame, Numbered
<1>2. FakeAfter(w, o.world, FakeIds(w, c)) /\ FakeCounts(w, o.world)
  BY FakeHurts
<1> QED BY <1>1, <1>2 DEF FakeOutcome

(* What a gift does to the inventory: the slot i has grown by the amount, or is new. *)
GiftIn(i, item, amount, old, new) ==
  /\ new[i] = [name   |-> item,
               amount |-> (IF i <= Len(old) THEN old[i].amount ELSE 0) + amount]
  /\ i <= Len(old) => old[i].name = item
  /\ \A j \in 1..Len(old) : j # i => new[j] = old[j]

LEMMA FakeGifts ==
  ASSUME NEW w, FakeGame(w), NEW c, c.item_class \in Names, c.amount \in Nat, c.amount > 0,
         NEW o \in FakeGive(w, c), o \notin Failed(w)
  PROVE  \E inventory : /\ Inventory(inventory) /\ o \in Done([w EXCEPT !.inventory = inventory])
                        /\ \E i \in 1..Len(inventory) :
                             GiftIn(i, c.item_class, c.amount, w.inventory, inventory)
<1> DEFINE old == w.inventory
           slots == {i \in 1..Len(old) : old[i].name = c.item_class}
           first == CHOOSE i \in slots : \A j \in slots : i <= j
           slot == [old[first] EXCEPT !.amount = @ + c.amount]
           grown == [old EXCEPT ![first] = slot]
           added == [name |-> c.item_class, amount |-> c.amount]
           longer == Append(old, added)
<1>1. /\ old \in Seq(Slot) /\ Len(old) \in Nat /\ \A i \in 1..Len(old) : old[i] \in Slot
      /\ \A i, j \in 1..Len(old) : old[i].name = old[j].name => i = j
  BY DEF FakeGame, Inventory
<1>0. c.amount = IF c.amount > 1 THEN c.amount ELSE 1
  OBVIOUS
<1>2. CASE slots # {}
  <2>1. o \in Done([w EXCEPT !.inventory = grown])
    <3>1. o \in Done([w EXCEPT !.inventory[first].amount = @ + c.amount])
      BY <1>0, <1>2 DEF FakeGive
    <3>2. [w EXCEPT !.inventory[first].amount = @ + c.amount] = [w EXCEPT !.inventory = grown]
      BY DEF FakeGame, FakeFields
    <3> QED BY <3>1, <3>2
  <2>2. PICK i \in slots : TRUE
    BY <1>2
  <2>3. slots = {i}
    BY <1>1
  <2> HIDE DEF slots
  <2>4. first = i
    BY <2>3, <1>1
  <2>5. i \in 1..Len(old) /\ old[i].name = c.item_class
    BY <2>2 DEF slots
  <2> HIDE DEF first
  <2>6. /\ slot \in Slot /\ slot.name = old[i].name
        /\ slot = [name |-> c.item_class, amount |-> old[i].amount + c.amount]
    <3> DEFINE s == old[i]
               total == s.amount + c.amount
    <3>1. s \in Slot /\ s.name = c.item_class
      BY <1>1, <2>5
    <3>2. slot = [s EXCEPT !.amount = total]
      BY <2>4
    <3> HIDE DEF s, slot
    <3>3. total \in Nat
      BY <3>1 DEF Slot
    <3> HIDE DEF total
    <3>4. slot \in Slot /\ slot.name = s.name /\ slot = [name |-> s.name, amount |-> total]
      BY <3>1, <3>2, <3>3 DEF Slot
    <3> QED BY <3>1, <3>4 DEF s, total
  <2> HIDE DEF slot, old
  <2>7. /\ grown \in Seq(Slot) /\ Len(grown) = Len(old) /\ grown[i] = slot
        /\ \A j \in 1..Len(old) : j # i => grown[j] = old[j]
    BY <1>1, <2>4, <2>5, <2>6
  <2> HIDE DEF grown
  <2>8. \A j \in 1..Len(old) : grown[j].name = old[j].name
    BY <2>6, <2>7
  <2>9. Inventory(grown)
    BY <1>1, <2>7, <2>8 DEF Inventory
  <2>10. GiftIn(i, c.item_class, c.amount, old, grown)
    BY <1>1, <2>5, <2>6, <2>7 DEF GiftIn
  <2> QED BY <2>1, <2>5, <2>7, <2>9, <2>10 DEF old
<1>3. CASE slots = {}
  <2>1. o \in Done([w EXCEPT !.inventory = longer])
    BY <1>0, <1>3 DEF FakeGive
  <2>2. \A i \in 1..Len(old) : old[i].name # c.item_class
    BY <1>3
  <2>3. added \in Slot /\ added.name = c.item_class
    BY DEF Slot
  <2> HIDE DEF added, old
  <2>4. /\ longer \in Seq(Slot) /\ Len(longer) = Len(old) + 1 /\ longer[Len(old) + 1] = added
        /\ \A i \in 1..Len(old) : longer[i] = old[i]
    BY <1>1, <2>3, Appended
  <2> HIDE DEF longer
  <2>5. \A i \in 1..Len(longer) : i \in 1..Len(old) \/ i = Len(old) + 1
    BY <1>1, <2>4
  <2>6. \A i, j \in 1..Len(longer) : longer[i].name = longer[j].name => i = j
    BY <1>1, <2>2, <2>3, <2>4, <2>5
  <2>7. Inventory(longer)
    BY <2>4, <2>6 DEF Inventory
  <2>8. Len(old) + 1 \in 1..Len(longer) /\ ~(Len(old) + 1 <= Len(old))
    BY <1>1, <2>4
  <2>9. GiftIn(Len(old) + 1, c.item_class, c.amount, old, longer)
    <3>1. added = [name |-> c.item_class, amount |-> 0 + c.amount]
      BY DEF added
    <3> QED BY <1>1, <2>4, <2>8, <3>1 DEF GiftIn
  <2> QED BY <2>1, <2>7, <2>8, <2>9 DEF old
<1> QED BY <1>2, <1>3

LEMMA FakeTypes ==
  ASSUME NEW w, FakeGame(w), NEW c, CommandOK(c), NEW o \in FakeExecute(w, c)
  PROVE  FakeOutcome(w, c, o)
<1> DEFINE Known == {"spawn_entity", "change_level", "give_item", "set_player_health",
                     "set_player_position", "execute_console", "pause_game", "damage_entity",
                     "kill_entity"}
<1>0. /\ c.type \in Known
      /\ w.paused \in BOOLEAN /\ FakePlayer(w.player) /\ Inventory(w.inventory) /\ w.kills \in Nat /\ w.nextId \in Nat
  BY DEF CommandOK, CommandTypes, FakeGame
<1>1. CASE o \in Failed(w) /\ c.type # "change_level"
  BY <1>1, Unnumbered, FakeFails
<1>2. CASE o \notin Failed(w) /\ c.type = "spawn_entity"
  <2>1. o \in FakeSpawn(w, c)
    BY <1>2 DEF FakeExecute
  <2>2. c.tid \in Nat /\ c.entity_class \in Names
    BY <1>2 DEF CommandOK
  <2> DEFINE id   == IF c.tid > 0 THEN c.tid ELSE w.nextId
             next == IF c.tid > 0 THEN w.nextId ELSE w.nextId + 1
             numbered == [w EXCEPT !.nextId = next]
             v == [w EXCEPT !.enemies = Append(@, FakeEnemy(w.nextUid, id, c.entity_class)),
                            !.nextUid = @ + 1, !.nextId = next]
  <2>3. (IF c.tid > 0 THEN w ELSE [w EXCEPT !.nextId = @ + 1]) = numbered
    BY Unnumbered
  <2>4. CASE o \in Failed(numbered)
    BY <1>2, <2>4, FakeFails
  <2>5. CASE o \notin Failed(numbered)
    <3>1. o \in Done([numbered EXCEPT !.enemies = Append(@, FakeEnemy(w.nextUid, id, c.entity_class)),
                                       !.nextUid = @ + 1])
      BY <2>1, <2>3, <2>5 DEF FakeSpawn
    <3> HIDE DEF id, next
    <3>2. o \in Done(v)
      BY <3>1 DEF FakeGame, FakeFields
    <3>3. id \in Nat /\ next \in {w.nextId, w.nextId + 1} /\ {id} \subseteq FakeIds(w, c)
      BY <1>0, <1>2, <2>2 DEF id, next, FakeIds
    <3>4. FakeAfter(w, v, {id}) /\ FakeCounts(w, v)
      BY <2>2, <3>3, FakeSpawns
    <3> HIDE DEF v
    <3>5. FakeAfter(w, v, FakeIds(w, c))
      BY <3>3, <3>4 DEF FakeAfter
    <3> QED BY <1>2, <3>2, <3>4, <3>5, FakeDoes
  <2> QED BY <2>4, <2>5
<1>3. CASE c.type = "change_level"
  <2> DEFINE v == [w EXCEPT !.level = c.map_name, !.kills = 0, !.used = 0]
  <2>1. o = [ok |-> TRUE, hit |-> 0, world |-> v]
    BY <1>3 DEF FakeExecute, FakeChangeLevel, Done
  <2>2. /\ FakeFields(v) /\ v.enemies = w.enemies /\ v.nextUid = w.nextUid
        /\ v.nextId = w.nextId /\ v.kills = 0 /\ v.paused = w.paused /\ v.inventory = w.inventory /\ v.player = w.player
    BY DEF FakeGame, FakeFields
  <2> HIDE DEF v
  <2>3. FakeAfter(w, v, FakeIds(w, c)) /\ w.nextUid \in Nat
    BY <1>0, <2>2, FakeUntouched DEF FakeGame
  <2> QED BY <1>3, <2>1, <2>2, <2>3 DEF FakeOutcome
<1>4. CASE o \notin Failed(w) /\ c.type = "give_item"
  <2>1. PICK inventory :
          Inventory(inventory) /\ o \in Done([w EXCEPT !.inventory = inventory])
    <3>1. c.item_class \in Names /\ c.amount \in Nat /\ c.amount > 0 /\ o \in FakeGive(w, c)
      BY <1>4 DEF FakeExecute, CommandOK
    <3> QED BY <1>4, <3>1, FakeGifts
  <2> DEFINE v == [w EXCEPT !.inventory = inventory]
  <2>2. /\ FakeFields(v) /\ v.enemies = w.enemies /\ v.nextUid = w.nextUid
        /\ v.nextId = w.nextId /\ v.kills = w.kills /\ v.paused = w.paused /\ v.inventory = inventory
        /\ v.player = w.player
    BY DEF FakeGame, FakeFields
  <2>3. o \in Done(v)
    BY <2>1
  <2> HIDE DEF v
  <2> QED BY <1>0, <1>4, <2>1, <2>2, <2>3, FakeSteers
<1>5. CASE c.type \in {"set_player_health", "set_player_position"}
  <2>1. PICK p : FakePlayer(p) /\ o \in Done([w EXCEPT !.player = p])
    <3>1. CASE c.type = "set_player_health"
      <4> DEFINE hp == Clamp(c.health, 1, MaxHealth)
                 p == [w.player EXCEPT !.hp = hp]
      <4>1. hp \in 0..MaxHealth
        BY <3>1, WidthsAssumption DEF Clamp, CommandOK
      <4>2. o \in Done([w EXCEPT !.player = p])
        BY <3>1 DEF FakeExecute
      <4> HIDE DEF hp
      <4>3. FakePlayer(p)
        BY <1>0, <4>1 DEF FakePlayer
      <4> QED BY <4>2, <4>3
    <3>2. CASE c.type = "set_player_position"
      <4> DEFINE p == [w.player EXCEPT !.x = c.x, !.y = c.y, !.angle = c.angle]
      <4>1. o \in Done([w EXCEPT !.player = p])
        BY <3>2 DEF FakeExecute
      <4>2. FakePlayer(p)
        BY <1>0 DEF FakePlayer
      <4> QED BY <4>1, <4>2
    <3> QED BY <1>5, <3>1, <3>2
  <2> DEFINE v == [w EXCEPT !.player = p]
  <2>2. /\ FakeFields(v) /\ v.enemies = w.enemies /\ v.nextUid = w.nextUid
        /\ v.nextId = w.nextId /\ v.kills = w.kills /\ v.paused = w.paused /\ v.inventory = w.inventory
        /\ v.player = p
    BY DEF FakeGame, FakeFields
  <2>3. o \in Done(v) /\ c.type # "change_level"
    BY <1>5, <2>1
  <2> HIDE DEF v
  <2> QED BY <1>0, <2>1, <2>2, <2>3, FakeSteers
<1>6. CASE c.type = "pause_game"
  <2> DEFINE v == [w EXCEPT !.paused = c.paused]
  <2>1. o \in Done(v) /\ c.paused \in BOOLEAN /\ c.type # "change_level"
    BY <1>6 DEF FakeExecute, CommandOK
  <2>2. /\ FakeFields(v) /\ v.enemies = w.enemies /\ v.nextUid = w.nextUid
        /\ v.nextId = w.nextId /\ v.kills = w.kills /\ v.paused = c.paused /\ v.inventory = w.inventory
        /\ v.player = w.player
    BY DEF FakeGame, FakeFields
  <2> HIDE DEF v
  <2> QED BY <1>0, <2>1, <2>2, FakeSteers
<1>7. CASE c.type = "execute_console"
  <2>0. o \in FakeConsole(w, c) /\ c.type # "change_level"
    BY <1>7 DEF FakeExecute
  <2> DEFINE saved == [w.player EXCEPT !.god = TRUE, !.hp = 100]
             armed == [w.player EXCEPT !.ammo = MaxAmmo]
             killed == [w EXCEPT !.enemies = [i \in 1..Len(w.enemies) |-> [w.enemies[i] EXCEPT !.hp = 0]],
                                 !.kills = @ + Cardinality(Alive(w))]
  <2>1. \/ o \in Done([w EXCEPT !.player = saved])
        \/ o \in Done([w EXCEPT !.player = armed])
        \/ o \in Done(killed)
        \/ o \in Done(w)
    <3>1. [w EXCEPT !.player = saved] = [w EXCEPT !.player.god = TRUE, !.player.hp = 100]
      BY DEF FakeGame, FakeFields
    <3> QED BY <2>0, <3>1 DEF FakeConsole
  <2>2. FakePlayer(saved) /\ FakePlayer(armed)
    <3>1. 100 \in 0..MaxHealth
      BY PlayAssumption, WidthsAssumption
    <3>2. FakePlayer(saved)
      BY <1>0, <3>1 DEF FakePlayer
    <3>3. FakePlayer(armed)
      BY <1>0 DEF FakePlayer
    <3> QED BY <3>2, <3>3
  <2> HIDE DEF saved, armed
  <2>3. ASSUME NEW p, FakePlayer(p), o \in Done([w EXCEPT !.player = p]) PROVE FakeOutcome(w, c, o)
    <3> DEFINE v == [w EXCEPT !.player = p]
    <3>1. /\ FakeFields(v) /\ v.enemies = w.enemies /\ v.nextUid = w.nextUid
          /\ v.nextId = w.nextId /\ v.kills = w.kills /\ v.paused = w.paused /\ v.inventory = w.inventory
          /\ v.player = p
      BY DEF FakeGame, FakeFields
    <3>2. o \in Done(v)
      BY <2>3
    <3> HIDE DEF v
    <3> QED BY <1>0, <2>0, <2>3, <3>1, <3>2, FakeSteers
  <2>4. CASE o \in Done(killed)
    <3>1. FakeAfter(w, killed, FakeIds(w, c)) /\ FakeCounts(w, killed)
      BY FakeKillsAll
    <3> HIDE DEF killed
    <3> QED BY <2>0, <2>4, <3>1, FakeDoes
  <2>5. CASE o \in Done(w)
    BY <1>0, <2>0, <2>5, FakeSteers DEF FakeGame
  <2> QED BY <2>1, <2>2, <2>3, <2>4, <2>5
<1>8. CASE o \notin Failed(w) /\ c.type = "damage_entity"
  <2>1. o \in FakeTarget(w, c, LAMBDA e : c.damage)
    BY <1>8 DEF FakeExecute
  <2>2. PICK i \in FakeFind(w, c.target_tid) :
          o = [ok |-> TRUE, hit |-> w.enemies[i].uid, world |-> FakeDamaged(w, i, c.damage)]
    BY <1>8, <2>1 DEF FakeTarget, FakeStruck
  <2>3. i \in 1..Len(w.enemies) /\ c.damage \in Int /\ c.type # "change_level"
    BY <1>8 DEF FakeFind, FakeIndexes, CommandOK
  <2> QED BY <2>2, <2>3, FakeStrikes
<1>9. CASE o \notin Failed(w) /\ c.type = "kill_entity"
  <2>1. o \in FakeTarget(w, c, LAMBDA e : e.hp)
    BY <1>9 DEF FakeExecute
  <2>2. PICK i \in FakeFind(w, c.target_tid) :
          o = [ok |-> TRUE, hit |-> w.enemies[i].uid,
               world |-> FakeDamaged(w, i, w.enemies[i].hp)]
    BY <1>9, <2>1 DEF FakeTarget, FakeStruck
  <2>3. i \in 1..Len(w.enemies) /\ c.type # "change_level"
    BY <1>9 DEF FakeFind, FakeIndexes
  <2>4. w.enemies[i].hp \in Int
    <3>1. w.enemies[i] \in Foe
      BY <2>3 DEF FakeGame
    <3> QED BY <3>1 DEF Foe
  <2> QED BY <2>2, <2>3, <2>4, FakeStrikes
<1> QED BY <1>0, <1>1, <1>2, <1>3, <1>4, <1>5, <1>6, <1>7, <1>8, <1>9

LEMMA FakeInputs ==
  ASSUME NEW w, FakeGame(w), NEW c,
         c.action \in Moves \cup {"aim", "weapon"}, NEW o \in FakeInput(w, c)
  PROVE  /\ FakeAfter(w, o.world, {}) /\ FakeCounts(w, o.world)
         /\ o.world.nextId = w.nextId
<1>0. w.paused \in BOOLEAN /\ FakePlayer(w.player) /\ Inventory(w.inventory) /\ w.kills \in Nat /\ w.nextId \in Nat
  BY DEF FakeGame
<1>1. CASE o.world = w
  BY <1>0, <1>1, FakeUntouched DEF FakeGame
<1>2. CASE \E i \in 1..Len(w.enemies) : o.world = FakeDamaged(w, i, 20)
  <2>1. PICK i \in 1..Len(w.enemies) : o.world = FakeDamaged(w, i, 20)
    BY <1>2
  <2>2. /\ FakeAfter(w, FakeDamaged(w, i, 20), {}) /\ FakeCounts(w, FakeDamaged(w, i, 20))
        /\ FakeDamaged(w, i, 20).nextId = w.nextId
    BY FakeHurts
  <2> QED BY <2>1, <2>2
<1>3. CASE \E p : FakePlayer(p) /\ o.world = [w EXCEPT !.player = p]
  <2>1. PICK p : FakePlayer(p) /\ o.world = [w EXCEPT !.player = p]
    BY <1>3
  <2> DEFINE v == [w EXCEPT !.player = p]
  <2>2. /\ FakeFields(v) /\ v.enemies = w.enemies /\ v.nextUid = w.nextUid
        /\ v.nextId = w.nextId /\ v.kills = w.kills /\ v.paused = w.paused /\ v.inventory = w.inventory /\ v.player = p
    BY DEF FakeGame, FakeFields
  <2> HIDE DEF v
  <2>3. FakeAfter(w, v, {}) /\ FakeCounts(w, v)
    BY <1>0, <2>1, <2>2, FakeUntouched
  <2> QED BY <2>1, <2>2, <2>3 DEF v
<1>4. CASE \E used : o.world = [w EXCEPT !.used = used]
  <2>1. PICK used : o.world = [w EXCEPT !.used = used]
    BY <1>4
  <2> DEFINE v == [w EXCEPT !.used = used]
  <2>2. /\ FakeFields(v) /\ v.enemies = w.enemies /\ v.nextUid = w.nextUid
        /\ v.nextId = w.nextId /\ v.kills = w.kills /\ v.paused = w.paused /\ v.inventory = w.inventory
        /\ v.player = w.player
    BY DEF FakeGame, FakeFields
  <2> HIDE DEF v
  <2>3. FakeAfter(w, v, {}) /\ FakeCounts(w, v)
    BY <1>0, <2>2, FakeUntouched
  <2> QED BY <2>1, <2>2, <2>3 DEF v
<1>5. \/ o.world = w
      \/ \E i \in 1..Len(w.enemies) : o.world = FakeDamaged(w, i, 20)
      \/ \E p : FakePlayer(p) /\ o.world = [w EXCEPT !.player = p]
      \/ \E used : o.world = [w EXCEPT !.used = used]
  <2>1. CASE c.action \in DOMAIN Step
    <3>1. PICK x, y : o \in Done([w EXCEPT !.player.x = x, !.player.y = y])
      BY <2>1 DEF FakeInput, Step
    <3> DEFINE p == [w.player EXCEPT !.x = x, !.y = y]
    <3>2. o.world = [w EXCEPT !.player = p]
      <4>1. [w EXCEPT !.player.x = x, !.player.y = y] = [w EXCEPT !.player = p]
        BY DEF FakeGame, FakeFields
      <4> QED BY <3>1, <4>1 DEF Done
    <3>3. FakePlayer(p)
      BY <1>0 DEF FakePlayer
    <3> QED BY <3>2, <3>3
  <2>2. CASE c.action \in {"turn_left", "turn_right", "aim"}
    <3>1. PICK angle : o \in Done([w EXCEPT !.player.angle = angle])
      BY <2>2 DEF FakeInput, Step
    <3> DEFINE p == [w.player EXCEPT !.angle = angle]
    <3>2. o.world = [w EXCEPT !.player = p]
      BY <3>1 DEF Done
    <3>3. FakePlayer(p)
      BY <1>0 DEF FakePlayer
    <3> QED BY <3>2, <3>3
  <2>3. CASE c.action = "weapon"
    <3> DEFINE p == [w.player EXCEPT !.weapon = c.slot]
    <3>1. o \in Done([w EXCEPT !.player = p])
      BY <2>3 DEF FakeInput, Step
    <3>2. FakePlayer(p)
      BY <1>0 DEF FakePlayer
    <3> QED BY <3>1, <3>2 DEF Done
  <2>4. CASE c.action = "use"
    <3>1. PICK used : o \in Done([w EXCEPT !.used = used])
      BY <2>4 DEF FakeInput, Step
    <3> QED BY <3>1 DEF Done
  <2>5. CASE c.action = "attack"
    <3>1. IF Alive(w) = {} THEN o \in Failed(w)
          ELSE o \in FakeStruck(w, Alive(w), LAMBDA e : 20)
      BY <2>5 DEF FakeInput, Step
    <3>2. CASE o \in Failed(w)
      BY <3>2 DEF Failed
    <3>3. CASE o \in FakeStruck(w, Alive(w), LAMBDA e : 20)
      BY <3>3 DEF FakeStruck, Alive
    <3> QED BY <3>1, <3>2, <3>3
  <2> QED BY <2>1, <2>2, <2>3, <2>4, <2>5 DEF Moves, Step
<1> QED BY <1>1, <1>2, <1>3, <1>4, <1>5

LEMMA FakeAdvances ==
  ASSUME NEW w, FakeGame(w), NEW v \in FakeAdvance(w)
  PROVE  FakeAfter(w, v, {}) /\ FakeCounts(w, v)
<1>0. w.paused \in BOOLEAN /\ FakePlayer(w.player) /\ Inventory(w.inventory) /\ w.kills \in Nat /\ w.nextId \in Nat
  BY DEF FakeGame
<1>1. CASE v = w
  BY <1>0, <1>1, FakeUntouched DEF FakeGame
<1>2. CASE v # w
  <2>1. /\ IsFiniteSet(Alive(w))
        /\ Cardinality(Alive(w)) \in Nat
    <3>1. IsFiniteSet(1..Len(w.enemies)) /\ Alive(w) \in SUBSET (1..Len(w.enemies))
      <4>1. Len(w.enemies) \in Nat
        BY DEF FakeGame
      <4> QED BY <4>1, FS_Interval DEF Alive
    <3>2. IsFiniteSet(Alive(w))
      BY <3>1, FS_Subset
    <3> QED BY <3>2, FS_CardinalityType
  <2>2. PICK touching \in 0..Cardinality(Alive(w)) :
          v = [w EXCEPT !.player.hp = IF @ > 5 * touching THEN @ - 5 * touching ELSE 0]
    BY <1>2 DEF FakeAdvance
  <2> DEFINE hp == IF w.player.hp > 5 * touching THEN w.player.hp - 5 * touching ELSE 0
             p == [w.player EXCEPT !.hp = hp]
  <2>3. touching \in Nat /\ w.player.hp \in 0..MaxHealth
    BY <1>0, <2>1 DEF FakePlayer
  <2>4. hp \in 0..MaxHealth
    BY <2>3, WidthsAssumption
  <2>5. v = [w EXCEPT !.player = p]
    BY <2>2
  <2> HIDE DEF hp
  <2>6. FakePlayer(p)
    BY <1>0, <2>4 DEF FakePlayer
  <2> HIDE DEF p
  <2>7. /\ FakeFields(v) /\ v.enemies = w.enemies /\ v.nextUid = w.nextUid
        /\ v.nextId = w.nextId /\ v.kills = w.kills /\ v.paused = w.paused /\ v.inventory = w.inventory /\ v.player = p
    BY <2>5 DEF FakeGame, FakeFields
  <2> QED BY <1>0, <2>6, <2>7, FakeUntouched
<1> QED BY <1>1, <1>2

-----------------------------------------------------------------------------
(* The steps of the Crispy engine itself.                                  *)

CrispyFresh(w, v) ==
  /\ CrispyGame(v) /\ w.nextUid <= v.nextUid /\ v.kills = 0 /\ DeadOf(v.mobjs) = {}

LEMMA CrispyLoads ==
  ASSUME NEW w, CrispyFields(w), w.nextUid \in Nat \ {0}, NEW skill,
         NEW v, v = Loaded(w, skill)
  PROVE  CrispyFresh(w, v)
<1> DEFINE n == Len(LevelThings)
           s == [i \in 1..n |-> Mobj(w.nextUid + i - 1, LevelThings[i])]
<1>1. /\ CrispyFields(v) /\ v.mobjs = s /\ v.nextUid = w.nextUid + n /\ v.kills = 0
      /\ v.paused = FALSE /\ v.player = NewPlayer
  BY DEF CrispyFields, Loaded
<1>2. n \in Nat /\ \A i \in 1..n : LevelThings[i] \in Types
  BY PlayAssumption DEF Types
<1> HIDE DEF n
<1>3. /\ s \in [1..n -> Thing]
      /\ \A i \in 1..n : s[i].uid = w.nextUid + i - 1 /\ s[i].hp = SpawnHealth
  <2>1. SpawnHealth \in Nat /\ w.nextUid \in Nat \ {0}
    BY PlayAssumption
  <2>2. \A i \in 1..n : w.nextUid + i - 1 \in Nat
    BY <1>2, <2>1
  <2> QED BY <1>2, <2>1, <2>2 DEF Mobj, Thing, Points
<1> HIDE DEF s
<1>4. s \in Seq(Thing) /\ Len(s) = n
  BY <1>2, <1>3
<1>5. Numbered(s, v.nextUid)
  <2>1. /\ v.nextUid = w.nextUid + n /\ w.nextUid \in Nat /\ w.nextUid > 0
        /\ v.nextUid \in Nat \ {0}
    BY <1>1, <1>2
  <2>2. ASSUME NEW i \in 1..n, NEW j \in 1..n, s[i].uid = s[j].uid PROVE i = j
    BY <1>2, <1>3, <2>1, <2>2
  <2>3. \A i \in 1..n : s[i].uid \in 1..(v.nextUid - 1)
    BY <1>2, <1>3, <2>1
  <2> QED BY <1>4, <2>2, <2>3 DEF Numbered
<1>6. DeadOf(s) = {}
  <2>1. \A i \in 1..Len(s) : ~(s[i].hp <= 0)
    BY <1>3, <1>4, PlayAssumption
  <2> QED BY <2>1 DEF DeadOf
<1>7. CrispyPlayer(NewPlayer)
  <2>1. PlayerFields(NewPlayer)
    BY DEF PlayerFields, NewPlayer
  <2>2. NewPlayer.hp \in 0..MaxHealth /\ NewPlayer.armor \in 0..200
    BY PlayAssumption, WidthsAssumption DEF NewPlayer
  <2>3. /\ NewPlayer.ammo = [clip |-> 50, shell |-> 0, misl |-> 0, cell |-> 0]
        /\ NewPlayer.maxammo = [clip |-> 200, shell |-> 50, misl |-> 50, cell |-> 300]
    BY DEF NewPlayer
  <2>4. /\ NewPlayer.ammo \in [Kinds -> Nat] /\ NewPlayer.maxammo \in [Kinds -> Nat]
        /\ \A k \in Kinds : NewPlayer.ammo[k] <= NewPlayer.maxammo[k]
    BY <2>3 DEF Kinds
  <2>5. NewPlayer.maxammo["clip"] = 200 /\ "Backpack" \notin NewPlayer.owned
    BY DEF NewPlayer
  <2> QED BY <2>1, <2>2, <2>4, <2>5 DEF CrispyPlayer
<1>8. CrispyGame(v)
  <2>1. v.nextUid \in Nat \ {0} /\ v.kills \in Nat /\ v.paused \in BOOLEAN
    <3>1. v.nextUid = w.nextUid + n /\ v.kills = 0
      BY <1>1
    <3>2. v.paused \in BOOLEAN
      BY <1>1
    <3> QED BY <1>2, <3>1, <3>2
  <2> QED BY <1>1, <1>4, <1>5, <1>7, <2>1 DEF CrispyGame
<1> QED BY <1>1, <1>2, <1>6, <1>8 DEF CrispyFresh

LEMMA CrispyTurns ==
  ASSUME CrispyGame(world)
  PROVE  /\ CrispyGame(Turned)
         /\ Turned.mobjs = world.mobjs /\ Turned.nextUid = world.nextUid
         /\ Turned.kills = world.kills
<1> DEFINE angle == IF Running THEN (world.player.angle + world.ticcmd.turn) % (2 * FullTurn)
                    ELSE world.player.angle
           p == [world.player EXCEPT !.angle = angle]
           v == [world EXCEPT !.player = p, !.ticcmd = IdleCmd]
<1>1. Turned = v
  BY DEF Turned
<1> HIDE DEF angle
<1>2. /\ PlayerFields(p) /\ p.hp = world.player.hp /\ p.armor = world.player.armor
      /\ p.ammo = world.player.ammo /\ p.maxammo = world.player.maxammo /\ p.owned = world.player.owned
  <2>1. PlayerFields(world.player)
    BY DEF CrispyGame, CrispyPlayer
  <2> QED BY <2>1 DEF PlayerFields
<1> HIDE DEF p
<1>3. CrispyPlayer(p)
  BY <1>2 DEF CrispyPlayer, CrispyGame
<1>4. /\ CrispyFields(v) /\ v.mobjs = world.mobjs /\ v.nextUid = world.nextUid
      /\ v.kills = world.kills /\ v.paused = world.paused /\ v.player = p
  BY DEF CrispyGame, CrispyFields
<1> HIDE DEF v
<1>5. CrispyGame(v)
  BY <1>3, <1>4 DEF CrispyGame
<1> QED BY <1>1, <1>4, <1>5

LEMMA CrispyRuns ==
  ASSUME CrispyGame(world), RunLevel
  PROVE  CrispyAfter(world, world')
<1>1. CrispyAfter(world, Turned)
  BY CrispyTurns, CrispyUntouched DEF CrispyGame
<1>2. CASE world' = Turned
  BY <1>1, <1>2
<1>3. CASE world' # Turned
  <2>1. PICK m \in {world.mobjs[i] : i \in Counted(world)} :
          m.hp > 0 /\ world' = DamageMobj(Turned, m.uid, m.hp)
    BY <1>3 DEF RunLevel
  <2>2. m \in Thing
    BY DEF CrispyGame, Counted
  <2>3. CrispyAfter(Turned, world')
    BY <2>1, <2>2, CrispyTurns, CrispyHurts DEF Thing, Points
  <2> QED BY <2>3, CrispyTurns DEF CrispyAfter
<1> QED BY <1>2, <1>3

LEMMA CrispyLeaves ==
  ASSUME CrispyGame(world), LeaveLevel
  PROVE  CrispyAfter(world, world') /\ world'.inLevel = FALSE
<1>1. /\ CrispyFields(world') /\ world'.mobjs = Turned.mobjs /\ world'.nextUid = Turned.nextUid
      /\ world'.kills = Turned.kills /\ world'.paused = Turned.paused
      /\ world'.player = Turned.player /\ world'.inLevel = FALSE
  BY CrispyTurns DEF LeaveLevel, CrispyGame, CrispyFields
<1>2. Turned.paused \in BOOLEAN /\ CrispyPlayer(Turned.player)
  BY CrispyTurns DEF CrispyGame
<1> QED BY <1>1, <1>2, CrispyTurns, CrispyUntouched

(* A corpse leaves the list. *)
LEMMA CorpseGoes ==
  ASSUME CrispyGame(world), NEW i \in Corpses, NEW v, v = Gone(i)
  PROVE  /\ CrispyGame(v) /\ v.nextUid = world.nextUid /\ v.kills = world.kills
         /\ Cardinality(DeadOf(v.mobjs)) = Cardinality(DeadOf(world.mobjs)) - 1
         /\ i \in 1..Len(world.mobjs) /\ world.mobjs[i] \in Thing
<1> DEFINE s == world.mobjs
           q == RemoveAt(s, i)
<1>1. i \in 1..Len(s) /\ s[i].hp <= 0
  BY DEF Corpses, Counted
<1>2. /\ s \in Seq(Thing) /\ Numbered(s, world.nextUid) /\ Len(s) \in Nat
      /\ world.nextUid \in Nat /\ s[i] \in Thing
  BY <1>1 DEF CrispyGame
<1>3. /\ CrispyFields(v) /\ v.mobjs = q /\ v.nextUid = world.nextUid
      /\ v.kills = world.kills /\ v.paused = Turned.paused /\ v.player = Turned.player
  BY CrispyTurns DEF Gone, RemoveMobj, CrispyGame, CrispyFields
<1>4. /\ q \in Seq(Thing) /\ Numbered(q, world.nextUid)
      /\ Cardinality(DeadOf(q)) = Cardinality(DeadOf(s)) - 1
  BY <1>1, <1>2, Removed, RemovedCount
<1> HIDE DEF q
<1>5. Turned.paused \in BOOLEAN /\ CrispyPlayer(Turned.player) /\ world.kills \in Nat
  BY CrispyTurns DEF CrispyGame
<1>6. CrispyGame(v)
  BY <1>3, <1>4, <1>5 DEF CrispyGame
<1> QED BY <1>1, <1>2, <1>3, <1>4, <1>6

(* A monster rises: it leaves the list and is a new one. *)
LEMMA CrispyBuries ==
  ASSUME CrispyGame(world), Vanish \/ Respawn
  PROVE  /\ CrispyGame(world') /\ world.nextUid <= world'.nextUid
         /\ world'.kills = world.kills
         /\ Cardinality(DeadOf(world'.mobjs)) = Cardinality(DeadOf(world.mobjs)) - 1
<1>0. world.nextUid \in Nat /\ world.kills \in Nat
  BY DEF CrispyGame
<1>1. CASE Vanish
  <2>1. PICK i \in Corpses : world' = Gone(i)
    BY <1>1 DEF Vanish
  <2> QED BY <1>0, <2>1, CorpseGoes
<1>2. CASE Respawn
  <2>1. PICK i \in Corpses : world' = SpawnMobj(Gone(i), world.mobjs[i].type)
    BY <1>2 DEF Respawn
  <2> DEFINE v == Gone(i)
             type == world.mobjs[i].type
  <2>2. /\ CrispyGame(v) /\ v.nextUid = world.nextUid /\ v.kills = world.kills
        /\ Cardinality(DeadOf(v.mobjs)) = Cardinality(DeadOf(world.mobjs)) - 1
        /\ type \in Types
    BY CorpseGoes DEF Thing
  <2> HIDE DEF v, type
  <2>3. CrispyAfter(v, SpawnMobj(v, type))
    BY <2>2, CrispySpawns
  <2>4. SpawnMobj(v, type).kills = v.kills
    BY <2>2 DEF SpawnMobj, CrispyGame, CrispyFields
  <2>5. world' = SpawnMobj(v, type)
    BY <2>1 DEF v, type
  <2>6. /\ CrispyGame(world') /\ v.nextUid <= world'.nextUid /\ world'.kills = v.kills
        /\ world'.kills + Cardinality(DeadOf(v.mobjs)) = v.kills + Cardinality(DeadOf(world'.mobjs))
    BY <2>3, <2>4, <2>5 DEF CrispyAfter
  <2>7. /\ Cardinality(DeadOf(v.mobjs)) \in Nat /\ Cardinality(DeadOf(world'.mobjs)) \in Nat
    BY <2>2, <2>6, DeadCount DEF CrispyGame
  <2> QED BY <1>0, <2>2, <2>6, <2>7
<1> QED BY <1>1, <1>2

-----------------------------------------------------------------------------
(* The calls and the queues.                                               *)

(* What the intake queues is what the worlds can execute. *)
LEMMA RequestsAreOK ==
  ASSUME NEW call \in Requests, NEW snap, NEW c \in SingleCall(AllAllowed, snap, call[1], call[2])
  PROVE  CommandOK(c)
<1> DEFINE args == call[2]
<1>1. /\ call[1] \in CommandTypes
      /\ \A f \in DOMAIN args : /\ IsNumber(args[f]) => args[f][2] \in Int
                                /\ args[f][1] = "bool" => args[f][2] \in BOOLEAN
  BY RequestsAssumption
<1>2. c \in ParseCommand(call[1], args) /\ ValidForMode(snap, c)
  BY DEF SingleCall, Queued
<1> HIDE DEF args
<1>3. \A f \in DOMAIN args : IsNumber(args[f]) => Number(args[f]) \in Int
  <2> SUFFICES ASSUME NEW f \in DOMAIN args, IsNumber(args[f]) PROVE Number(args[f]) \in Int
    OBVIOUS
  <2>1. args[f][2] \in Int
    BY <1>1
  <2> QED BY <2>1, WidthsAssumption DEF Number, AsDouble
<1>4. CASE call[1] = "spawn_entity"
  <2>1. c \in ParseSpawn(args)
    BY <1>2, <1>4 DEF ParseCommand
  <2>2. c.type = "spawn_entity" /\ c.tid \in 0..Int32Max
    BY <2>1 DEF ParseSpawn
  <2>3. \E mode : c.entity_class \in EnemiesOf(mode) \cup ItemsOf(mode)
    BY <1>2, <2>2 DEF ValidForMode
  <2>4. c.entity_class \in Names /\ c.tid \in Nat
    BY <2>2, <2>3, WidthsAssumption DEF EnemiesOf, ItemsOf, Names
  <2> QED BY <2>2, <2>4 DEF CommandOK, CommandTypes
<1>5. CASE call[1] \in {"change_level", "set_player_position", "execute_console", "kill_entity"}
  <2>1. \/ c \in ParseChangeLevel(args) \/ c \in ParseSetPosition(args)
        \/ c \in ParseConsole(args) \/ c \in ParseKill(args)
    BY <1>2, <1>5 DEF ParseCommand
  <2>2. c.type \in {"change_level", "set_player_position", "execute_console", "kill_entity"}
    BY <2>1 DEF ParseChangeLevel, ParseSetPosition, ParseConsole, ParseKill, KillTarget
  <2> QED BY <2>2 DEF CommandOK, CommandTypes
<1>6. CASE call[1] = "give_item"
  <2>1. c.type = "give_item" /\ c.amount \in 1..AmountMax
    BY <1>2, <1>6 DEF ParseCommand, ParseGiveItem
  <2>2. \E mode : c.item_class \in ItemsOf(mode)
    BY <1>2, <2>1 DEF ValidForMode
  <2>3. c.item_class \in Names /\ c.amount \in Nat \ {0}
    BY <2>1, <2>2, WidthsAssumption DEF ItemsOf, Names
  <2> QED BY <2>1, <2>3 DEF CommandOK, CommandTypes
<1>7. CASE call[1] = "set_player_health"
  <2>1. c \in ParseSetHealth(args)
    BY <1>2, <1>7 DEF ParseCommand
  <2>2. /\ c.type = "set_player_health" /\ "health" \in DOMAIN args /\ IsNumber(args["health"])
        /\ c.health = Clamp(Number(args["health"]) \div 2, 1, MaxHealth)
    BY <2>1 DEF ParseSetHealth, Required
  <2>3. c.health \in Int
    BY <1>3, <2>2, WidthsAssumption DEF Clamp
  <2> QED BY <2>2, <2>3 DEF CommandOK, CommandTypes
<1>8. CASE call[1] = "pause_game"
  <2>1. c \in ParsePause(args)
    BY <1>2, <1>8 DEF ParseCommand
  <2>2. c.type = "pause_game" /\ c.paused \in BOOLEAN
    BY <1>1, <2>1 DEF ParsePause, Required
  <2> QED BY <2>2 DEF CommandOK, CommandTypes
<1>9. CASE call[1] = "damage_entity"
  <2>1. c \in ParseDamage(args)
    BY <1>2, <1>9 DEF ParseCommand
  <2>2. /\ c.type = "damage_entity" /\ "damage" \in DOMAIN args /\ IsNumber(args["damage"])
        /\ c.damage = Clamp(Number(args["damage"]) \div 2, 1, DamageMax)
    BY <2>1 DEF ParseDamage, Required
  <2>3. c.damage \in Nat \ {0}
    BY <1>3, <2>2, WidthsAssumption DEF Clamp
  <2> QED BY <2>2, <2>3 DEF CommandOK, CommandTypes
<1> QED BY <1>1, <1>4, <1>5, <1>6, <1>7, <1>8, <1>9 DEF CommandTypes

(* A call that names an enemy asks for a kill, or for 20 points of damage. *)
KillCall(id) == <<"kill_entity", [target_tid |-> <<"int", id>>]>>
HurtCall(id) == <<"damage_entity", [target_tid |-> <<"int", id>>, damage |-> <<"int", 20>>]>>

LEMMA TargetsAreOK ==
  ASSUME NEW id, NEW call \in {KillCall(id), HurtCall(id)}, NEW snap,
         NEW c \in SingleCall(AllAllowed, snap, call[1], call[2])
  PROVE  /\ CommandOK(c)
         /\ c.type = "kill_entity" => c \in KillTarget([target_tid |-> <<"int", id>>])
         /\ c.type = "damage_entity" =>
              /\ c.damage \in 1..DamageMax
              /\ \E n \in Integers64(<<"int", id>>) : c.target_tid = DamageTarget(n)
         /\ c.type \in {"kill_entity", "damage_entity"}
<1>1. CASE call = KillCall(id)
  <2>1. c \in KillTarget([target_tid |-> <<"int", id>>])
    BY <1>1 DEF KillCall, SingleCall, Queued, ParseCommand, ParseKill
  <2>2. c.type = "kill_entity"
    BY <2>1 DEF KillTarget
  <2> QED BY <2>1, <2>2 DEF CommandOK, CommandTypes
<1>2. CASE call = HurtCall(id)
  <2> DEFINE args == [target_tid |-> <<"int", id>>, damage |-> <<"int", 20>>]
  <2>1. c \in ParseDamage(args)
    BY <1>2 DEF HurtCall, SingleCall, Queued, ParseCommand
  <2>2. /\ c.type = "damage_entity"
        /\ c.damage = Clamp(Number(<<"int", 20>>) \div 2, 1, DamageMax)
        /\ \E n \in Integers64(<<"int", id>>) : c.target_tid = DamageTarget(n)
    BY <2>1 DEF ParseDamage, RequiredInt
  <2>3. Number(<<"int", 20>>) \div 2 \in Int
    BY WidthsAssumption DEF Number, AsDouble
  <2>4. c.damage \in 1..DamageMax
    BY <2>2, <2>3, WidthsAssumption DEF Clamp
  <2> QED BY <2>2, <2>4 DEF CommandOK, CommandTypes
<1> QED BY <1>1, <1>2

(* What is queued stands for the call it was made of. *)
Stands(c, call) ==
  /\ CommandOK(c) /\ c \in ParseCommand(call[1], call[2])
  /\ call \in Requests \/ call[1] \in {"kill_entity", "damage_entity"}

QueuedOK(entry) == Stands(entry.command, entry.call)

Queue(s) == s \in Seq({s[i] : i \in 1..Len(s)})

LEMMA ListIsQueue ==
  ASSUME NEW T, NEW s \in Seq(T) PROVE Queue(s)
<1>1. Len(s) \in Nat /\ s \in [1..Len(s) -> T]
  OBVIOUS
<1> QED BY <1>1 DEF Queue

LEMMA EmptyQueue == Queue(<< >>)
  BY DEF Queue

LEMMA Enqueued ==
  ASSUME NEW s, Queue(s), NEW x
  PROVE  /\ Queue(Append(s, x)) /\ Len(s) \in Nat /\ Len(Append(s, x)) = Len(s) + 1
         /\ \A i \in 1..Len(Append(s, x)) : Append(s, x)[i] = IF i <= Len(s) THEN s[i] ELSE x
<1> DEFINE T == {s[i] : i \in 1..Len(s)} \cup {x}
           r == Append(s, x)
<1>1. s \in Seq(T)
  BY DEF Queue
<1>2. x \in T
  OBVIOUS
<1> HIDE DEF T
<1>3. /\ r \in Seq(T) /\ Len(s) \in Nat /\ Len(r) = Len(s) + 1
      /\ \A i \in 1..Len(s) : r[i] = s[i]
      /\ r[Len(s) + 1] = x
  BY <1>1, <1>2, Appended
<1> HIDE DEF r
<1>4. Queue(r)
  BY <1>3, ListIsQueue
<1>5. \A i \in 1..Len(r) : r[i] = IF i <= Len(s) THEN s[i] ELSE x
  BY <1>3
<1> QED BY <1>3, <1>4, <1>5 DEF r

LEMMA Dequeued ==
  ASSUME NEW s, Queue(s), s # << >>
  PROVE  /\ Queue(Tail(s)) /\ Len(s) \in Nat \ {0} /\ Len(Tail(s)) = Len(s) - 1
         /\ Head(s) = s[1] /\ 1 \in 1..Len(s)
         /\ \A i \in 1..Len(Tail(s)) : i + 1 \in 1..Len(s) /\ Tail(s)[i] = s[i + 1]
<1> DEFINE T == {s[i] : i \in 1..Len(s)}
           r == Tail(s)
<1>1. s \in Seq(T)
  BY DEF Queue
<1> HIDE DEF T
<1>2. /\ r \in Seq(T) /\ Head(s) = s[1] /\ Len(s) \in Nat \ {0} /\ Len(r) = Len(s) - 1
      /\ \A i \in 1..Len(r) : i + 1 \in 1..Len(s) /\ r[i] = s[i + 1]
  BY <1>1, Rest
<1> HIDE DEF r
<1>3. Queue(r)
  BY <1>2, ListIsQueue
<1>4. 1 \in 1..Len(s)
  BY <1>2
<1> QED BY <1>2, <1>3, <1>4 DEF r

-----------------------------------------------------------------------------
(* The invariant: the world is a game of its engine, whose kills are the   *)
(* dead; what is queued can be executed; the counters are in their bounds. *)

WorldOK(e, w) == IF e = "crispy" THEN CrispyGame(w) ELSE FakeGame(w)

Phases ==
  IF engine = "crispy" THEN {"publish", "commands", "inputs", "engine"}
  ELSE {"inputs", "commands", "advance", "publish"}

QueuesOK ==
  /\ Queue(commands) /\ \A k \in 1..Len(commands) : QueuedOK(commands[k])
  /\ Queue(inputs) /\ \A k \in 1..Len(inputs) : inputs[k].action \in Moves \cup {"aim", "weapon"}

CountersOK ==
  /\ engine \in {"crispy", "fake"} /\ phase \in Phases
  /\ sent \in 0..MaxSent /\ ticks \in 0..MaxTicks
  /\ executed \in Nat /\ buried \in Int /\ epoch \in Nat /\ view.epoch \in -1..epoch

LastOK == last.ok \in BOOLEAN /\ last.hit \in 0..world.nextUid

Sound ==
  /\ CountersOK /\ QueuesOK
  /\ WorldOK(engine, world) /\ KillsAddUp /\ LastOK

(* The dead of either world are counted. *)
LEMMA DeadOfWorlds ==
  /\ \A w : CrispyGame(w) => /\ Dead("crispy", w) = DeadOf(w.mobjs)
                            /\ Cardinality(DeadOf(w.mobjs)) \in Nat
                            /\ w.kills \in Nat /\ w.nextUid \in Nat
  /\ \A w : FakeGame(w) => /\ Dead("fake", w) = DeadOf(w.enemies)
                          /\ Cardinality(DeadOf(w.enemies)) \in Nat
                          /\ w.kills \in Nat /\ w.nextUid \in Nat
<1>1. ASSUME NEW w, CrispyGame(w)
      PROVE  /\ Dead("crispy", w) = DeadOf(w.mobjs)
             /\ Cardinality(DeadOf(w.mobjs)) \in Nat
             /\ w.kills \in Nat /\ w.nextUid \in Nat
  <2>1. /\ Len(w.mobjs) \in Nat /\ Numbered(w.mobjs, w.nextUid)
        /\ w.kills \in Nat /\ w.nextUid \in Nat
    BY <1>1 DEF CrispyGame
  <2>2. Dead("crispy", w) = DeadOf(w.mobjs)
    BY DEF Dead, DeadOf
  <2> QED BY <2>1, <2>2, DeadCount
<1>2. ASSUME NEW w, FakeGame(w)
      PROVE  /\ Dead("fake", w) = DeadOf(w.enemies)
             /\ Cardinality(DeadOf(w.enemies)) \in Nat
             /\ w.kills \in Nat /\ w.nextUid \in Nat
  <2>1. /\ Len(w.enemies) \in Nat /\ Numbered(w.enemies, w.nextUid)
        /\ w.kills \in Nat /\ w.nextUid \in Nat
    BY <1>2 DEF FakeGame
  <2>2. Dead("fake", w) = DeadOf(w.enemies)
    BY DEF Dead, DeadOf
  <2> QED BY <2>1, <2>2, DeadCount
<1> QED BY <1>1, <1>2

LEMMA FakeStarts ==
  FakeGame(FakeStart) /\ FakeStart.kills = 0 /\ DeadOf(FakeStart.enemies) = {}
<1> DEFINE n == IF EnemyCapacity < 3 THEN EnemyCapacity ELSE 3
           name == <<"DoomImp", "ShotgunGuy", "Demon">>
           s == FakeStart.enemies
<1>1. n \in 0..3 /\ {i \in 1..3 : i <= EnemyCapacity} = 1..n
  BY PlayAssumption
<1>2. s = [i \in 1..n |-> FakeEnemy(i, 99 + i, name[i])]
  <2>1. s = [i \in {i \in 1..3 : i <= EnemyCapacity} |-> FakeEnemy(i, 99 + i, name[i])]
    BY DEF FakeStart
  <2> HIDE DEF s, name
  <2> QED BY <1>1, <2>1
<1>3. \A i \in 1..3 : name[i] \in Names
  BY DEF Names, AllEnemies
<1>4. /\ FakeStart.nextUid = 4 /\ FakeStart.nextId = 103 /\ FakeStart.kills = 0
      /\ FakeStart.paused = FALSE /\ FakeFields(FakeStart)
  BY DEF FakeStart, FakeFields
<1>5. FakePlayer(FakeStart.player)
  <2>1. FakeStart.player = [hp |-> 100, god |-> FALSE, ammo |-> <<50, 8, 0, 0>>, weapon |-> 2,
                            x |-> 512, y |-> 256, angle |-> 360]
    BY DEF FakeStart
  <2> QED BY <2>1, PlayAssumption, WidthsAssumption DEF FakePlayer
<1> HIDE DEF n, name, s
<1>6. \A i \in 1..n : /\ s[i] \in Foe /\ s[i].uid = i /\ s[i].hp \in Int /\ s[i].hp > 0
  <2> SUFFICES ASSUME NEW i \in 1..n
               PROVE  s[i] \in Foe /\ s[i].uid = i /\ s[i].hp \in Int /\ s[i].hp > 0
    OBVIOUS
  <2>1. s[i] = FakeEnemy(i, 99 + i, name[i]) /\ i \in Nat /\ 99 + i \in Nat /\ name[i] \in Names
    BY <1>1, <1>2, <1>3
  <2>2. EnemyHealth(name[i]) \in Nat /\ EnemyHealth(name[i]) > 0
    BY DEF EnemyHealth
  <2> QED BY <2>1, <2>2 DEF FakeEnemy, Foe
<1>7. s \in Seq(Foe) /\ Len(s) = n
  <2>1. s \in [1..n -> Foe] /\ n \in Nat
    BY <1>1, <1>2, <1>6
  <2> QED BY <2>1
<1>8. Numbered(s, 4)
  BY <1>1, <1>6, <1>7 DEF Numbered
<1>9. DeadOf(s) = {}
  <2>1. \A i \in 1..Len(s) : ~(s[i].hp <= 0)
    BY <1>6, <1>7
  <2> QED BY <2>1 DEF DeadOf
<1>10. FakeGame(FakeStart)
  <2>1. FakeStart.enemies \in Seq(Foe) /\ Numbered(FakeStart.enemies, FakeStart.nextUid)
    BY <1>4, <1>7, <1>8 DEF s
  <2>2. /\ FakeStart.nextUid \in Nat \ {0} /\ FakeStart.nextId \in Nat
        /\ FakeStart.kills \in Nat
    BY <1>4
  <2>3. FakeStart.paused \in BOOLEAN
    BY <1>4
  <2>4. Inventory(FakeStart.inventory)
    <3> DEFINE carried == <<[name |-> "Bullets", amount |-> 50], [name |-> "Shells", amount |-> 8]>>
    <3>1. FakeStart.inventory = carried
      BY DEF FakeStart
    <3>2. "Shells" \in Names
      BY DEF Names, AllItems
    <3>3. carried \in Seq(Slot) /\ Len(carried) = 2
      BY <3>2 DEF Slot
    <3>4. \A i, j \in 1..2 : carried[i].name = carried[j].name => i = j
      OBVIOUS
    <3> QED BY <3>1, <3>3, <3>4 DEF Inventory
  <2> QED BY <1>4, <1>5, <2>1, <2>2, <2>3, <2>4 DEF FakeGame
<1> QED BY <1>4, <1>9, <1>10 DEF s

LEMMA CrispyStarts ==
  ASSUME NEW w \in {CrispyStart, Loaded(CrispyStart, 3)}
  PROVE  CrispyGame(w) /\ w.kills = 0 /\ DeadOf(w.mobjs) = {}
<1>1. /\ CrispyFields(CrispyStart) /\ CrispyStart.nextUid = 1 /\ CrispyStart.mobjs = << >>
      /\ CrispyStart.kills = 0 /\ CrispyStart.player = NewPlayer
  BY DEF CrispyFields, CrispyStart
<1>2. CrispyStart.paused \in BOOLEAN
  BY DEF CrispyStart
<1>3. CrispyFresh(CrispyStart, Loaded(CrispyStart, 3))
  BY <1>1, CrispyLoads
<1>4. CrispyPlayer(NewPlayer)
  <2>1. Loaded(CrispyStart, 3).player = NewPlayer
    BY <1>1 DEF Loaded, CrispyFields
  <2> QED BY <1>3, <2>1 DEF CrispyFresh, CrispyGame
<1>5. CrispyGame(CrispyStart) /\ DeadOf(CrispyStart.mobjs) = {}
  <2>1. /\ CrispyStart.mobjs \in Seq(Thing) /\ Len(CrispyStart.mobjs) = 0
        /\ CrispyStart.nextUid \in Nat \ {0} /\ CrispyStart.kills \in Nat
    BY <1>1
  <2>2. Numbered(CrispyStart.mobjs, CrispyStart.nextUid) /\ DeadOf(CrispyStart.mobjs) = {}
    BY <2>1 DEF Numbered, DeadOf
  <2> QED BY <1>1, <1>2, <1>4, <2>1, <2>2 DEF CrispyGame
<1> QED BY <1>1, <1>3, <1>5 DEF CrispyFresh

LEMMA SoundInit == Init => Sound
<1> SUFFICES ASSUME Init PROVE Sound
  OBVIOUS
<1>1. CountersOK
  BY PlayAssumption DEF Init, CountersOK, Phases
<1>2. QueuesOK
  <2>1. Queue(commands) /\ Queue(inputs) /\ Len(commands) = 0 /\ Len(inputs) = 0
    BY EmptyQueue DEF Init
  <2> QED BY <2>1 DEF QueuesOK
<1>3. /\ WorldOK(engine, world) /\ world.kills = 0 /\ Dead(engine, world) = {}
      /\ world.nextUid \in Nat
  <2>1. CASE engine = "crispy"
    <3>1. world \in {CrispyStart, Loaded(CrispyStart, 3)}
      BY <2>1 DEF Init
    <3> QED BY <2>1, <3>1, CrispyStarts, DeadOfWorlds DEF WorldOK
  <2>2. CASE engine = "fake"
    <3>1. world = FakeStart
      BY <2>2 DEF Init
    <3> QED BY <2>2, <3>1, FakeStarts, DeadOfWorlds DEF WorldOK
  <2> QED BY <1>1, <2>1, <2>2 DEF CountersOK
<1>4. KillsAddUp
  BY <1>3, FS_EmptySet DEF KillsAddUp, Init
<1>5. LastOK
  BY <1>3 DEF LastOK, Init, NoExecution
<1> QED BY <1>1, <1>2, <1>3, <1>4, <1>5 DEF Sound

-----------------------------------------------------------------------------
(* The steps.                                                              *)

(* What a step makes of the world. *)
WorldSound ==
  /\ WorldOK(engine', world') /\ KillsAddUp'
  /\ world.nextUid \in Nat /\ world'.nextUid \in Nat /\ world.nextUid <= world'.nextUid

LEMMA CrispyStep ==
  ASSUME Sound, engine = "crispy", UNCHANGED <<engine, buried>>, CrispyAfter(world, world')
  PROVE  WorldSound
<1>1. CrispyGame(world) /\ CrispyGame(world')
  BY DEF Sound, WorldOK, CrispyAfter
<1>2. /\ Dead("crispy", world) = DeadOf(world.mobjs) /\ Cardinality(DeadOf(world.mobjs)) \in Nat
      /\ Dead("crispy", world') = DeadOf(world'.mobjs) /\ Cardinality(DeadOf(world'.mobjs)) \in Nat
      /\ world.kills \in Nat /\ world'.kills \in Nat
      /\ world.nextUid \in Nat /\ world'.nextUid \in Nat
  BY <1>1, DeadOfWorlds
<1>3. /\ buried \in Int /\ world.kills + buried = Cardinality(DeadOf(world.mobjs))
  BY <1>2 DEF Sound, CountersOK, KillsAddUp
<1>4. world'.kills + buried = Cardinality(DeadOf(world'.mobjs))
  BY <1>2, <1>3 DEF CrispyAfter
<1>5. KillsAddUp'
  BY <1>2, <1>4 DEF KillsAddUp
<1> QED BY <1>1, <1>2, <1>5 DEF WorldSound, WorldOK, CrispyAfter

LEMMA FakeStep ==
  ASSUME Sound, engine = "fake", UNCHANGED <<engine, buried>>,
         NEW ids, FakeAfter(world, world', ids), FakeCounts(world, world')
  PROVE  WorldSound
<1>1. FakeGame(world) /\ FakeGame(world')
  BY DEF Sound, WorldOK, FakeAfter
<1>2. /\ Dead("fake", world) = DeadOf(world.enemies) /\ Cardinality(DeadOf(world.enemies)) \in Nat
      /\ Dead("fake", world') = DeadOf(world'.enemies)
      /\ Cardinality(DeadOf(world'.enemies)) \in Nat
      /\ world.kills \in Nat /\ world'.kills \in Nat
      /\ world.nextUid \in Nat /\ world'.nextUid \in Nat
  BY <1>1, DeadOfWorlds
<1>3. /\ buried \in Int /\ world.kills + buried = Cardinality(DeadOf(world.enemies))
  BY <1>2 DEF Sound, CountersOK, KillsAddUp
<1>4. world'.kills + buried = Cardinality(DeadOf(world'.enemies))
  <2>1. world'.kills + Cardinality(DeadOf(world.enemies))
          = world.kills + Cardinality(DeadOf(world'.enemies))
    BY DEF FakeCounts
  <2> QED BY <1>2, <1>3, <2>1
<1>5. KillsAddUp'
  BY <1>2, <1>4 DEF KillsAddUp
<1> QED BY <1>1, <1>2, <1>5 DEF WorldSound, WorldOK, FakeAfter

(* An execution: what the command at the head of the queue can lead to. *)
LEMMA Executes ==
  ASSUME Sound, Command
  PROVE  /\ Queue(commands) /\ commands # << >> /\ Head(commands) = commands[1]
         /\ 1 \in 1..Len(commands) /\ QueuedOK(Head(commands)) /\ CommandOK(Head(commands).command)
         /\ \E o \in Execute(world, Head(commands).command) :
              /\ world' = o.world /\ buried' = Buried(Head(commands), world) /\ engine' = engine
              /\ last'.ok = o.ok /\ last'.hit = o.hit
              /\ engine = "crispy" => CrispyOutcome(world, o)
              /\ engine = "fake" => FakeOutcome(world, Head(commands).command, o)
<1> DEFINE entry == Head(commands)
<1>1. PICK o \in Execute(world, entry.command) :
        /\ world' = o.world /\ buried' = Buried(entry, world) /\ engine' = engine
        /\ last'.ok = o.ok /\ last'.hit = o.hit
  BY DEF Command
<1>2. /\ Queue(commands) /\ commands # << >> /\ Head(commands) = commands[1]
      /\ 1 \in 1..Len(commands) /\ QueuedOK(entry) /\ CommandOK(entry.command)
  <2>1. Queue(commands) /\ commands # << >>
    BY DEF Sound, QueuesOK, Command
  <2>2. Head(commands) = commands[1] /\ 1 \in 1..Len(commands)
    BY <2>1, Dequeued
  <2>3. QueuedOK(entry)
    BY <2>2 DEF Sound, QueuesOK
  <2> QED BY <2>1, <2>2, <2>3 DEF QueuedOK, Stands
<1> HIDE DEF entry
<1>3. engine = "crispy" => CrispyOutcome(world, o)
  BY <1>1, <1>2, CrispyTypes DEF Execute, Sound, WorldOK
<1>4. engine = "fake" => FakeOutcome(world, entry.command, o)
  BY <1>1, <1>2, FakeTypes DEF Execute, Sound, WorldOK
<1> QED BY <1>1, <1>2, <1>3, <1>4 DEF entry

LEMMA CommandStep ==
  ASSUME Sound, Command
  PROVE  /\ WorldSound /\ LastOK' /\ buried' \in Int
         /\ ~last'.ok => world' = IF engine = "fake" THEN [world EXCEPT !.nextId = world'.nextId]
                                  ELSE [world EXCEPT !.nextUid = world'.nextUid]
<1> DEFINE entry == Head(commands)
<1>1. PICK o \in Execute(world, entry.command) :
        /\ world' = o.world /\ buried' = Buried(entry, world) /\ engine' = engine
        /\ last'.ok = o.ok /\ last'.hit = o.hit
        /\ engine = "crispy" => CrispyOutcome(world, o)
        /\ engine = "fake" => FakeOutcome(world, entry.command, o)
  BY Executes
<1> HIDE DEF entry
<1>3. CASE engine = "crispy"
  <2>1. CrispyOutcome(world, o)
    BY <1>1, <1>3
  <2>2. buried' = buried
    BY <1>1, <1>3 DEF Buried
  <2>3. WorldSound
    BY <1>1, <1>3, <2>1, <2>2, CrispyStep DEF CrispyOutcome
  <2>4. /\ o.ok \in BOOLEAN /\ o.hit \in 0..world.nextUid
        /\ ~o.ok => o.world = [world EXCEPT !.nextUid = o.world.nextUid]
    BY <2>1 DEF CrispyOutcome
  <2>5. LastOK'
    BY <1>1, <2>3, <2>4 DEF LastOK, WorldSound
  <2> QED BY <1>1, <1>3, <2>2, <2>3, <2>4, <2>5 DEF Sound, CountersOK
<1>4. CASE engine = "fake"
  <2>1. FakeOutcome(world, entry.command, o)
    BY <1>1, <1>4
  <2>2. /\ o.ok \in BOOLEAN /\ o.hit \in 0..world.nextUid
        /\ ~o.ok => o.world = [world EXCEPT !.nextId = o.world.nextId]
        /\ FakeAfter(world, world', FakeIds(world, entry.command))
    BY <1>1, <2>1 DEF FakeOutcome
  <2>3. WorldSound /\ buried' \in Int
    <3>1. CASE entry.command.type # "change_level"
      <4>1. buried' = buried
        BY <1>1, <3>1 DEF Buried
      <4>2. FakeCounts(world, world')
        BY <1>1, <2>1, <3>1 DEF FakeOutcome
      <4> QED BY <1>1, <1>4, <2>2, <4>1, <4>2, FakeStep DEF Sound, CountersOK
    <3>2. CASE entry.command.type = "change_level"
      <4>1. /\ FakeGame(world) /\ FakeGame(world') /\ world.nextUid <= world'.nextUid
            /\ world'.kills = 0 /\ world'.enemies = world.enemies
        BY <1>1, <1>4, <2>1, <2>2, <3>2 DEF FakeOutcome, FakeAfter, Sound, WorldOK
      <4>2. /\ Dead("fake", world) = DeadOf(world.enemies)
            /\ Cardinality(DeadOf(world.enemies)) \in Nat
            /\ Dead("fake", world') = DeadOf(world'.enemies)
            /\ world.nextUid \in Nat /\ world'.nextUid \in Nat
        BY <4>1, DeadOfWorlds
      <4>3. buried' = Cardinality(DeadOf(world.enemies))
        BY <1>1, <1>4, <3>2, <4>2 DEF Buried
      <4>4. KillsAddUp'
        BY <1>1, <1>4, <4>1, <4>2, <4>3 DEF KillsAddUp
      <4> QED BY <1>1, <1>4, <4>1, <4>2, <4>3, <4>4 DEF WorldSound, WorldOK
    <3> QED BY <3>1, <3>2
  <2>4. LastOK'
    BY <1>1, <2>2, <2>3 DEF LastOK, WorldSound
  <2> QED BY <1>1, <1>4, <2>2, <2>3, <2>4
<1> QED BY <1>3, <1>4 DEF Sound, CountersOK

(* All but the executions, and the steps in which the engine numbers its enemies
   anew. *)
LEMMA GentleStep ==
  ASSUME Sound, Next, ~Command, ~LoadLevel, ~Vanish, ~Respawn
  PROVE  /\ UNCHANGED <<engine, buried, epoch>>
         /\ engine = "crispy" => CrispyAfter(world, world')
         /\ engine = "fake" => FakeAfter(world, world', {}) /\ FakeCounts(world, world')
<1>0. engine \in {"crispy", "fake"} /\ phase \in Phases /\ WorldOK(engine, world)
  BY DEF Sound, CountersOK
<1>1. UNCHANGED <<engine, buried, epoch>>
  BY DEF Next, SendRequest, SendTarget, SendInput, Publish, CommandsDone, Input, InputsDone,
         Advance, RunLevel, LeaveLevel, EngineStep, NotTheGame, TickVars
<1>2. CASE world' = world
  <2>1. CASE engine = "crispy"
    BY <1>0, <1>2, <2>1, <1>1, CrispyUntouched DEF WorldOK, CrispyGame
  <2>2. CASE engine = "fake"
    <3>1. FakeAfter(world, world, {}) /\ FakeCounts(world, world)
      BY <1>0, <2>2, Unnumbered, FakeUntouched DEF WorldOK, FakeGame
    <3> QED BY <1>1, <1>2, <2>2, <3>1
  <2> QED BY <1>0, <2>1, <2>2
<1>3. CASE Input
  <2>1. CASE engine = "crispy"
    <3>1. PICK o \in CrispyInput(world, Head(inputs)) : world' = o.world
      BY <1>3, <2>1 DEF Input
    <3> QED BY <1>0, <1>1, <2>1, <3>1, CrispyInputs DEF WorldOK
  <2>2. CASE engine = "fake"
    <3>1. PICK o \in FakeInput(world, Head(inputs)) : world' = o.world
      BY <1>3, <2>2 DEF Input
    <3>2. inputs # << >> /\ Queue(inputs)
      BY <1>3 DEF Input, Sound, QueuesOK
    <3>3. Head(inputs) = inputs[1] /\ 1 \in 1..Len(inputs)
      BY <3>2, Dequeued
    <3>4. Head(inputs).action \in Moves \cup {"aim", "weapon"}
      BY <3>3 DEF Sound, QueuesOK
    <3> QED BY <1>0, <1>1, <2>2, <3>1, <3>4, FakeInputs DEF WorldOK
  <2> QED BY <1>0, <2>1, <2>2
<1>4. CASE Advance
  <2>1. engine = "fake" /\ world' \in FakeAdvance(world)
    BY <1>0, <1>4 DEF Advance, Phases
  <2> QED BY <1>0, <1>1, <2>1, FakeAdvances DEF WorldOK
<1>5. CASE RunLevel \/ LeaveLevel
  <2>1. engine = "crispy" /\ CrispyGame(world)
    BY <1>0, <1>5 DEF RunLevel, LeaveLevel, EngineStep, Phases, WorldOK
  <2> QED BY <1>1, <1>5, <2>1, CrispyRuns, CrispyLeaves
<1>6. CASE SendRequest \/ SendTarget \/ SendInput \/ Publish \/ CommandsDone \/ InputsDone
  <2>1. world' = world
    BY <1>6 DEF SendRequest, SendTarget, SendInput, Publish, CommandsDone, InputsDone, NotTheGame
  <2> QED BY <1>2, <2>1
<1> QED BY <1>3, <1>4, <1>5, <1>6 DEF Next

LEMMA WorldStep ==
  ASSUME Sound, Next, ~Command
  PROVE  WorldSound /\ buried' \in Int
<1>0. engine \in {"crispy", "fake"} /\ phase \in Phases /\ WorldOK(engine, world) /\ buried \in Int
  BY DEF Sound, CountersOK
<1>1. CASE ~LoadLevel /\ ~Vanish /\ ~Respawn
  BY <1>0, <1>1, GentleStep, CrispyStep, FakeStep
<1>2. CASE LoadLevel
  <2>1. engine = "crispy" /\ engine' = engine /\ buried' = 0 /\ CrispyGame(world)
    BY <1>0, <1>2 DEF LoadLevel, EngineStep, Phases, WorldOK
  <2>2. CrispyFresh(world, world')
    <3>1. CASE \E skill : world' = Loaded(world, skill)
      BY <2>1, <3>1, CrispyLoads DEF CrispyGame
    <3>2. CASE \E skill : world' = [Loaded(world, skill) EXCEPT !.player = world.player]
      <4>1. PICK skill : world' = [Loaded(world, skill) EXCEPT !.player = world.player]
        BY <3>2
      <4> DEFINE v == Loaded(world, skill)
      <4>2. CrispyFresh(world, v)
        BY <2>1, CrispyLoads DEF CrispyGame
      <4> HIDE DEF v
      <4>3. /\ CrispyFields(world') /\ world'.mobjs = v.mobjs /\ world'.nextUid = v.nextUid
            /\ world'.kills = v.kills /\ world'.paused = v.paused
            /\ world'.player = world.player
        BY <4>1, <4>2 DEF v, CrispyFresh, CrispyGame, CrispyFields
      <4>4. CrispyPlayer(world.player)
        BY <2>1 DEF CrispyGame
      <4>5. CrispyGame(world')
        BY <4>2, <4>3, <4>4 DEF CrispyFresh, CrispyGame
      <4> QED BY <4>2, <4>3, <4>5 DEF CrispyFresh
    <3> QED BY <1>2, <3>1, <3>2 DEF LoadLevel, Loads
  <2>3. CrispyGame(world') /\ world.nextUid <= world'.nextUid /\ world'.kills = 0
        /\ DeadOf(world'.mobjs) = {}
    BY <2>2 DEF CrispyFresh
  <2>4. /\ Dead("crispy", world') = DeadOf(world'.mobjs)
        /\ world.nextUid \in Nat /\ world'.nextUid \in Nat
    BY <2>1, <2>3, DeadOfWorlds
  <2>5. KillsAddUp'
    BY <2>1, <2>3, <2>4, FS_EmptySet DEF KillsAddUp
  <2> QED BY <2>1, <2>3, <2>4, <2>5 DEF WorldSound, WorldOK
<1>3. CASE Vanish \/ Respawn
  <2>1. engine = "crispy" /\ engine' = engine /\ buried' = buried - 1 /\ CrispyGame(world)
    BY <1>0, <1>3 DEF Vanish, Respawn, EngineStep, Phases, WorldOK
  <2>2. /\ CrispyGame(world') /\ world.nextUid <= world'.nextUid /\ world'.kills = world.kills
        /\ Cardinality(DeadOf(world'.mobjs)) = Cardinality(DeadOf(world.mobjs)) - 1
    BY <1>3, <2>1, CrispyBuries
  <2>3. /\ Dead("crispy", world) = DeadOf(world.mobjs)
        /\ Dead("crispy", world') = DeadOf(world'.mobjs)
        /\ Cardinality(DeadOf(world.mobjs)) \in Nat
        /\ world.kills \in Nat /\ world.nextUid \in Nat /\ world'.nextUid \in Nat
    BY <2>1, <2>2, DeadOfWorlds
  <2>4. world.kills + buried = Cardinality(DeadOf(world.mobjs))
    BY <2>1, <2>3 DEF Sound, KillsAddUp
  <2>5. world'.kills + buried' = Cardinality(DeadOf(world'.mobjs))
    BY <1>0, <2>1, <2>2, <2>3, <2>4
  <2>6. KillsAddUp'
    BY <2>1, <2>3, <2>5 DEF KillsAddUp
  <2> QED BY <1>0, <2>1, <2>2, <2>3, <2>6 DEF WorldSound, WorldOK
<1> QED BY <1>1, <1>2, <1>3

LEMMA PushOK ==
  ASSUME Sound, NEW call, NEW meant, NEW alone, Push(call, meant, alone),
         call \in Requests \/ \E id : call \in {KillCall(id), HurtCall(id)}
  PROVE  Queue(commands') /\ \A k \in 1..Len(commands') : QueuedOK(commands'[k])
<1>1. PICK c \in SingleCall(AllAllowed, Published, call[1], call[2]) :
        commands' = Append(commands, [command |-> c, call |-> call, meant |-> meant,
                                      alone |-> alone, epoch |-> view.epoch])
  BY DEF Push
<1>2. Stands(c, call)
  <2>1. CommandOK(c)
    BY RequestsAreOK, TargetsAreOK
  <2>2. c \in ParseCommand(call[1], call[2])
    BY DEF SingleCall, Queued
  <2>3. call \in Requests \/ call[1] \in {"kill_entity", "damage_entity"}
    BY DEF KillCall, HurtCall
  <2> QED BY <2>1, <2>2, <2>3 DEF Stands
<1> DEFINE entry == [command |-> c, call |-> call, meant |-> meant, alone |-> alone,
                     epoch |-> view.epoch]
<1>3. QueuedOK(entry)
  BY <1>2 DEF QueuedOK
<1> HIDE DEF entry
<1>4. /\ Queue(Append(commands, entry))
      /\ \A i \in 1..Len(Append(commands, entry)) :
           Append(commands, entry)[i] = IF i <= Len(commands) THEN commands[i] ELSE entry
      /\ Len(commands) \in Nat /\ Len(Append(commands, entry)) = Len(commands) + 1
  BY Enqueued DEF Sound, QueuesOK
<1>5. \A k \in 1..Len(commands) : QueuedOK(commands[k])
  BY DEF Sound, QueuesOK
<1>6. commands' = Append(commands, entry)
  BY <1>1 DEF entry
<1> QED BY <1>3, <1>4, <1>5, <1>6

LEMMA QueueStep ==
  ASSUME Sound, Next
  PROVE  QueuesOK'
<1>0. /\ Queue(commands) /\ \A k \in 1..Len(commands) : QueuedOK(commands[k])
      /\ Queue(inputs)
      /\ \A k \in 1..Len(inputs) : inputs[k].action \in Moves \cup {"aim", "weapon"}
  BY DEF Sound, QueuesOK
<1>1. CASE UNCHANGED <<commands, inputs>>
  BY <1>0, <1>1 DEF QueuesOK
<1>2. CASE SendRequest \/ SendTarget
  <2>1. inputs' = inputs
    BY <1>2 DEF SendRequest, SendTarget
  <2>2. \E call, meant, alone :
          /\ Push(call, meant, alone)
          /\ call \in Requests \/ \E id : call \in {KillCall(id), HurtCall(id)}
    <3>1. CASE SendRequest
      BY <3>1 DEF SendRequest
    <3>2. CASE SendTarget
      BY <3>2 DEF SendTarget, KillCall, HurtCall
    <3> QED BY <1>2, <3>1, <3>2
  <2> QED BY <1>0, <2>1, <2>2, PushOK DEF QueuesOK
<1>3. CASE SendInput
  <2>0. PICK args \in InputCalls : \E c \in ParsePlayerInput(args) : inputs' = Append(inputs, c)
    BY <1>3 DEF SendInput
  <2>1. PICK c \in ParsePlayerInput(args) : inputs' = Append(inputs, c)
    BY <2>0
  <2>2. c.action \in Moves \cup {"aim", "weapon"}
    BY DEF ParsePlayerInput
  <2>3. /\ Queue(Append(inputs, c)) /\ Len(inputs) \in Nat
        /\ Len(Append(inputs, c)) = Len(inputs) + 1
        /\ \A i \in 1..Len(Append(inputs, c)) :
             Append(inputs, c)[i] = IF i <= Len(inputs) THEN inputs[i] ELSE c
    BY <1>0, Enqueued
  <2>4. commands' = commands
    BY <1>3 DEF SendInput
  <2>5. \A k \in 1..Len(inputs') : inputs'[k].action \in Moves \cup {"aim", "weapon"}
    BY <1>0, <2>1, <2>2, <2>3
  <2> QED BY <1>0, <2>1, <2>3, <2>4, <2>5 DEF QueuesOK
<1>4. CASE Command
  <2>1. commands # << >> /\ commands' = Tail(commands) /\ inputs' = inputs
    BY <1>4 DEF Command
  <2>2. /\ Queue(Tail(commands))
        /\ \A i \in 1..Len(Tail(commands)) :
             i + 1 \in 1..Len(commands) /\ Tail(commands)[i] = commands[i + 1]
    BY <1>0, <2>1, Dequeued
  <2>3. \A k \in 1..Len(commands') : QueuedOK(commands'[k])
    BY <1>0, <2>1, <2>2
  <2> QED BY <1>0, <2>1, <2>2, <2>3 DEF QueuesOK
<1>5. CASE Input
  <2>1. inputs # << >> /\ inputs' = Tail(inputs) /\ commands' = commands
    BY <1>5 DEF Input
  <2>2. /\ Queue(Tail(inputs))
        /\ \A i \in 1..Len(Tail(inputs)) :
             i + 1 \in 1..Len(inputs) /\ Tail(inputs)[i] = inputs[i + 1]
    BY <1>0, <2>1, Dequeued
  <2>3. \A k \in 1..Len(inputs') : inputs'[k].action \in Moves \cup {"aim", "weapon"}
    BY <1>0, <2>1, <2>2
  <2> QED BY <1>0, <2>1, <2>2, <2>3 DEF QueuesOK
<1>6. CASE \/ Publish \/ CommandsDone \/ InputsDone \/ Advance
           \/ LoadLevel \/ RunLevel \/ Vanish \/ Respawn \/ LeaveLevel
  <2>1. UNCHANGED <<commands, inputs>>
    BY <1>6 DEF Publish, CommandsDone, InputsDone, Advance, LoadLevel, RunLevel, Vanish,
                Respawn, LeaveLevel, EngineStep, agentVars
  <2> QED BY <1>1, <2>1
<1> QED BY <1>2, <1>3, <1>4, <1>5, <1>6 DEF Next

LEMMA CounterStep ==
  ASSUME Sound, Next, buried' \in Int
  PROVE  CountersOK'
<1>0. /\ engine \in {"crispy", "fake"} /\ phase \in Phases
      /\ sent \in 0..MaxSent /\ ticks \in 0..MaxTicks
      /\ executed \in Nat /\ epoch \in Nat /\ view.epoch \in -1..epoch
      /\ MaxSent \in Nat /\ MaxTicks \in Nat
  BY PlayAssumption DEF Sound, CountersOK
<1>1. CASE SendRequest \/ SendTarget \/ SendInput
  <2>1. /\ UNCHANGED <<engine, view, phase, ticks, executed, epoch>>
        /\ sent < MaxSent /\ sent' = sent + 1
    BY <1>1 DEF SendRequest, SendTarget, SendInput, Sends, NotTheGame
  <2> QED BY <1>0, <2>1 DEF CountersOK, Phases
<1>2. CASE Publish
  <2>1. /\ UNCHANGED <<engine, sent, executed, epoch>>
        /\ view'.epoch = epoch
        /\ phase' = IF engine = "crispy" THEN "commands" ELSE "inputs"
        /\ ticks' = IF engine = "fake" THEN ticks + 1 ELSE ticks
        /\ engine = "fake" => ticks < MaxTicks
    BY <1>2 DEF Publish, agentVars
  <2> QED BY <1>0, <2>1 DEF CountersOK, Phases
<1>3. CASE Command
  <2>1. /\ UNCHANGED <<engine, view, phase, epoch, sent, ticks>> /\ executed' = executed + 1
    BY <1>3 DEF Command
  <2> QED BY <1>0, <2>1 DEF CountersOK, Phases
<1>4. CASE CommandsDone \/ Input \/ InputsDone \/ Advance
  <2>1. /\ UNCHANGED <<engine, view, epoch, sent, ticks, executed>>
        /\ phase' \in Phases
    BY <1>4 DEF CommandsDone, Input, InputsDone, Advance, TickVars, agentVars, Phases
  <2> QED BY <1>0, <2>1 DEF CountersOK, Phases
<1>5. CASE LoadLevel \/ RunLevel \/ Vanish \/ Respawn \/ LeaveLevel
  <2>1. /\ UNCHANGED <<engine, view, sent, executed>>
        /\ phase' = "publish" /\ ticks' = ticks + 1 /\ ticks < MaxTicks
        /\ epoch' \in {epoch, epoch + 1}
    BY <1>5 DEF LoadLevel, RunLevel, Vanish, Respawn, LeaveLevel, EngineStep, agentVars
  <2> QED BY <1>0, <2>1 DEF CountersOK, Phases
<1> QED BY <1>1, <1>2, <1>3, <1>4, <1>5 DEF Next

LEMMA OnlyCommandsExecute ==
  ASSUME Next, ~Command PROVE UNCHANGED <<last, executed>>
  BY DEF Next, SendRequest, SendTarget, SendInput, Publish, CommandsDone, Input, InputsDone,
         Advance, LoadLevel, RunLevel, Vanish, Respawn, LeaveLevel, EngineStep, NotTheGame, TickVars

LEMMA SoundNext == Sound /\ [Next]_vars => Sound'
<1> SUFFICES ASSUME Sound, [Next]_vars PROVE Sound'
  OBVIOUS
<1>1. CASE UNCHANGED vars
  BY <1>1 DEF vars, Sound, CountersOK, Phases, QueuesOK, WorldOK, KillsAddUp, LastOK, Queue
<1>2. CASE Next
  <2>1. WorldSound /\ buried' \in Int
    BY <1>2, WorldStep, CommandStep
  <2>2. LastOK'
    <3>1. CASE Command
      BY <3>1, CommandStep
    <3>2. CASE last' = last
      BY <2>1, <3>2 DEF Sound, LastOK, WorldSound
    <3>3. ~Command => last' = last
      BY <1>2, OnlyCommandsExecute
    <3> QED BY <3>1, <3>2, <3>3
  <2>3. WorldOK(engine, world)'
    BY <2>1 DEF WorldSound
  <2> QED BY <1>2, <2>1, <2>2, <2>3, QueueStep, CounterStep DEF Sound, WorldSound
<1> QED BY <1>1, <1>2

LEMMA Soundness == Spec => []Sound
BY SoundInit, SoundNext, PTL DEF Spec

(* The kill counter and the dead agree at every moment, whatever killed. *)
THEOREM KillsAreTheDead == Spec => []KillsAddUp
<1>1. Sound => KillsAddUp
  BY DEF Sound
<1> QED BY <1>1, Soundness, PTL

(* A failed execution leaves nothing behind, also of a thing that was in the level
   already; only a number is used up. *)
THEOREM FailuresLeaveNoTrace == Spec => FailureLeavesNoTrace
<1>1. Sound /\ [Next]_vars =>
        [executed' > executed /\ ~last'.ok =>
           world' = (IF engine = "fake" THEN [world EXCEPT !.nextId = world'.nextId]
                     ELSE [world EXCEPT !.nextUid = world'.nextUid])]_vars
  <2> SUFFICES ASSUME Sound, Next, executed' > executed, ~last'.ok
               PROVE  world' = (IF engine = "fake" THEN [world EXCEPT !.nextId = world'.nextId]
                                ELSE [world EXCEPT !.nextUid = world'.nextUid])
    OBVIOUS
  <2>1. executed \in Nat
    BY DEF Sound, CountersOK
  <2>2. Command
    BY <2>1, OnlyCommandsExecute
  <2> QED BY <2>2, CommandStep
<1> QED BY <1>1, Soundness, PTL DEF Spec, FailureLeavesNoTrace

(* Types, and the limits of the player: health in its range, no more ammunition
   than can be carried. *)
THEOREM PlayTypes == Spec => []TypeOK
<1>1. Sound => TypeOK
  <2> SUFFICES ASSUME Sound PROVE TypeOK
    OBVIOUS
  <2>1. CASE engine = "crispy"
    <3>1. /\ CrispyGame(world) /\ CrispyPlayer(world.player)
          /\ world.paused \in BOOLEAN /\ world.kills \in Nat
      BY <2>1 DEF Sound, WorldOK, CrispyGame
    <3>2. \A k \in DOMAIN world.player.ammo : world.player.ammo[k] \in 0..world.player.maxammo[k]
      BY <3>1 DEF CrispyPlayer
    <3>3. \A i \in 1..Len(UidsOf(engine, world)) :
            UidsOf(engine, world)[i] \in 1..(world.nextUid - 1)
      <4>1. Len(world.mobjs) \in Nat /\ Numbered(world.mobjs, world.nextUid)
        BY <3>1 DEF CrispyGame
      <4>2. UidsOf(engine, world) = [i \in 1..Len(world.mobjs) |-> world.mobjs[i].uid]
        BY <2>1 DEF UidsOf
      <4>3. Len(UidsOf(engine, world)) = Len(world.mobjs)
        BY <4>1, <4>2
      <4> QED BY <4>1, <4>2, <4>3 DEF Numbered
    <3>4. world.player.hp \in 0..MaxHealth
      BY <3>1 DEF CrispyPlayer
    <3>5. phase \in {"publish", "commands", "inputs", "engine", "advance"}
      BY DEF Sound, CountersOK, Phases
    <3> QED BY <2>1, <3>1, <3>2, <3>3, <3>4, <3>5 DEF TypeOK, Sound, CountersOK, LastOK
  <2>2. CASE engine = "fake"
    <3>1. /\ FakeGame(world) /\ FakePlayer(world.player)
          /\ world.paused \in BOOLEAN /\ world.kills \in Nat
      BY <2>2 DEF Sound, WorldOK, FakeGame
    <3>2. \A k \in DOMAIN world.player.ammo : world.player.ammo[k] \in 0..MaxAmmo[k]
      BY <3>1 DEF FakePlayer, MaxAmmo
    <3>3. \A i \in 1..Len(UidsOf(engine, world)) :
            UidsOf(engine, world)[i] \in 1..(world.nextUid - 1)
      <4>1. Len(world.enemies) \in Nat /\ Numbered(world.enemies, world.nextUid)
        BY <3>1 DEF FakeGame
      <4>2. UidsOf(engine, world) = [i \in 1..Len(world.enemies) |-> world.enemies[i].uid]
        BY <2>2 DEF UidsOf
      <4>3. Len(UidsOf(engine, world)) = Len(world.enemies)
        BY <4>1, <4>2
      <4> QED BY <4>1, <4>2, <4>3 DEF Numbered
    <3>4. world.player.hp \in 0..MaxHealth
      BY <3>1 DEF FakePlayer
    <3>5. phase \in {"publish", "commands", "inputs", "engine", "advance"}
      BY DEF Sound, CountersOK, Phases
    <3> QED BY <2>2, <3>1, <3>2, <3>3, <3>4, <3>5 DEF TypeOK, Sound, CountersOK, LastOK
  <2> QED BY <2>1, <2>2 DEF Sound, CountersOK
<1> QED BY <1>1, Soundness, PTL

-----------------------------------------------------------------------------
(* What is reported as done is done.                                       *)

(* What a command asks for is what its call asked for. *)
LEMMA CallsMean ==
  ASSUME NEW c, NEW call, Stands(c, call)
  PROVE  /\ c.type = call[1] /\ c.type \in CommandTypes
         /\ c.type = "spawn_entity" => /\ c.entity_class = Asked(call, "entity_class")[2]
                                       /\ c.tid \in OptionalInt(call[2], "tid", 0)
         /\ c.type = "change_level" => c.map_name = Asked(call, "map_name")[2]
         /\ c.type = "give_item" => /\ c.item_class = Asked(call, "item_class")[2]
                                    /\ c.amount \in OptionalInt(call[2], "amount", 1)
         /\ c.type = "set_player_health" =>
              /\ Number(Asked(call, "health")) \div 2 \in Int
              /\ c.health = Clamp(Number(Asked(call, "health")) \div 2, 1, MaxHealth)
         /\ c.type = "set_player_position" =>
              /\ c.x = Single(call[2]["x"]) /\ c.y = Single(call[2]["y"])
              /\ c.angle = Angle(call[2])
         /\ c.type = "pause_game" => c.paused = Asked(call, "paused")[2]
<1> DEFINE args == call[2]
<1>1. c \in ParseCommand(call[1], args)
  BY DEF Stands
<1>2. call[1] \in CommandTypes
  BY RequestsAssumption DEF Stands, CommandTypes
<1> HIDE DEF args
<1>3. CASE call[1] = "spawn_entity"
  <2>1. c \in ParseSpawn(args)
    BY <1>1, <1>3 DEF ParseCommand
  <2>2. /\ c.type = "spawn_entity" /\ c.entity_class = args["entity_class"][2]
        /\ c.tid \in OptionalInt(args, "tid", 0)
    BY <2>1 DEF ParseSpawn
  <2> QED BY <1>3, <2>2 DEF Asked, args, CommandTypes
<1>4. CASE call[1] = "change_level"
  <2>1. c \in ParseChangeLevel(args)
    BY <1>1, <1>4 DEF ParseCommand
  <2>2. c.type = "change_level" /\ c.map_name = args["map_name"][2]
    BY <2>1 DEF ParseChangeLevel
  <2> QED BY <1>4, <2>2 DEF Asked, args, CommandTypes
<1>5. CASE call[1] = "give_item"
  <2>1. c \in ParseGiveItem(args)
    BY <1>1, <1>5 DEF ParseCommand
  <2>2. /\ c.type = "give_item" /\ c.item_class = args["item_class"][2]
        /\ c.amount \in OptionalInt(args, "amount", 1)
    BY <2>1 DEF ParseGiveItem
  <2> QED BY <1>5, <2>2 DEF Asked, args, CommandTypes
<1>6. CASE call[1] = "set_player_health"
  <2>1. c \in ParseSetHealth(args)
    BY <1>1, <1>6 DEF ParseCommand
  <2>2. /\ c.type = "set_player_health" /\ "health" \in DOMAIN args /\ IsNumber(args["health"])
        /\ c.health = Clamp(Number(args["health"]) \div 2, 1, MaxHealth)
    BY <2>1 DEF ParseSetHealth, Required
  <2>3. call \in Requests
    BY <1>6 DEF Stands
  <2>4. args["health"][2] \in Int
    BY <2>2, <2>3, RequestsAssumption DEF args
  <2>5. Number(args["health"]) \in Int
    BY <2>4, WidthsAssumption DEF Number, AsDouble
  <2>6. Number(args["health"]) \div 2 \in Int
    BY <2>5
  <2> QED BY <1>6, <2>2, <2>6 DEF Asked, args, CommandTypes
<1>7. CASE call[1] = "pause_game"
  <2>1. c \in ParsePause(args)
    BY <1>1, <1>7 DEF ParseCommand
  <2>2. c.type = "pause_game" /\ c.paused = args["paused"][2]
    BY <2>1 DEF ParsePause
  <2> QED BY <1>7, <2>2 DEF Asked, args, CommandTypes
<1>8. CASE call[1] = "set_player_position"
  <2>1. c \in ParseSetPosition(args)
    BY <1>1, <1>8 DEF ParseCommand
  <2>2. /\ c.type = "set_player_position"
        /\ c.x = Single(args["x"]) /\ c.y = Single(args["y"]) /\ c.angle = Angle(args)
    BY <2>1 DEF ParseSetPosition
  <2> QED BY <1>8, <2>2 DEF args, CommandTypes
<1>9. CASE call[1] \in {"execute_console", "damage_entity", "kill_entity"}
  <2>1. c.type = call[1]
    BY <1>1, <1>9 DEF ParseCommand, ParseConsole, ParseDamage, ParseKill, KillTarget
  <2> QED BY <1>2, <1>9, <2>1
<1> QED BY <1>2, <1>3, <1>4, <1>5, <1>6, <1>7, <1>8, <1>9 DEF CommandTypes

(* A number that a single holds becomes itself, as a coordinate and as an angle. *)
LEMMA ExactStays ==
  ASSUME NEW v, Number(v) \in -FloatExact..FloatExact
  PROVE  /\ Single(v) = Number(v)
         /\ Number(v) \in -FixedLimit..(FixedLimit - 1) => ToFixed(Single(v)) = {Number(v)}
         /\ Number(v) \in 0..(2 * FullTurn - 1) => ToAngle(Single(v)) = {Number(v)}
<1> DEFINE n == Number(v)
<1>1. /\ FloatExact \in Nat /\ FloatMax \in Nat /\ FloatStep \in Nat \ {0}
      /\ FloatExact <= FloatMax /\ FixedLimit \in Nat /\ FullTurn \in Nat /\ n \in Int
  BY WidthsAssumption, PlayAssumption
<1>2. Single(v) = n
  BY <1>1 DEF Single, AsFloat
<1> HIDE DEF n
<1>3. n \notin {-Infinity, Infinity}
  BY <1>1 DEF Infinity, n
<1>4. ASSUME n \in -FixedLimit..(FixedLimit - 1) PROVE ToFixed(n) = {n}
  <2>1. n # FixedLimit /\ Clamp(n, -FixedLimit, FixedLimit - 1) = n
    BY <1>1, <1>4 DEF Clamp
  <2> QED BY <1>3, <2>1 DEF ToFixed
<1>5. ASSUME n \in 0..(2 * FullTurn - 1) PROVE ToAngle(n) = {n}
  <2>1. n # 2 * FullTurn /\ Clamp(n, 0, 2 * FullTurn - 1) = n
    BY <1>1, <1>5 DEF Clamp
  <2> QED BY <1>3, <2>1 DEF ToAngle
<1> QED BY <1>2, <1>4, <1>5 DEF n

(* P_DamageMobj hurts one thing, and kills it if there is enough of it. *)
LEMMA CrispyHurtsOne ==
  ASSUME engine = "crispy", NEW w, CrispyGame(w), NEW i \in 1..Len(w.mobjs),
         NEW damage \in Nat \ {0}, NEW v, v = DamageMobj(w, w.mobjs[i].uid, damage)
  PROVE  /\ HurtAlone(w.mobjs[i].uid, w, v)
         /\ w.mobjs[i].hp <= damage => \E m \in Dead("crispy", v) : m.uid = w.mobjs[i].uid
<1> DEFINE s == w.mobjs
           uid == s[i].uid
           r == [j \in 1..Len(s) |-> IF s[j].uid # uid \/ s[j].hp <= 0 THEN s[j]
                                     ELSE [s[j] EXCEPT !.hp = s[j].hp - damage]]
<1>1. /\ s \in Seq(Thing) /\ Len(s) \in Nat /\ \A j \in 1..Len(s) : s[j] \in Thing
  BY DEF CrispyGame
<1>2. v.mobjs = r
  BY DEF DamageMobj, CrispyGame, CrispyFields
<1>3. Len(r) = Len(s)
  BY <1>1
<1>4. s[i].hp \in Int
  BY <1>1 DEF Thing, Points
<1>5. /\ r[i] = (IF s[i].hp <= 0 THEN s[i] ELSE [s[i] EXCEPT !.hp = s[i].hp - damage])
      /\ \A j \in 1..Len(s) : s[j].uid # uid => r[j] = s[j]
  OBVIOUS
<1>6. r[i].uid = uid /\ r[i].hp = (IF s[i].hp <= 0 THEN s[i].hp ELSE s[i].hp - damage)
  BY <1>1, <1>5 DEF Thing
<1> HIDE DEF r
<1>7. HurtAlone(uid, w, v)
  <2>1. s[i].hp <= 0 \/ r[i].hp < s[i].hp
    BY <1>4, <1>6
  <2> QED BY <1>2, <1>5, <2>1 DEF HurtAlone, Beings
<1>8. ASSUME s[i].hp <= damage PROVE \E m \in Dead("crispy", v) : m.uid = uid
  <2>1. r[i].hp <= 0
    BY <1>4, <1>6, <1>8
  <2>2. r[i] \in Dead("crispy", v)
    BY <1>2, <1>3, <2>1 DEF Dead
  <2> QED BY <1>6, <2>2
<1> QED BY <1>7, <1>8

(* apply_damage_to_enemy does the same. *)
LEMMA FakeHurtsOne ==
  ASSUME engine = "fake", NEW w, FakeGame(w), NEW i \in 1..Len(w.enemies),
         NEW damage \in Int, w.enemies[i].hp > 0 => damage > 0,
         NEW v, v = FakeDamaged(w, i, damage)
  PROVE  /\ HurtAlone(w.enemies[i].uid, w, v)
         /\ w.enemies[i].hp <= damage => \E m \in Dead("fake", v) : m.uid = w.enemies[i].uid
<1> DEFINE s == w.enemies
           uid == s[i].uid
           left == s[i].hp - damage
           hp == IF left > 0 THEN left ELSE 0
           m == [s[i] EXCEPT !.hp = hp]
           r == [s EXCEPT ![i] = m]
<1>1. /\ s \in Seq(Foe) /\ Len(s) \in Nat /\ Numbered(s, w.nextUid)
      /\ \A j \in 1..Len(s) : s[j] \in Foe
  BY DEF FakeGame
<1>2. s[i].hp \in Int
  BY <1>1 DEF Foe
<1>3. CASE s[i].hp <= 0
  <2>1. v = w
    BY <1>2, <1>3 DEF FakeDamaged, Alive
  <2>2. HurtAlone(uid, w, v)
    BY <1>3, <2>1 DEF HurtAlone, Beings
  <2>3. s[i] \in Dead("fake", v)
    BY <1>3, <2>1 DEF Dead
  <2> QED BY <2>2, <2>3
<1>4. CASE s[i].hp > 0
  <2>1. v.enemies = r
    <3>1. ~(damage <= 0 \/ i \notin Alive(w))
      BY <1>4 DEF Alive
    <3>2. v = [w EXCEPT !.enemies[i].hp = hp, !.kills = IF left <= 0 THEN @ + 1 ELSE @]
      BY <3>1 DEF FakeDamaged
    <3> QED BY <3>2 DEF FakeGame, FakeFields
  <2>2. hp \in Int /\ hp < s[i].hp /\ (s[i].hp <= damage => hp <= 0)
    BY <1>2, <1>4
  <2> HIDE DEF hp
  <2>3. m.hp = hp /\ m.uid = uid /\ m \in Foe
    BY <1>1, <2>2 DEF Foe
  <2> HIDE DEF m
  <2>4. Len(r) = Len(s) /\ r[i] = m /\ \A j \in 1..Len(s) : j # i => r[j] = s[j]
    BY <1>1, <2>3
  <2> HIDE DEF r
  <2>5. HurtAlone(uid, w, v)
    BY <2>1, <2>2, <2>3, <2>4 DEF HurtAlone, Beings
  <2>6. s[i].hp <= damage => m \in Dead("fake", v)
    BY <2>1, <2>2, <2>3, <2>4 DEF Dead
  <2> QED BY <2>3, <2>5, <2>6
<1> QED BY <1>2, <1>3, <1>4

(* A gift takes nothing from the player of Crispy Doom, but that a green armor replaces
   what there is. *)
Gained(item, q, p) ==
  /\ p.hp >= q.hp /\ q.owned \subseteq p.owned
  /\ item # "GreenArmor" => p.armor >= q.armor
  /\ \A k \in DOMAIN q.ammo : p.ammo[k] >= q.ammo[k]
  /\ item \in AllWeapons \cup {"Backpack"} => item \in p.owned
  /\ item = "Backpack" => p.maxammo["clip"] = 400

LEMMA GivingGains ==
  ASSUME NEW q, CrispyPlayer(q), NEW item, NEW amount \in Nat
  PROVE  Gained(item, q, Given(q, item, amount))
<1>0. /\ PlayerFields(q) /\ q.hp \in 0..MaxHealth /\ q.armor \in 0..200 /\ MaxHealth \in Nat \ {0}
      /\ q.ammo \in [Kinds -> Nat] /\ q.maxammo \in [Kinds -> Nat]
      /\ \A k \in Kinds : q.ammo[k] <= q.maxammo[k]
      /\ q.maxammo["clip"] = (IF "Backpack" \in q.owned THEN 400 ELSE 200)
  BY WidthsAssumption DEF CrispyPlayer
<1>a. /\ DOMAIN AmmoGiven = {"Clip", "BoxOfBullets", "Shells", "BoxOfShells", "RocketAmmo",
                             "BoxOfRockets", "Cell", "CellPack"}
      /\ DOMAIN HealthGiven = {"Stimpack", "Medikit", "SoulSphere"}
  BY DEF AmmoGiven, HealthGiven
<1>b. \A k \in Kinds : q.ammo[k] \in Nat /\ q.maxammo[k] \in Nat /\ q.ammo[k] >= q.ammo[k]
  BY <1>0
<1>1. CASE item \in DOMAIN AmmoGiven
  <2> DEFINE k == AmmoGiven[item][1]
             n == AmmoGiven[item][2]
             left == Clamp(q.ammo[k] + n * amount, 0, q.maxammo[k])
             p == [q EXCEPT !.ammo[k] = left]
  <2>1. Given(q, item, amount) = p
    BY <1>1, <1>a DEF Given
  <2>2. k \in Kinds /\ n \in Nat
    BY <1>1, Gifts
  <2> HIDE DEF k, n
  <2>3. n * amount \in Nat
    BY <2>2
  <2>4. left >= q.ammo[k]
    <3> DEFINE sum == q.ammo[k] + n * amount
    <3>1. sum \in Nat /\ sum >= q.ammo[k] /\ q.ammo[k] <= q.maxammo[k]
      BY <1>0, <1>b, <2>2, <2>3
    <3> HIDE DEF sum
    <3>2. Clamp(sum, 0, q.maxammo[k]) >= q.ammo[k]
      BY <1>b, <2>2, <3>1 DEF Clamp
    <3> QED BY <3>2 DEF sum
  <2> HIDE DEF left
  <2>5. /\ p.hp = q.hp /\ p.armor = q.armor /\ p.owned = q.owned /\ p.ammo = [q.ammo EXCEPT ![k] = left]
    BY <1>0 DEF PlayerFields
  <2>6. item \notin AllWeapons \cup {"Backpack"}
    BY <1>1, <1>a DEF AllWeapons
  <2> HIDE DEF p
  <2>7. \A j \in Kinds : p.ammo[j] >= q.ammo[j]
    BY <1>0, <1>b, <2>2, <2>4, <2>5
  <2>8. DOMAIN q.ammo = Kinds
    BY <1>0
  <2> QED BY <1>0, <2>1, <2>5, <2>6, <2>7, <2>8 DEF Gained
<1>2. CASE item \notin DOMAIN AmmoGiven /\ item \in DOMAIN HealthGiven
  <2> DEFINE hp == Clamp(q.hp + HealthGiven[item] * amount, 1, MaxHealth)
             p == [q EXCEPT !.hp = hp]
  <2>1. Given(q, item, amount) = p
    BY <1>2, <1>a DEF Given
  <2>2. HealthGiven[item] \in Nat
    BY <1>2 DEF HealthGiven
  <2>3. hp >= q.hp
    <3> DEFINE more == HealthGiven[item] * amount
    <3>1. more \in Nat
      BY <2>2
    <3> HIDE DEF more
    <3>2. Clamp(q.hp + more, 1, MaxHealth) >= q.hp
      BY <1>0, <3>1 DEF Clamp
    <3> QED BY <3>2 DEF more
  <2> HIDE DEF hp
  <2>4. p.hp = hp /\ p.armor = q.armor /\ p.owned = q.owned /\ p.ammo = q.ammo
    BY <1>0 DEF PlayerFields
  <2>5. item \notin AllWeapons \cup {"Backpack"}
    BY <1>2, <1>a DEF AllWeapons
  <2> HIDE DEF p
  <2> QED BY <1>0, <1>b, <2>1, <2>3, <2>4, <2>5 DEF Gained
<1>3. CASE item \notin DOMAIN AmmoGiven /\ item \notin DOMAIN HealthGiven
  <2>1. CASE item = "MegaSphere"
    <3> DEFINE p == [q EXCEPT !.hp = MaxHealth, !.armor = 200]
    <3>1. Given(q, item, amount) = p
      BY <1>3, <2>1 DEF Given
    <3>2. p.hp = MaxHealth /\ p.armor = 200 /\ p.owned = q.owned /\ p.ammo = q.ammo
      BY <1>0 DEF PlayerFields
    <3>3. item \notin AllWeapons \cup {"Backpack"}
      BY <2>1 DEF AllWeapons
    <3> HIDE DEF p
    <3> QED BY <1>0, <1>b, <3>1, <3>2, <3>3 DEF Gained
  <2>2. CASE item \in {"GreenArmor", "BlueArmor", "MegaArmor"}
    <3> DEFINE a == IF item = "GreenArmor" THEN 100 ELSE 200
    <3> DEFINE r == [q EXCEPT !.armor = a]
    <3>2. r.hp = q.hp /\ r.armor = a /\ r.owned = q.owned /\ r.ammo = q.ammo
      BY <1>0 DEF PlayerFields
    <3>3. item \notin AllWeapons \cup {"Backpack"}
      BY <2>2 DEF AllWeapons
    <3>4. Given(q, item, amount) = r
      BY <1>3, <2>2 DEF Given
    <3> HIDE DEF r
    <3>5. item # "GreenArmor" => r.armor >= q.armor
      BY <1>0, <3>2
    <3> QED BY <1>0, <1>b, <3>2, <3>3, <3>4, <3>5 DEF Gained
  <2>3. CASE item = "Backpack"
    <3>1. CASE "Backpack" \in q.owned
      <4>1. Given(q, item, amount) = q
        BY <1>3, <2>3, <3>1 DEF Given
      <4> QED BY <1>0, <1>b, <2>3, <3>1, <4>1 DEF Gained
    <3>2. CASE "Backpack" \notin q.owned
      <4> DEFINE more == [k \in DOMAIN q.maxammo |-> 2 * q.maxammo[k]]
                 p == [q EXCEPT !.maxammo = more, !.owned = q.owned \cup {item}]
      <4>1. Given(q, item, amount) = p
        BY <1>3, <2>3, <3>2 DEF Given
      <4>2. more["clip"] = 400
        BY <1>0, <3>2 DEF Kinds
      <4> HIDE DEF more
      <4>3. /\ p.hp = q.hp /\ p.armor = q.armor /\ p.owned = q.owned \cup {item}
            /\ p.ammo = q.ammo /\ p.maxammo = more
        BY <1>0 DEF PlayerFields
      <4> HIDE DEF p
      <4> QED BY <1>0, <1>b, <4>1, <4>2, <4>3 DEF Gained
    <3> QED BY <3>1, <3>2
  <2>4. CASE item \notin {"MegaSphere", "GreenArmor", "BlueArmor", "MegaArmor", "Backpack"}
    <3> DEFINE p == [q EXCEPT !.owned = q.owned \cup {item}]
    <3>1. Given(q, item, amount) = p
      BY <1>3, <2>4 DEF Given
    <3>2. p.hp = q.hp /\ p.armor = q.armor /\ p.owned = q.owned \cup {item} /\ p.ammo = q.ammo
      BY <1>0 DEF PlayerFields
    <3> HIDE DEF p
    <3> QED BY <1>0, <1>b, <2>4, <3>1, <3>2 DEF Gained
  <2> QED BY <2>1, <2>2, <2>3, <2>4
<1> QED BY <1>1, <1>2, <1>3

LEMMA PowerGains ==
  ASSUME NEW q, CrispyPlayer(q), NEW item
  PROVE  Gained(item, q, GivenPower(q, item))
<1> DEFINE g == Given(q, item, 1)
           p == [g EXCEPT !.hp = IF @ < 100 THEN 100 ELSE @, !.pending = "Fist"]
<1>1. CrispyPlayer(g) /\ Gained(item, q, g)
  BY GivenPlayer, GivingGains
<1> HIDE DEF g
<1>2. /\ p.hp = (IF g.hp < 100 THEN 100 ELSE g.hp)
      /\ p.armor = g.armor /\ p.owned = g.owned /\ p.ammo = g.ammo /\ p.maxammo = g.maxammo
  BY <1>1 DEF CrispyPlayer, PlayerFields
<1>3. g.hp \in Int /\ q.hp \in Int
  BY <1>1 DEF CrispyPlayer
<1> HIDE DEF p
<1>4. Gained(item, q, p)
  BY <1>1, <1>2, <1>3 DEF Gained
<1> QED BY <1>1, <1>4 DEF GivenPower, g, p

(* Health is what was asked for within its limits; a health of 1 is another matter. *)
LEMMA HealthIsSet ==
  ASSUME NEW asked \in Int, NEW c, c = Clamp(asked, 1, MaxHealth)
  PROVE  /\ engine = "crispy" /\ asked > 1 => HealthSet(asked, HealthPoints(c))
         /\ engine # "crispy" => HealthSet(asked, Clamp(c, 1, MaxHealth))
<1>1. MaxHealth \in Nat /\ 100 <= MaxHealth
  BY WidthsAssumption, PlayAssumption
<1>2. c \in 1..MaxHealth /\ (asked > 1 => c > 1)
  BY <1>1, WidthsAssumption DEF Clamp
<1>3. Clamp(c, 1, MaxHealth) = c
  BY <1>1, <1>2 DEF Clamp
<1>4. asked > 1 => HealthPoints(c) = c
  BY <1>1, <1>2 DEF HealthPoints, Clamp
<1> QED BY <1>3, <1>4 DEF HealthSet

(* A kill is a stroke at one of those the id names. *)
LEMMA WhoIsKilled ==
  ASSUME NEW w, NEW c, NEW o \in CrispyKill(w, c), o \notin Failed(w)
  PROVE  \E m \in FindEnemy(w, c.target_tid) : o \in Struck(w, {m}, Clamp(m.hp + 1024, 1, 32000))
BY DEF CrispyKill

LEMMA ListGrows ==
  ASSUME NEW T, NEW s \in Seq(T), NEW x
  PROVE  /\ Len(Append(s, x)) = Len(s) + 1 /\ Append(s, x)[Len(Append(s, x))] = x
         /\ \A i \in 1..Len(s) : Append(s, x)[i] = s[i]
<1>1. s \in Seq(T \cup {x}) /\ x \in T \cup {x}
  OBVIOUS
<1> QED BY <1>1, Appended

(* The player stands where the call asked for, if that is where the world puts it. *)
LEMMA StandsThere ==
  ASSUME NEW args, NEW p,
         p.x \in ToFixed(Single(args["x"])) \/ p.x = Single(args["x"]),
         p.y \in ToFixed(Single(args["y"])) \/ p.y = Single(args["y"]),
         p.angle \in ToAngle(Angle(args)) \/ p.angle = Angle(args)
  PROVE  Standing(args, p)
<1>1. ASSUME Number(args["x"]) \in -FloatExact..FloatExact,
             Number(args["x"]) \in -FixedLimit..(FixedLimit - 1)
      PROVE  p.x = Number(args["x"])
  BY <1>1, ExactStays
<1>2. ASSUME Number(args["y"]) \in -FloatExact..FloatExact,
             Number(args["y"]) \in -FixedLimit..(FixedLimit - 1)
      PROVE  p.y = Number(args["y"])
  BY <1>2, ExactStays
<1>3. ASSUME "angle" \in DOMAIN args, Number(args["angle"]) \in -FloatExact..FloatExact,
             Number(args["angle"]) \in 0..(2 * FullTurn - 1)
      PROVE  p.angle = Number(args["angle"])
  <2>1. Angle(args) = Single(args["angle"])
    BY <1>3 DEF Angle
  <2> QED BY <1>3, <2>1, ExactStays
<1> QED BY <1>1, <1>2, <1>3 DEF Standing

(* Either adapter does what it reports as done. *)
LEMMA CrispyKeepsWord ==
  ASSUME KillsSuffice, engine = "crispy", NEW w, CrispyGame(w), NEW c, NEW call, Stands(c, call),
         NEW o \in CrispyExecute(w, c), o.ok
  PROVE  Effect(call, o.hit, w, o.world)
<1>0. o \notin Failed(w)
  BY DEF Failed
<1>a. CommandOK(c) /\ call[1] = c.type /\ c.type \in CommandTypes
  BY CallsMean DEF Stands
<1>1. CASE c.type = "spawn_entity"
  <2> DEFINE m == Mobj(w.nextUid, MobjType(c.entity_class))
             v == SpawnMobj(w, MobjType(c.entity_class))
             u == RemoveMobj(v, Len(v.mobjs))
  <2>1. o \in CrispySpawn(w, c)
    BY <1>1 DEF CrispyExecute
  <2>2. o \in Done(v)
    <3>1. o \notin Failed(u)
      BY DEF Failed
    <3> QED BY <1>0, <2>1, <3>1 DEF CrispySpawn
  <2>3. o.world.mobjs = Append(w.mobjs, m)
    <3>1. o.world = v
      BY <2>2 DEF Done
    <3> HIDE DEF m
    <3>2. v.mobjs = Append(w.mobjs, m)
      BY DEF SpawnMobj, CrispyGame, CrispyFields, m
    <3> QED BY <3>1, <3>2
  <2>4. m.type = MobjType(c.entity_class) /\ w.mobjs \in Seq(Thing)
    BY DEF Mobj, CrispyGame
  <2> HIDE DEF m, v, u
  <2>5. SpawnedIn(c.entity_class, OptionalInt(call[2], "tid", 0), w, o.world)
    BY <2>3, <2>4, ListGrows DEF SpawnedIn, Beings
  <2> QED BY <1>1, <1>a, <2>5, CallsMean DEF Effect
<1>2. CASE c.type = "change_level"
  <2> DEFINE d == <<c.map_name, Clamp(c.skill_level, 1, 5)>>
  <2>1. o \in Done([w EXCEPT !.deferred = {d}])
    BY <1>0, <1>2 DEF CrispyExecute, CrispyChangeLevel
  <2>2. d[1] = c.map_name
    OBVIOUS
  <2> HIDE DEF d
  <2>3. o.world.deferred = {d}
    BY <2>1 DEF Done, CrispyGame, CrispyFields
  <2> QED BY <1>2, <1>a, <2>2, <2>3, CallsMean DEF Effect
<1>3. CASE c.type = "give_item"
  <2> DEFINE amount == Clamp(c.amount, 1, AmountMax)
             p == IF c.item_class \in PowerupItems \ {"ComputerMap"}
                  THEN GivenPower(w.player, c.item_class)
                  ELSE Given(w.player, c.item_class, amount)
  <2>1. o \in CrispyGive(w, c)
    BY <1>0, <1>3 DEF CrispyExecute
  <2>2. o \in Done([w EXCEPT !.player = p])
    BY <1>0, <2>1 DEF CrispyGive
  <2>3. amount \in Nat
    BY <1>3, <1>a, WidthsAssumption DEF Clamp, CommandOK
  <2> HIDE DEF amount
  <2>4. Gained(c.item_class, w.player, p)
    BY <2>3, GivingGains, PowerGains DEF CrispyGame
  <2> HIDE DEF p
  <2>5. o.world.player = p
    BY <2>2 DEF Done, CrispyGame, CrispyFields
  <2>6. GivenTo(c.item_class, OptionalInt(call[2], "amount", 1), w, o.world)
    BY <2>4, <2>5 DEF GivenTo, Gained
  <2> QED BY <1>3, <1>a, <2>6, CallsMean DEF Effect
<1>4. CASE c.type = "set_player_health"
  <2> DEFINE hp == HealthPoints(c.health)
             p == [w.player EXCEPT !.hp = hp]
  <2>1. o \in Done([w EXCEPT !.player = p])
    BY <1>0, <1>4 DEF CrispyExecute, CrispySetHealth
  <2> HIDE DEF hp
  <2>2. p.hp = hp
    <3>1. PlayerFields(w.player)
      BY DEF CrispyGame, CrispyPlayer
    <3> QED BY <3>1 DEF PlayerFields
  <2> HIDE DEF p
  <2>3. o.world.player.hp = hp
    BY <2>1, <2>2 DEF Done, CrispyGame, CrispyFields
  <2>4. LET asked == Number(Asked(call, "health")) \div 2
        IN  asked \in Int /\ (asked > 1 => HealthSet(asked, hp))
    BY <1>4, CallsMean, HealthIsSet DEF hp
  <2> QED BY <1>4, <1>a, <2>3, <2>4 DEF Effect
<1>5. CASE c.type = "pause_game"
  <2>1. o \in Done([w EXCEPT !.paused = c.paused])
    BY <1>5 DEF CrispyExecute
  <2>2. o.world.paused = c.paused
    BY <2>1 DEF Done, CrispyGame, CrispyFields
  <2> QED BY <1>5, <1>a, <2>2, CallsMean DEF Effect
<1>6. CASE c.type = "damage_entity"
  <2>1. o \in CrispyDamage(w, c)
    BY <1>6 DEF CrispyExecute
  <2>2. o \in Struck(w, FindEnemy(w, c.target_tid), c.damage) /\ c.damage \in Nat \ {0}
    BY <1>0, <1>6, <1>a, <2>1 DEF CrispyDamage, CommandOK
  <2>3. PICK i \in 1..Len(w.mobjs) :
          o = [ok |-> TRUE, hit |-> w.mobjs[i].uid,
               world |-> DamageMobj(w, w.mobjs[i].uid, c.damage)]
    BY <2>2 DEF Struck, FindEnemy, Counted
  <2>4. HurtAlone(o.hit, w, o.world)
    BY <2>2, <2>3, CrispyHurtsOne
  <2> QED BY <1>6, <1>a, <2>4 DEF Effect
<1>7. CASE c.type = "kill_entity"
  <2>1. o \in CrispyKill(w, c)
    BY <1>7 DEF CrispyExecute
  <2>2. PICK m \in FindEnemy(w, c.target_tid) : o \in Struck(w, {m}, Clamp(m.hp + 1024, 1, 32000))
    BY <1>0, <2>1, WhoIsKilled
  <2>3. PICK i \in 1..Len(w.mobjs) : m = w.mobjs[i]
    BY DEF FindEnemy, Counted
  <2> DEFINE damage == Clamp(w.mobjs[i].hp + 1024, 1, 32000)
  <2>4. o = [ok |-> TRUE, hit |-> w.mobjs[i].uid,
             world |-> DamageMobj(w, w.mobjs[i].uid, damage)]
    BY <2>2, <2>3 DEF Struck
  <2>5. w.mobjs[i].hp \in Int /\ w.mobjs[i].hp <= 32000
    <3>1. w.mobjs[i] \in Thing /\ SpawnHealth \in Nat
      BY PlayAssumption DEF CrispyGame
    <3>2. w.mobjs[i].hp \in Int /\ w.mobjs[i].hp <= SpawnHealth
      BY <3>1 DEF Thing, Points
    <3> QED BY <3>1, <3>2 DEF KillsSuffice
  <2>6. damage \in Nat \ {0} /\ w.mobjs[i].hp <= damage
    BY <2>5 DEF Clamp
  <2> HIDE DEF damage
  <2>7. HurtAlone(o.hit, w, o.world) /\ \E d \in Dead(engine, o.world) : d.uid = o.hit
    BY <2>4, <2>6, CrispyHurtsOne
  <2> QED BY <1>7, <1>a, <2>7 DEF Effect
<1>8. CASE c.type = "set_player_position"
  <2>1. PICK p \in Placements(w.player, c) : o \in Done([w EXCEPT !.player = p])
    BY <1>0, <1>8 DEF CrispyExecute, CrispySetPosition
  <2>2. o.world.player = p
    BY <2>1 DEF Done, CrispyGame, CrispyFields
  <2>3. PICK x \in ToFixed(c.x), y \in ToFixed(c.y), angle \in ToAngle(c.angle) :
          p = PutAt(w.player, x, y, angle)
    BY <2>1 DEF Placements
  <2>4. p.x = x /\ p.y = y /\ p.angle = angle
    <3>1. PlayerFields(w.player)
      BY DEF CrispyGame, CrispyPlayer
    <3> QED BY <2>3, <3>1 DEF PlayerFields, PutAt
  <2>5. Standing(call[2], p)
    BY <1>8, <2>4, CallsMean, StandsThere
  <2> QED BY <1>8, <1>a, <2>2, <2>5 DEF Effect
<1>9. CASE c.type = "execute_console"
  BY <1>9, <1>a DEF Effect
<1> QED BY <1>a, <1>1, <1>2, <1>3, <1>4, <1>5, <1>6, <1>7, <1>8, <1>9 DEF CommandTypes

LEMMA FakeKeepsWord ==
  ASSUME engine = "fake", NEW w, FakeGame(w), NEW c, NEW call, Stands(c, call),
         NEW o \in FakeExecute(w, c), o.ok
  PROVE  Effect(call, o.hit, w, o.world)
<1>0. o \notin Failed(w) /\ \A v : o \notin Failed(v)
  BY DEF Failed
<1>a. CommandOK(c) /\ call[1] = c.type /\ c.type \in CommandTypes
  BY CallsMean DEF Stands
<1>1. CASE c.type = "spawn_entity"
  <2> DEFINE id == IF c.tid > 0 THEN c.tid ELSE w.nextId
             next == IF c.tid > 0 THEN w.nextId ELSE w.nextId + 1
             numbered == [w EXCEPT !.nextId = next]
             m == FakeEnemy(w.nextUid, id, c.entity_class)
  <2>1. (IF c.tid > 0 THEN w ELSE [w EXCEPT !.nextId = @ + 1]) = numbered
    BY Unnumbered
  <2>2. o \in Done([numbered EXCEPT !.enemies = Append(@, m), !.nextUid = @ + 1])
    BY <1>0, <1>1, <2>1 DEF FakeExecute, FakeSpawn
  <2>3. m.type = c.entity_class /\ m.id = id
    BY DEF FakeEnemy
  <2>4. c.tid \in Nat /\ (c.tid # 0 => id = c.tid)
    BY <1>1, <1>a DEF CommandOK
  <2> HIDE DEF m, id, next
  <2>5. o.world.enemies = Append(w.enemies, m)
    <3> DEFINE v == [numbered EXCEPT !.enemies = Append(@, m), !.nextUid = @ + 1]
    <3>1. o.world = v
      BY <2>2 DEF Done
    <3>2. v.enemies = Append(w.enemies, m)
      BY DEF FakeGame, FakeFields
    <3> QED BY <3>1, <3>2
  <2>6. w.enemies \in Seq(Foe)
    BY DEF FakeGame
  <2>7. c.tid \in OptionalInt(call[2], "tid", 0)
    BY <1>1, CallsMean
  <2>8. SpawnedIn(c.entity_class, OptionalInt(call[2], "tid", 0), w, o.world)
    BY <2>3, <2>4, <2>5, <2>6, <2>7, ListGrows DEF SpawnedIn, Beings
  <2> QED BY <1>1, <1>a, <2>8, CallsMean DEF Effect
<1>2. CASE c.type = "change_level"
  <2> DEFINE v == [w EXCEPT !.level = c.map_name, !.kills = 0, !.used = 0]
  <2>1. o.world = v
    BY <1>2 DEF FakeExecute, FakeChangeLevel, Done
  <2>2. v.level = c.map_name
    BY DEF FakeGame, FakeFields
  <2> HIDE DEF v
  <2> QED BY <1>2, <1>a, <2>1, <2>2, CallsMean DEF Effect
<1>3. CASE c.type = "give_item"
  <2>1. c.item_class \in Names /\ c.amount \in Nat /\ c.amount > 0 /\ o \in FakeGive(w, c)
    BY <1>3, <1>a DEF FakeExecute, CommandOK
  <2>2. PICK new : /\ Inventory(new) /\ o \in Done([w EXCEPT !.inventory = new])
                   /\ \E i \in 1..Len(new) : GiftIn(i, c.item_class, c.amount, w.inventory, new)
    BY <1>0, <2>1, FakeGifts
  <2>3. o.world.inventory = new
    BY <2>2 DEF Done, FakeGame, FakeFields
  <2>4. c.amount \in OptionalInt(call[2], "amount", 1)
    BY <1>3, CallsMean
  <2>5. GivenTo(c.item_class, OptionalInt(call[2], "amount", 1), w, o.world)
    BY <2>2, <2>3, <2>4 DEF GivenTo, GiftIn, Inventory
  <2> QED BY <1>3, <1>a, <2>5, CallsMean DEF Effect
<1>4. CASE c.type = "set_player_health"
  <2> DEFINE hp == Clamp(c.health, 1, MaxHealth)
             p == [w.player EXCEPT !.hp = hp]
  <2>1. o \in Done([w EXCEPT !.player = p])
    BY <1>4 DEF FakeExecute
  <2> HIDE DEF hp
  <2>2. p.hp = hp
    BY DEF FakeGame, FakePlayer
  <2> HIDE DEF p
  <2>3. o.world.player.hp = hp
    BY <2>1, <2>2 DEF Done, FakeGame, FakeFields
  <2>4. HealthSet(Number(Asked(call, "health")) \div 2, hp)
    BY <1>4, CallsMean, HealthIsSet DEF hp
  <2> QED BY <1>4, <1>a, <2>3, <2>4 DEF Effect
<1>5. CASE c.type = "pause_game"
  <2>1. o \in Done([w EXCEPT !.paused = c.paused])
    BY <1>5 DEF FakeExecute
  <2>2. o.world.paused = c.paused
    BY <2>1 DEF Done, FakeGame, FakeFields
  <2> QED BY <1>5, <1>a, <2>2, CallsMean DEF Effect
<1>6. CASE c.type = "damage_entity"
  <2>1. o \in FakeTarget(w, c, LAMBDA e : c.damage)
    BY <1>6 DEF FakeExecute
  <2>2. PICK i \in FakeFind(w, c.target_tid) :
          o = [ok |-> TRUE, hit |-> w.enemies[i].uid, world |-> FakeDamaged(w, i, c.damage)]
    BY <1>0, <2>1 DEF FakeTarget, FakeStruck
  <2>3. i \in 1..Len(w.enemies) /\ c.damage \in Nat \ {0}
    BY <1>6, <1>a DEF FakeFind, FakeIndexes, CommandOK
  <2>4. HurtAlone(o.hit, w, o.world)
    BY <2>2, <2>3, FakeHurtsOne
  <2> QED BY <1>6, <1>a, <2>4 DEF Effect
<1>7. CASE c.type = "kill_entity"
  <2>1. o \in FakeTarget(w, c, LAMBDA e : e.hp)
    BY <1>7 DEF FakeExecute
  <2>2. PICK i \in FakeFind(w, c.target_tid) :
          o = [ok |-> TRUE, hit |-> w.enemies[i].uid,
               world |-> FakeDamaged(w, i, w.enemies[i].hp)]
    BY <1>0, <2>1 DEF FakeTarget, FakeStruck
  <2>3. i \in 1..Len(w.enemies) /\ w.enemies[i] \in Foe
    BY DEF FakeFind, FakeIndexes, FakeGame
  <2> DEFINE damage == w.enemies[i].hp
  <2>4. damage \in Int /\ w.enemies[i].hp <= damage /\ (w.enemies[i].hp > 0 => damage > 0)
    BY <2>3 DEF Foe
  <2>5. o.hit = w.enemies[i].uid /\ o.world = FakeDamaged(w, i, damage)
    BY <2>2
  <2> HIDE DEF damage
  <2>6. HurtAlone(o.hit, w, o.world) /\ \E d \in Dead(engine, o.world) : d.uid = o.hit
    BY <2>3, <2>4, <2>5, FakeHurtsOne
  <2> QED BY <1>7, <1>a, <2>6 DEF Effect
<1>8. CASE c.type = "set_player_position"
  <2> DEFINE p == [w.player EXCEPT !.x = c.x, !.y = c.y, !.angle = c.angle]
  <2>1. o \in Done([w EXCEPT !.player = p])
    BY <1>8 DEF FakeExecute
  <2>2. p.x = c.x /\ p.y = c.y /\ p.angle = c.angle
    BY DEF FakeGame, FakePlayer
  <2> HIDE DEF p
  <2>3. o.world.player = p
    BY <2>1 DEF Done, FakeGame, FakeFields
  <2>4. Standing(call[2], p)
    BY <1>8, <2>2, CallsMean, StandsThere
  <2> QED BY <1>8, <1>a, <2>3, <2>4 DEF Effect
<1>9. CASE c.type = "execute_console"
  BY <1>9, <1>a DEF Effect
<1> QED BY <1>a, <1>1, <1>2, <1>3, <1>4, <1>5, <1>6, <1>7, <1>8, <1>9 DEF CommandTypes

(* A command that is reported as executed has done what its call asked for, if no
   monster has more hit points than a kill takes. *)
THEOREM DoneIsDone ==
  ASSUME KillsSuffice PROVE Spec => DoneMeansDone
<1>1. Sound /\ [Next]_vars =>
        [executed' > executed /\ last'.ok => Effect(last'.call, last'.hit, world, world')]_vars
  <2> SUFFICES ASSUME Sound, Next, executed' > executed, last'.ok
               PROVE  Effect(last'.call, last'.hit, world, world')
    OBVIOUS
  <2>1. executed \in Nat
    BY DEF Sound, CountersOK
  <2>2. Command
    BY <2>1, OnlyCommandsExecute
  <2> DEFINE entry == Head(commands)
  <2>3. /\ QueuedOK(entry)
        /\ \E o \in Execute(world, entry.command) :
             world' = o.world /\ last'.ok = o.ok /\ last'.hit = o.hit
    BY <2>2, Executes
  <2>4. last'.call = entry.call
    BY <2>2 DEF Command
  <2> HIDE DEF entry
  <2>5. PICK o \in Execute(world, entry.command) :
          world' = o.world /\ last'.ok = o.ok /\ last'.hit = o.hit
    BY <2>3
  <2>6. o.ok /\ Stands(entry.command, entry.call)
    BY <2>3, <2>5 DEF QueuedOK
  <2>7. CASE engine = "crispy"
    <3>1. CrispyGame(world) /\ o \in CrispyExecute(world, entry.command)
      BY <2>7 DEF Sound, WorldOK, Execute
    <3> QED BY <2>4, <2>5, <2>6, <2>7, <3>1, CrispyKeepsWord
  <2>8. CASE engine = "fake"
    <3>1. FakeGame(world) /\ o \in FakeExecute(world, entry.command)
      BY <2>8 DEF Sound, WorldOK, Execute
    <3> QED BY <2>4, <2>5, <2>6, <2>8, <3>1, FakeKeepsWord
  <2> QED BY <2>7, <2>8 DEF Sound, CountersOK
<1> QED BY <1>1, Soundness, PTL DEF Spec, DoneMeansDone

-----------------------------------------------------------------------------
(* Which enemy an id names.                                                *)

(* In the world w of engine e, what is looked up under the id is the enemy uid. *)
Located(e, w, id, uid) ==
  IF e = "crispy" THEN \E i \in Counted(w) : EnemyId(w, i) = id /\ w.mobjs[i].uid = uid
  ELSE \E i \in FakeFind(w, id) : w.enemies[i].uid = uid

LEMMA EnemyIds ==
  ASSUME NEW w, CrispyGame(w)
  PROVE  /\ \A i \in Counted(w) : EnemyId(w, i) \in Nat
         /\ \A i, j \in Counted(w) : EnemyId(w, i) = EnemyId(w, j) => i = j
<1> DEFINE Before(i) == {j \in Counted(w) : j < i}
<1>1. IsFiniteSet(Counted(w)) /\ Counted(w) \subseteq Nat
  <2>1. Len(w.mobjs) \in Nat
    BY DEF CrispyGame
  <2>2. IsFiniteSet(1..Len(w.mobjs)) /\ Counted(w) \in SUBSET (1..Len(w.mobjs))
    BY <2>1, FS_Interval DEF Counted
  <2>3. IsFiniteSet(Counted(w))
    BY <2>2, FS_Subset
  <2> QED BY <2>1, <2>2, <2>3
<1>2. \A i : IsFiniteSet(Before(i)) /\ Cardinality(Before(i)) \in Nat
  <2> SUFFICES ASSUME NEW i PROVE IsFiniteSet(Before(i)) /\ Cardinality(Before(i)) \in Nat
    OBVIOUS
  <2>1. Before(i) \in SUBSET Counted(w)
    OBVIOUS
  <2> HIDE DEF Before
  <2>2. IsFiniteSet(Before(i))
    BY <1>1, <2>1, FS_Subset
  <2> QED BY <2>2, FS_CardinalityType
<1>3. ASSUME NEW i \in Counted(w), NEW j \in Counted(w), i < j
      PROVE  Cardinality(Before(i)) # Cardinality(Before(j))
  <2>1. i \notin Before(i) /\ Before(i) \cup {i} \in SUBSET Before(j)
    BY <1>1, <1>3
  <2> HIDE DEF Before
  <2>2. Cardinality(Before(i) \cup {i}) = Cardinality(Before(i)) + 1
    BY <1>2, <2>1, FS_AddElement
  <2>3. Cardinality(Before(i) \cup {i}) <= Cardinality(Before(j))
    BY <1>2, <2>1, FS_Subset
  <2> QED BY <1>2, <2>2, <2>3
<1>4. \A i : EnemyId(w, i) = Cardinality(Before(i))
  BY DEF EnemyId
<1> HIDE DEF Before
<1>5. \A i \in Counted(w) : EnemyId(w, i) \in Nat
  BY <1>2, <1>4
<1>6. ASSUME NEW i \in Counted(w), NEW j \in Counted(w), EnemyId(w, i) = EnemyId(w, j) PROVE i = j
  <2>1. i \in Nat /\ j \in Nat
    BY <1>1
  <2>2. ~(i < j) /\ ~(j < i)
    BY <1>3, <1>4, <1>6
  <2> QED BY <2>1, <2>2
<1> QED BY <1>5, <1>6

LEMMA CrispyIdsStay ==
  ASSUME NEW w, NEW v, CrispyGame(w), CrispyAfter(w, v), NEW i \in Counted(w)
  PROVE  i \in Counted(v) /\ EnemyId(v, i) = EnemyId(w, i) /\ v.mobjs[i].uid = w.mobjs[i].uid
<1>1. /\ Len(w.mobjs) \in Nat /\ Len(v.mobjs) \in Nat /\ Len(w.mobjs) <= Len(v.mobjs)
      /\ \A j \in 1..Len(w.mobjs) : /\ w.mobjs[j] \in Thing
                                   /\ v.mobjs[j] = [w.mobjs[j] EXCEPT !.hp = v.mobjs[j].hp]
  BY DEF CrispyGame, CrispyAfter, Continues
<1>2. \A j \in 1..Len(w.mobjs) : /\ v.mobjs[j].uid = w.mobjs[j].uid
                               /\ v.mobjs[j].type = w.mobjs[j].type
  BY <1>1 DEF Thing, Points
<1>3. i \in 1..Len(w.mobjs) /\ \A j \in 1..Len(w.mobjs) : j \in Counted(w) <=> j \in Counted(v)
  BY <1>1, <1>2 DEF Counted
<1>4. {j \in Counted(v) : j < i} = {j \in Counted(w) : j < i}
  <2>1. Counted(w) \subseteq 1..Len(w.mobjs) /\ Counted(v) \subseteq 1..Len(v.mobjs)
    BY DEF Counted
  <2>2. \A j \in 1..Len(v.mobjs) : j < i => j \in 1..Len(w.mobjs)
    BY <1>1, <1>3
  <2> QED BY <1>3, <2>1, <2>2
<1>5. EnemyId(v, i) = EnemyId(w, i)
  BY <1>4 DEF EnemyId
<1> QED BY <1>2, <1>3, <1>5

LEMMA FakeIdsStay ==
  ASSUME NEW w, NEW v, NEW ids, FakeGame(w), FakeAfter(w, v, ids)
  PROVE  /\ Len(w.enemies) \in Nat /\ Len(v.enemies) \in Nat /\ Len(w.enemies) <= Len(v.enemies)
         /\ \A i \in 1..Len(w.enemies) : /\ v.enemies[i].uid = w.enemies[i].uid
                                        /\ v.enemies[i].id = w.enemies[i].id
<1>1. /\ Len(w.enemies) \in Nat /\ Len(v.enemies) \in Nat /\ Len(w.enemies) <= Len(v.enemies)
      /\ \A j \in 1..Len(w.enemies) : /\ w.enemies[j] \in Foe
                                     /\ v.enemies[j] = [w.enemies[j] EXCEPT !.hp = v.enemies[j].hp]
  BY DEF FakeGame, FakeAfter, Continues
<1> QED BY <1>1 DEF Foe

(* The world a gentle step, or an execution, leaves behind. *)
Kept(e, w, v) ==
  IF e = "crispy" THEN CrispyAfter(w, v) ELSE \E ids : FakeAfter(w, v, ids)

LEMMA LocatedStays ==
  ASSUME NEW e, NEW w, NEW v, WorldOK(e, w), Kept(e, w, v),
         NEW id, NEW uid, Located(e, w, id, uid)
  PROVE  Located(e, v, id, uid)
<1>1. CASE e = "crispy"
  BY <1>1, CrispyIdsStay DEF Located, WorldOK, Kept
<1>2. CASE e # "crispy"
  <2>1. PICK i \in FakeFind(w, id) : w.enemies[i].uid = uid
    BY <1>2 DEF Located
  <2>2. PICK ids : FakeAfter(w, v, ids)
    BY <1>2 DEF Kept
  <2>3. /\ Len(w.enemies) \in Nat /\ Len(v.enemies) \in Nat /\ Len(w.enemies) <= Len(v.enemies)
        /\ \A j \in 1..Len(w.enemies) : /\ v.enemies[j].uid = w.enemies[j].uid
                                       /\ v.enemies[j].id = w.enemies[j].id
    BY <1>2, <2>2, FakeIdsStay DEF WorldOK
  <2>4. /\ i \in 1..Len(w.enemies) /\ w.enemies[i].id = id
        /\ \A j \in 1..Len(w.enemies) : w.enemies[j].id = id => i <= j
    BY DEF FakeFind, FakeIndexes
  <2>5. \A j \in 1..Len(v.enemies) : v.enemies[j].id = id => i <= j
    <3> SUFFICES ASSUME NEW j \in 1..Len(v.enemies), v.enemies[j].id = id PROVE i <= j
      OBVIOUS
    <3>1. CASE j <= Len(w.enemies)
      BY <2>3, <2>4, <3>1
    <3>2. CASE ~(j <= Len(w.enemies))
      BY <2>3, <2>4, <3>2
    <3> QED BY <3>1, <3>2
  <2>6. i \in FakeFind(v, id) /\ v.enemies[i].uid = uid
    <3>1. i \in 1..Len(v.enemies) /\ v.enemies[i].id = id
      BY <2>3, <2>4
    <3> QED BY <2>1, <2>3, <2>4, <2>5, <3>1 DEF FakeFind, FakeIndexes
  <2> QED BY <1>2, <2>6 DEF Located
<1> QED BY <1>1, <1>2

(* What the agent sees: the enemies of the world, under the ids they are found by. *)
Shows(e, rows, w) ==
  IF e = "crispy"
  THEN /\ DOMAIN rows \subseteq Counted(w)
       /\ \A i \in DOMAIN rows : /\ rows[i].id = EnemyId(w, i) /\ rows[i].uid = w.mobjs[i].uid
                                /\ rows[i].id < MaxEnemies
  ELSE /\ DOMAIN rows = 1..Len(rows) /\ Len(rows) \in Nat /\ Len(rows) <= Len(w.enemies)
       /\ \A i \in DOMAIN rows : rows[i].id = w.enemies[i].id /\ rows[i].uid = w.enemies[i].uid

LEMMA ShowsStays ==
  ASSUME NEW e, NEW w, NEW v, WorldOK(e, w), Kept(e, w, v), NEW rows, Shows(e, rows, w)
  PROVE  Shows(e, rows, v)
<1>1. CASE e = "crispy"
  BY <1>1, CrispyIdsStay DEF Shows, WorldOK, Kept
<1>2. CASE e # "crispy"
  <2>1. PICK ids : FakeAfter(w, v, ids)
    BY <1>2 DEF Kept
  <2> QED BY <1>2, <2>1, FakeIdsStay DEF Shows, WorldOK
<1> QED BY <1>1, <1>2

LEMMA Seen ==
  ASSUME NEW e, NEW w, WorldOK(e, w)
  PROVE  Shows(e, View(e, w).enemies, w)
<1>1. CASE e = "crispy" /\ w.inLevel
  <2> DEFINE places == {i \in Counted(w) : EnemyId(w, i) < MaxEnemies}
             rows == [i \in places |->
                        [id |-> EnemyId(w, i), uid |-> w.mobjs[i].uid,
                         hp |-> IF w.mobjs[i].hp > 0 THEN w.mobjs[i].hp ELSE 0]]
  <2>1. View(e, w).enemies = rows
    BY <1>1 DEF View, CrispyView, CrispyEnemies
  <2>2. DOMAIN rows = places
    OBVIOUS
  <2>3. \A i \in places : rows[i].id = EnemyId(w, i) /\ rows[i].uid = w.mobjs[i].uid
    OBVIOUS
  <2>4. places \subseteq Counted(w) /\ \A i \in places : EnemyId(w, i) < MaxEnemies
    OBVIOUS
  <2> HIDE DEF rows, places
  <2>5. Shows(e, rows, w)
    BY <1>1, <2>2, <2>3, <2>4 DEF Shows
  <2> QED BY <2>1, <2>5
<1>2. CASE e = "crispy" /\ ~w.inLevel
  <2>1. View(e, w).enemies = << >>
    BY <1>2 DEF View, CrispyView
  <2>2. DOMAIN << >> = {}
    OBVIOUS
  <2> QED BY <1>2, <2>1, <2>2 DEF Shows
<1>3. CASE e # "crispy"
  <2> DEFINE rows == [i \in 1..Len(w.enemies) |->
                        [id |-> w.enemies[i].id, uid |-> w.enemies[i].uid, hp |-> w.enemies[i].hp]]
  <2>1. View(e, w).enemies = rows
    BY <1>3 DEF View, FakeView
  <2>2. Len(w.enemies) \in Nat
    BY <1>3 DEF WorldOK, FakeGame
  <2>3. DOMAIN rows = 1..Len(rows) /\ Len(rows) = Len(w.enemies)
    BY <2>2
  <2>4. \A i \in 1..Len(w.enemies) : rows[i].id = w.enemies[i].id /\ rows[i].uid = w.enemies[i].uid
    OBVIOUS
  <2> HIDE DEF rows
  <2>5. Shows(e, rows, w)
    BY <1>3, <2>2, <2>3, <2>4 DEF Shows
  <2> QED BY <2>1, <2>5
<1> QED BY <1>1, <1>2, <1>3

(* An enemy that the view shows alone with its id is found under it. *)
Alone(i) == \A j \in DOMAIN view.enemies \ {i} : view.enemies[j].id # view.enemies[i].id

LEMMA MeantIsLocated ==
  ASSUME Sound, Shows(engine, view.enemies, world), NEW i \in DOMAIN view.enemies, Alone(i)
  PROVE  Located(engine, world, view.enemies[i].id, view.enemies[i].uid)
<1> DEFINE v == view.enemies
           id == v[i].id
<1>1. CASE engine = "crispy"
  BY <1>1 DEF Shows, Located
<1>2. CASE engine = "fake"
  <2>1. /\ DOMAIN v = 1..Len(v) /\ Len(v) \in Nat /\ Len(v) <= Len(world.enemies)
        /\ \A k \in DOMAIN v : v[k].id = world.enemies[k].id /\ v[k].uid = world.enemies[k].uid
    BY <1>2 DEF Shows
  <2>2. Len(world.enemies) \in Nat
    BY <1>2 DEF Sound, WorldOK, FakeGame
  <2>3. ASSUME NEW k \in 1..Len(world.enemies), world.enemies[k].id = id PROVE i <= k
    <3>1. CASE k < i
      <4>1. k \in DOMAIN v \ {i} /\ v[k].id = id
        BY <2>1, <2>2, <2>3, <3>1
      <4> QED BY <4>1 DEF Alone
    <3> QED BY <2>1, <3>1
  <2>4. i \in FakeFind(world, id)
    BY <2>1, <2>2, <2>3 DEF FakeFind, FakeIndexes
  <2> QED BY <1>2, <2>1, <2>4 DEF Located
<1> QED BY <1>1, <1>2 DEF Sound, CountersOK

(* An id that damage_entity can name arrives as it is. *)
LEMMA IdsArrive ==
  ASSUME NEW id \in 0..TidMax
  PROVE  /\ Integers64(<<"int", id>>) = {id} /\ DamageTarget(id) = id
         /\ RequiredInt([target_tid |-> <<"int", id>>], "target_tid") \cap 0..Int32Max = {id}
<1>1. /\ id \in Int /\ 0 <= id /\ id <= TidMax /\ TidMax \in Nat
      /\ Int32Max \in Nat /\ TidMax < Int32Max /\ Int64Max \in Nat /\ Int32Max < Int64Max
  BY WidthsAssumption
<1>2. Number(<<"int", id>>) = 2 * id
  BY <1>1 DEF Number, AsDouble
<1>3. (2 * id) % 2 = 0 /\ (2 * id) \div 2 = id
  BY <1>1
<1>4. IsNumber(<<"int", id>>)
  BY DEF IsNumber
<1>5. Integers64(<<"int", id>>) = {id}
  <2>1. ~(id < -Int64Max - 1 \/ id > Int64Max + 1) /\ id # Int64Max + 1
    BY <1>1
  <2> QED BY <1>2, <1>3, <1>4, <2>1 DEF Integers64
<1>6. Truncated(id) = id
  <2> DEFINE n == id + Int32Max + 1
             m == 2 * (Int32Max + 1)
  <2>1. n \in Nat /\ m \in Nat /\ m > 0 /\ n < m
    BY <1>1
  <2>2. Truncated(id) = (n % m) - (Int32Max + 1)
    BY DEF Truncated
  <2>3. n - (Int32Max + 1) = id
    BY <1>1
  <2> HIDE DEF n, m
  <2>4. n % m = n
    BY <2>1
  <2> QED BY <2>2, <2>3, <2>4
<1>7. DamageTarget(id) = id
  BY <1>1, <1>6 DEF DamageTarget, Clamp
<1>8. RequiredInt([target_tid |-> <<"int", id>>], "target_tid") = {id}
  BY <1>5 DEF RequiredInt
<1> QED BY <1>1, <1>5, <1>7, <1>8

-----------------------------------------------------------------------------
(* The invariant of the ids.                                               *)

(* The command finds the enemy uid, and does not refuse to hit it. *)
Aimed(e, w, c, uid) ==
  /\ c.type \in {"kill_entity", "damage_entity"}
  /\ c.type = "damage_entity" => c.damage \in 1..DamageMax
  /\ Located(e, w, c.target_tid, uid)

NumbersOK ==
  /\ engine = "fake" => /\ Ids(world.enemies) \subseteq 0..TidMax
                        /\ world.nextId + Len(commands) <= 103 + sent
  /\ \A k \in 1..Len(commands) :
       commands[k].command.type = "spawn_entity" => commands[k].command.tid <= TidMax

(* While the numbering is the one of the view, the view shows the world, and what
   was sent since then still finds the enemy it means. *)
ViewOK == view.epoch = epoch => Shows(engine, view.enemies, world)

EntriesOK ==
  \A k \in 1..Len(commands) :
    /\ commands[k].epoch \in -1..epoch
    /\ commands[k].meant # 0 /\ commands[k].alone /\ commands[k].epoch = epoch =>
         Aimed(engine, world, commands[k].command, commands[k].meant)

Aims == NumbersOK /\ ViewOK /\ EntriesOK /\ OnlyRenumberingMisleads

LEMMA AimsInit == Init /\ Sound /\ IdsCanBeNamed => Aims
<1> SUFFICES ASSUME Init, Sound, IdsCanBeNamed PROVE Aims
  OBVIOUS
<1>1. /\ view.epoch = -1 /\ epoch = 0 /\ sent = 0 /\ Len(commands) = 0
      /\ last.meant = 0
  BY DEF Init, NoExecution
<1>2. engine = "fake" => Ids(world.enemies) \subseteq 0..TidMax /\ world.nextId = 103
  <2> SUFFICES ASSUME engine = "fake"
               PROVE  Ids(world.enemies) \subseteq 0..TidMax /\ world.nextId = 103
    OBVIOUS
  <2>1. world = FakeStart /\ Len(world.enemies) \in Nat
    BY DEF Init, Sound, WorldOK, FakeGame
  <2>2. world.enemies = [i \in {i \in 1..3 : i <= EnemyCapacity} |->
                           FakeEnemy(i, 99 + i, <<"DoomImp", "ShotgunGuy", "Demon">>[i])]
    BY <2>1 DEF FakeStart
  <2>3. DOMAIN world.enemies = 1..Len(world.enemies)
    <3>1. FakeGame(world)
      BY DEF Sound, WorldOK
    <3> QED BY <3>1 DEF FakeGame
  <2>4. \A i \in 1..Len(world.enemies) : i \in 1..3 /\ world.enemies[i].id = 99 + i
    BY <2>2, <2>3 DEF FakeEnemy
  <2>5. 103 <= TidMax /\ TidMax \in Nat
    <3>1. MaxSent \in Nat
      BY PlayAssumption
    <3>2. TidMax \in Nat
      BY WidthsAssumption
    <3>3. 103 + MaxSent <= TidMax
      BY DEF IdsCanBeNamed
    <3> QED BY <3>1, <3>2, <3>3
  <2>6. world.nextId = 103
    BY <2>1 DEF FakeStart
  <2> QED BY <2>4, <2>5, <2>6 DEF Ids
<1> QED BY <1>1, <1>2 DEF Aims, NumbersOK, ViewOK, EntriesOK, OnlyRenumberingMisleads

(* What is pushed. *)
LEMMA PushedAims ==
  ASSUME Sound, Aims, IdsCanBeNamed, NEW call, NEW meant, NEW alone, NEW c,
         c \in SingleCall(AllAllowed, Published, call[1], call[2]),
         \/ call \in Requests /\ meant = 0
         \/ \E i \in DOMAIN view.enemies :
              /\ call \in {KillCall(view.enemies[i].id), HurtCall(view.enemies[i].id)}
              /\ meant = view.enemies[i].uid /\ (alone => Alone(i))
  PROVE  /\ c.type = "spawn_entity" => c.tid <= TidMax
         /\ meant # 0 /\ alone /\ view.epoch = epoch => Aimed(engine, world, c, meant)
<1>1. CASE call \in Requests /\ meant = 0
  <2> SUFFICES ASSUME c.type = "spawn_entity" PROVE c.tid <= TidMax
    BY <1>1
  <2>1. call[1] \in CommandTypes /\ c \in ParseCommand(call[1], call[2])
    BY <1>1, RequestsAssumption DEF SingleCall, Queued
  <2>2. call[1] = "spawn_entity"
    BY <2>1 DEF CommandTypes, ParseCommand, ParseChangeLevel, ParseGiveItem, ParseSetHealth,
                ParseSetPosition, ParseConsole, ParsePause, ParseDamage, ParseKill, KillTarget
  <2>3. c.tid \in OptionalInt(call[2], "tid", 0)
    BY <2>1, <2>2 DEF ParseCommand, ParseSpawn
  <2> QED BY <1>1, <2>2, <2>3 DEF IdsCanBeNamed
<1>2. ASSUME NEW i \in DOMAIN view.enemies,
             call \in {KillCall(view.enemies[i].id), HurtCall(view.enemies[i].id)},
             meant = view.enemies[i].uid, alone => Alone(i)
      PROVE  /\ c.type = "spawn_entity" => c.tid <= TidMax
             /\ meant # 0 /\ alone /\ view.epoch = epoch => Aimed(engine, world, c, meant)
  <2> DEFINE id == view.enemies[i].id
  <2>1. /\ c.type = "kill_entity" => c \in KillTarget([target_tid |-> <<"int", id>>])
        /\ c.type = "damage_entity" =>
             /\ c.damage \in 1..DamageMax
             /\ \E n \in Integers64(<<"int", id>>) : c.target_tid = DamageTarget(n)
        /\ c.type \in {"kill_entity", "damage_entity"}
    BY <1>2, TargetsAreOK
  <2> SUFFICES ASSUME alone, view.epoch = epoch PROVE Aimed(engine, world, c, meant)
    BY <2>1
  <2>2. Shows(engine, view.enemies, world)
    BY DEF Aims, ViewOK
  <2>3. Located(engine, world, id, meant)
    BY <1>2, <2>2, MeantIsLocated
  <2>4. id \in 0..TidMax
    <3>1. CASE engine = "crispy"
      <4>1. i \in Counted(world) /\ id = EnemyId(world, i) /\ id < MaxEnemies
        BY <2>2, <3>1 DEF Shows
      <4>2. id \in Nat
        BY <3>1, <4>1, EnemyIds DEF Sound, WorldOK
      <4>3. MaxEnemies \in Nat /\ TidMax \in Nat /\ MaxEnemies <= TidMax + 1
        BY PlayAssumption, WidthsAssumption DEF IdsCanBeNamed
      <4> QED BY <4>1, <4>2, <4>3
    <3>2. CASE engine = "fake"
      <4>1. /\ DOMAIN view.enemies = 1..Len(view.enemies) /\ Len(view.enemies) \in Nat
            /\ Len(view.enemies) <= Len(world.enemies) /\ id = world.enemies[i].id
        BY <2>2, <3>2 DEF Shows
      <4>2. Len(world.enemies) \in Nat
        BY <3>2 DEF Sound, WorldOK, FakeGame
      <4>3. i \in 1..Len(world.enemies)
        BY <4>1, <4>2
      <4>4. Ids(world.enemies) \subseteq 0..TidMax
        BY <3>2 DEF Aims, NumbersOK
      <4> QED BY <4>1, <4>3, <4>4 DEF Ids
    <3> QED BY <3>1, <3>2 DEF Sound, CountersOK
  <2> HIDE DEF id
  <2>5. c.target_tid = id
    <3>1. CASE c.type = "kill_entity"
      BY <2>1, <2>4, <3>1, IdsArrive DEF KillTarget
    <3>2. CASE c.type = "damage_entity"
      BY <2>1, <2>4, <3>2, IdsArrive
    <3> QED BY <2>1, <3>1, <3>2
  <2> QED BY <2>1, <2>3, <2>5 DEF Aimed
<1> QED BY <1>1, <1>2

(* An execution that finds its enemy hits it. *)
LEMMA AimedHits ==
  ASSUME Sound, NEW c, NEW uid, Aimed(engine, world, c, uid), NEW o \in Execute(world, c)
  PROVE  o.ok = TRUE /\ o.hit = uid
<1>1. /\ c.type \in {"kill_entity", "damage_entity"}
      /\ c.type = "damage_entity" => c.damage \in 1..DamageMax
      /\ Located(engine, world, c.target_tid, uid)
  BY DEF Aimed
<1> DEFINE tid == c.target_tid
<1>2. CASE engine = "crispy"
  <2>1. PICK i \in Counted(world) : EnemyId(world, i) = tid /\ world.mobjs[i].uid = uid
    BY <1>1, <1>2 DEF Located
  <2>2. FindEnemy(world, tid) = {world.mobjs[i]}
    <3>1. \A j \in Counted(world) : EnemyId(world, j) = tid <=> j = i
      BY <1>2, <2>1, EnemyIds DEF Sound, WorldOK
    <3> QED BY <2>1, <3>1 DEF FindEnemy
  <2>3. o \in CrispyExecute(world, c)
    BY <1>2 DEF Execute
  <2>4. \E damage : o \in Struck(world, {world.mobjs[i]}, damage)
    <3>1. CASE c.type = "kill_entity"
      <4>1. o \in CrispyKill(world, c)
        BY <2>3, <3>1 DEF CrispyExecute
      <4> QED BY <2>2, <4>1 DEF CrispyKill
    <3>2. CASE c.type = "damage_entity"
      <4>1. o \in CrispyDamage(world, c)
        BY <2>3, <3>2 DEF CrispyExecute
      <4> QED BY <1>1, <2>2, <3>2, <4>1 DEF CrispyDamage
    <3> QED BY <1>1, <3>1, <3>2
  <2> QED BY <2>1, <2>4 DEF Struck
<1>3. CASE engine = "fake"
  <2>1. PICK i \in FakeFind(world, tid) : world.enemies[i].uid = uid
    BY <1>1, <1>3 DEF Located
  <2>2. \A j \in FakeFind(world, tid) : j = i
    <3>1. \A j \in FakeFind(world, tid) : j \in Nat /\ i \in Nat /\ j <= i /\ i <= j
      BY <1>3 DEF FakeFind, FakeIndexes, Sound, WorldOK, FakeGame
    <3> QED BY <3>1
  <2>3. \E damage : o = [ok |-> TRUE, hit |-> world.enemies[i].uid,
                         world |-> FakeDamaged(world, i, damage)]
    <3>1. CASE c.type = "kill_entity"
      <4>1. o \in FakeTarget(world, c, LAMBDA e : e.hp)
        BY <1>3, <3>1 DEF Execute, FakeExecute
      <4> QED BY <2>1, <2>2, <4>1 DEF FakeTarget, FakeStruck
    <3>2. CASE c.type = "damage_entity"
      <4>1. o \in FakeTarget(world, c, LAMBDA e : c.damage)
        BY <1>3, <3>2 DEF Execute, FakeExecute
      <4> QED BY <2>1, <2>2, <4>1 DEF FakeTarget, FakeStruck
    <3> QED BY <1>1, <3>1, <3>2
  <2> QED BY <2>1, <2>3
<1> QED BY <1>2, <1>3 DEF Sound, CountersOK

LEMMA AimedStays ==
  ASSUME NEW e, NEW w, NEW v, WorldOK(e, w), Kept(e, w, v), NEW c, NEW uid, Aimed(e, w, c, uid)
  PROVE  Aimed(e, v, c, uid)
<1>1. Located(e, v, c.target_tid, uid)
  BY LocatedStays DEF Aimed
<1> QED BY <1>1 DEF Aimed

(* The steps after which the same ids name the same enemies. *)
LEMMA IdsStay ==
  ASSUME Sound, Next, ~LoadLevel, ~Vanish, ~Respawn
  PROVE  UNCHANGED <<engine, epoch>> /\ Kept(engine, world, world')
<1>1. CASE Command
  <2>1. engine \in {"crispy", "fake"} /\ UNCHANGED <<engine, epoch>>
    BY <1>1 DEF Sound, CountersOK, Command
  <2> QED BY <1>1, <2>1, Executes DEF Kept, CrispyOutcome, FakeOutcome
<1>2. CASE ~Command
  <2>1. engine \in {"crispy", "fake"}
    BY DEF Sound, CountersOK
  <2> QED BY <1>2, <2>1, GentleStep DEF Kept
<1> QED BY <1>1, <1>2

LEMMA ViewStep ==
  ASSUME Sound, Aims, Next
  PROVE  ViewOK'
<1>0. view.epoch \in -1..epoch /\ epoch \in Nat
  BY DEF Sound, CountersOK
<1>1. CASE LoadLevel \/ Vanish \/ Respawn
  <2>1. view' = view /\ epoch' = epoch + 1
    BY <1>1 DEF LoadLevel, Vanish, Respawn, EngineStep
  <2> QED BY <1>0, <2>1 DEF ViewOK
<1>2. CASE ~LoadLevel /\ ~Vanish /\ ~Respawn /\ ~Publish
  <2>1. UNCHANGED <<engine, epoch>> /\ Kept(engine, world, world')
    BY <1>2, IdsStay
  <2>2. view' = view
    BY <1>2 DEF Next, SendRequest, SendTarget, SendInput, Command, CommandsDone, Input, InputsDone,
                Advance, RunLevel, LeaveLevel, EngineStep, NotTheGame, TickVars
  <2> QED BY <2>1, <2>2, ShowsStays DEF Aims, ViewOK, Sound
<1>3. CASE Publish
  <2>1. UNCHANGED <<engine, world, epoch>> /\ view'.enemies = View(engine, world).enemies
    BY <1>3 DEF Publish
  <2> QED BY <2>1, Seen DEF ViewOK, Sound
<1> QED BY <1>1, <1>2, <1>3

(* What holds of an entry of the queue. *)
EntryOK(entry, en, w, ep) ==
  /\ entry.epoch \in -1..ep
  /\ entry.meant # 0 /\ entry.alone /\ entry.epoch = ep => Aimed(en, w, entry.command, entry.meant)
  /\ entry.command.type = "spawn_entity" => entry.command.tid <= TidMax

LEMMA EntriesStep ==
  ASSUME Sound, Aims, IdsCanBeNamed, Next
  PROVE  \A k \in 1..Len(commands') : EntryOK(commands'[k], engine', world', epoch')
<1>0. /\ view.epoch \in -1..epoch /\ epoch \in Nat /\ Queue(commands)
      /\ \A k \in 1..Len(commands) : EntryOK(commands[k], engine, world, epoch)
  BY DEF Sound, CountersOK, QueuesOK, Aims, EntriesOK, NumbersOK, EntryOK
<1>1. CASE LoadLevel \/ Vanish \/ Respawn
  <2>1. commands' = commands /\ epoch' = epoch + 1
    BY <1>1 DEF LoadLevel, Vanish, Respawn, EngineStep, agentVars
  <2> QED BY <1>0, <2>1 DEF EntryOK
<1>2. CASE ~LoadLevel /\ ~Vanish /\ ~Respawn
  <2>1. UNCHANGED <<engine, epoch>> /\ Kept(engine, world, world')
    BY <1>2, IdsStay
  <2>2. \A k \in 1..Len(commands) : EntryOK(commands[k], engine, world', epoch)
    BY <1>0, <2>1, AimedStays DEF EntryOK, Sound
  <2>3. CASE commands' = commands
    BY <2>1, <2>2, <2>3
  <2>4. CASE Command
    <3>1. commands # << >> /\ commands' = Tail(commands)
      BY <2>4 DEF Command
    <3>2. \A k \in 1..Len(Tail(commands)) :
            k + 1 \in 1..Len(commands) /\ Tail(commands)[k] = commands[k + 1]
      BY <1>0, <3>1, Dequeued
    <3> QED BY <2>1, <2>2, <3>1, <3>2
  <2>5. CASE SendRequest \/ SendTarget
    <3>1. PICK call, meant, alone :
            /\ Push(call, meant, alone)
            /\ \/ call \in Requests /\ meant = 0
               \/ \E i \in DOMAIN view.enemies :
                    /\ call \in {KillCall(view.enemies[i].id), HurtCall(view.enemies[i].id)}
                    /\ meant = view.enemies[i].uid /\ (alone => Alone(i))
      <4>1. CASE SendRequest
        BY <4>1 DEF SendRequest
      <4>2. CASE SendTarget
        <5>1. PICK i \in DOMAIN view.enemies :
                \/ Push(KillCall(view.enemies[i].id), view.enemies[i].uid, Alone(i))
                \/ Push(HurtCall(view.enemies[i].id), view.enemies[i].uid, Alone(i))
          BY <4>2 DEF SendTarget, KillCall, HurtCall, Alone
        <5> QED BY <5>1
      <4> QED BY <2>5, <4>1, <4>2
    <3>2. PICK c \in SingleCall(AllAllowed, Published, call[1], call[2]) :
            commands' = Append(commands, [command |-> c, call |-> call, meant |-> meant,
                                          alone |-> alone, epoch |-> view.epoch])
      BY <3>1 DEF Push
    <3> DEFINE entry == [command |-> c, call |-> call, meant |-> meant, alone |-> alone,
                         epoch |-> view.epoch]
    <3>3. /\ c.type = "spawn_entity" => c.tid <= TidMax
          /\ meant # 0 /\ alone /\ view.epoch = epoch => Aimed(engine, world, c, meant)
      BY <3>1, PushedAims
    <3>4. world' = world
      BY <2>5 DEF SendRequest, SendTarget, NotTheGame
    <3>5. EntryOK(entry, engine, world', epoch)
      BY <1>0, <3>3, <3>4 DEF EntryOK
    <3>6. commands' = Append(commands, entry)
      BY <3>2
    <3> HIDE DEF entry
    <3>7. \A k \in 1..Len(Append(commands, entry)) :
            Append(commands, entry)[k] = IF k <= Len(commands) THEN commands[k] ELSE entry
      BY <1>0, Enqueued
    <3>8. /\ Len(commands) \in Nat /\ Len(Append(commands, entry)) = Len(commands) + 1
      BY <1>0, Enqueued
    <3> QED BY <2>1, <2>2, <3>5, <3>6, <3>7, <3>8
  <2>6. ~Command /\ ~SendRequest /\ ~SendTarget => commands' = commands
    BY <1>2 DEF Next, SendInput, Publish, CommandsDone, Input, InputsDone, Advance, RunLevel,
                LeaveLevel, EngineStep, agentVars
  <2> QED BY <2>3, <2>4, <2>5, <2>6
<1> QED BY <1>1, <1>2

LEMMA NumbersStep ==
  ASSUME Sound, Aims, IdsCanBeNamed, Next, engine' = "fake"
  PROVE  Ids(world'.enemies) \subseteq 0..TidMax /\ world'.nextId + Len(commands') <= 103 + sent'
<1>0. /\ engine = "fake" /\ ~LoadLevel /\ ~Vanish /\ ~Respawn
  <2>1. engine' = engine
    BY DEF Next, SendRequest, SendTarget, SendInput, Publish, Command, CommandsDone, Input, InputsDone,
           Advance, LoadLevel, RunLevel, Vanish, Respawn, LeaveLevel, EngineStep, NotTheGame
  <2>2. phase # "engine"
    BY <2>1 DEF Sound, CountersOK, Phases
  <2> QED BY <2>1, <2>2 DEF LoadLevel, Vanish, Respawn, EngineStep
<1>1. /\ Ids(world.enemies) \subseteq 0..TidMax /\ world.nextId + Len(commands) <= 103 + sent
      /\ FakeGame(world) /\ world.nextId \in Nat /\ sent \in 0..MaxSent /\ MaxSent \in Nat
      /\ Queue(commands) /\ Len(commands) \in Nat /\ TidMax \in Nat /\ 103 + MaxSent <= TidMax
  <2>1. FakeGame(world) /\ world.nextId \in Nat
    BY <1>0 DEF Sound, WorldOK, FakeGame
  <2>2. Queue(commands) /\ Len(commands) \in Nat
    BY Enqueued DEF Sound, QueuesOK
  <2>3. sent \in 0..MaxSent /\ MaxSent \in Nat
    BY PlayAssumption DEF Sound, CountersOK
  <2>4. TidMax \in Nat
    BY WidthsAssumption
  <2> QED BY <1>0, <2>1, <2>2, <2>3, <2>4 DEF Aims, NumbersOK, IdsCanBeNamed
<1>2. CASE Command
  <2> DEFINE c == Head(commands).command
  <2>1. /\ commands # << >> /\ Head(commands) = commands[1] /\ 1 \in 1..Len(commands)
        /\ FakeAfter(world, world', FakeIds(world, c)) /\ CommandOK(c)
    BY <1>0, <1>2, Executes DEF FakeOutcome
  <2>2. /\ commands' = Tail(commands) /\ sent' = sent
    BY <1>2 DEF Command
  <2>3. Len(Tail(commands)) = Len(commands) - 1 /\ Len(commands) > 0
    BY <1>1, <2>1, Dequeued
  <2>4. /\ world'.nextId \in {world.nextId, world.nextId + 1}
        /\ Ids(world'.enemies) \subseteq Ids(world.enemies) \cup FakeIds(world, c)
    BY <2>1 DEF FakeAfter
  <2>5. c.type = "spawn_entity" => c.tid \in 0..TidMax
    BY <1>1, <2>1 DEF CommandOK, Aims, NumbersOK
  <2> HIDE DEF c
  <2>6. FakeIds(world, c) \subseteq 0..TidMax
    BY <1>1, <2>3, <2>5 DEF FakeIds
  <2> QED BY <1>1, <2>2, <2>3, <2>4, <2>6
<1>3. CASE ~Command
  <2>1. FakeAfter(world, world', {})
    BY <1>0, <1>3, GentleStep
  <2>2. Ids(world'.enemies) \subseteq 0..TidMax
    BY <1>1, <2>1 DEF FakeAfter
  <2>3. CASE world' = world
    <3>1. \/ commands' = commands /\ sent' \in {sent, sent + 1}
          \/ sent' = sent + 1 /\ \E entry : commands' = Append(commands, entry)
      BY <1>0, <1>3 DEF Next, SendRequest, SendTarget, SendInput, Publish, CommandsDone, Input,
             InputsDone, Advance, RunLevel, LeaveLevel, EngineStep, agentVars, Sends, Push
    <3>2. \A entry : Len(Append(commands, entry)) = Len(commands) + 1
      BY <1>1, Enqueued
    <3> QED BY <1>1, <2>2, <2>3, <3>1, <3>2
  <2>4. CASE world' # world
    <3>1. Input \/ Advance \/ RunLevel \/ LeaveLevel
      BY <1>0, <1>3, <2>4 DEF Next, SendRequest, SendTarget, SendInput, Publish, CommandsDone,
             InputsDone, NotTheGame
    <3>2. commands' = commands /\ sent' = sent /\ ~RunLevel /\ ~LeaveLevel
      BY <1>0, <3>1 DEF Input, Advance, RunLevel, LeaveLevel, EngineStep, agentVars, Sound,
                        CountersOK, Phases
    <3>3. world'.nextId = world.nextId
      <4>1. CASE Advance
        BY <1>1, <4>1 DEF Advance, FakeAdvance, FakeGame, FakeFields
      <4>2. CASE Input
        <5>1. PICK o \in FakeInput(world, Head(inputs)) : world' = o.world
          BY <1>0, <4>2 DEF Input
        <5>2. inputs # << >> /\ Queue(inputs)
          BY <4>2 DEF Input, Sound, QueuesOK
        <5>3. Head(inputs) = inputs[1] /\ 1 \in 1..Len(inputs)
          BY <5>2, Dequeued
        <5>4. Head(inputs).action \in Moves \cup {"aim", "weapon"}
          BY <5>3 DEF Sound, QueuesOK
        <5> QED BY <1>1, <5>1, <5>4, FakeInputs
      <4> QED BY <3>1, <3>2, <4>1, <4>2
    <3> QED BY <1>1, <2>2, <3>2, <3>3
  <2> QED BY <2>3, <2>4
<1> QED BY <1>2, <1>3

LEMMA AimsNext ==
  ASSUME IdsCanBeNamed
  PROVE  Sound /\ Aims /\ [Next]_vars => Aims'
<1> SUFFICES ASSUME Sound, Aims, [Next]_vars PROVE Aims'
  OBVIOUS
<1>1. CASE UNCHANGED vars
  <2>1. /\ UNCHANGED <<engine, world, commands, sent, view, epoch, last>>
    BY <1>1 DEF vars
  <2> QED BY <2>1 DEF Aims, NumbersOK, ViewOK, EntriesOK, OnlyRenumberingMisleads
<1>2. CASE Next
  <2>1. \A k \in 1..Len(commands') : EntryOK(commands'[k], engine', world', epoch')
    BY <1>2, EntriesStep
  <2>2. NumbersOK'
    BY <1>2, <2>1, NumbersStep DEF NumbersOK, EntryOK
  <2>3. ViewOK'
    BY <1>2, ViewStep
  <2>4. EntriesOK'
    BY <2>1 DEF EntriesOK, EntryOK
  <2>5. OnlyRenumberingMisleads'
    <3>1. CASE Command
      <4> DEFINE entry == Head(commands)
      <4>1. PICK o \in Execute(world, entry.command) :
              last' = [call |-> entry.call, meant |-> entry.meant, alone |-> entry.alone,
                       current |-> entry.epoch = epoch, ok |-> o.ok, hit |-> o.hit]
        BY <3>1 DEF Command
      <4>2. entry = commands[1] /\ 1 \in 1..Len(commands)
        BY <3>1, Executes
      <4> HIDE DEF entry
      <4> SUFFICES ASSUME last'.meant # 0, last'.alone, last'.current
           PROVE  last'.ok /\ last'.hit = last'.meant
        BY DEF OnlyRenumberingMisleads
      <4>3. entry.meant # 0 /\ entry.alone /\ entry.epoch = epoch
        BY <4>1
      <4>4. Aimed(engine, world, entry.command, entry.meant)
        BY <4>2, <4>3 DEF Aims, EntriesOK
      <4>5. o.ok = TRUE /\ o.hit = entry.meant
        BY <4>4, AimedHits
      <4> QED BY <4>1, <4>5
    <3>2. CASE ~Command
      BY <1>2, <3>2, OnlyCommandsExecute DEF Aims, OnlyRenumberingMisleads
    <3> QED BY <3>1, <3>2
  <2> QED BY <2>2, <2>3, <2>4, <2>5 DEF Aims
<1> QED BY <1>1, <1>2

(* A command that names an enemy by an id that the view showed once is never turned down
   and hits the enemy the agent saw under it, if ids are few and small enough to be named
   and since then no level was loaded, no monster respawned and no corpse left the list. *)
THEOREM NamedEnemiesAreHit ==
  ASSUME IdsCanBeNamed PROVE Spec => []OnlyRenumberingMisleads
<1>1. Init => Sound /\ Aims
  BY SoundInit, AimsInit
<1>2. Sound /\ Aims /\ [Next]_vars => (Sound /\ Aims)'
  BY SoundNext, AimsNext
<1>3. Sound /\ Aims => OnlyRenumberingMisleads
  BY DEF Aims
<1> QED BY <1>1, <1>2, <1>3, PTL DEF Spec
=============================================================================
