---------------------- MODULE AppHistoryRollbackProofs ----------------------
(***************************************************************************)
(* Theorems of AppHistory about what a rollback leaves behind: that what   *)
(* is stored boots, and that a rollback reaches its target, also when it   *)
(* finishes what an earlier one left half done.                            *)
(***************************************************************************)
EXTENDS AppHistoryProofs

USE ConstantsAssumption

-----------------------------------------------------------------------------
(* Row ids.  Every entry that was ever in a snapshot or a backup:          *)

Snap(h) == UNION {h[i].overlay : i \in 1 .. Len(h)}

(* A row never changes its definition, and only policy rows have values.   *)
OneDef(S) == \A e, x \in S : e.row = x.row => e.def = x.def
Plain(S) == \A e \in S : Kind[e.def] \notin PolicyKinds => e.val = BaseValue
PolicyOnly(E) == \A e \in E : Kind[e.def] \in PolicyKinds

(* The row of e is not in S, or it is there for the same definition.       *)
Absent(S, e) == \A x \in S : x.row # e.row
Owned(S, e) == \E x \in S : x.row = e.row /\ x.def = e.def
Known(S, T) == \A e \in T : Owned(S, e) \/ Absent(S, e)

(* A row id that T takes anew is not in U.                                 *)
Apart(S, T, U) == \A e \in T : Absent(S, e) => Absent(U, e)

(* What a call k works on is of S, but for the one entry it may add.       *)
Draws(S, k) ==
  /\ k.seen \subseteq S /\ k.target \subseteq S /\ k.payload \subseteq S \cup k.todo
  /\ Keyed(k.seen) /\ Keyed(k.payload) /\ Keyed(k.target)
  /\ Plain(k.todo) /\ Known(S, k.todo)
  /\ k.op = "rollback" => k.todo \subseteq S /\ PolicyOnly(k.seen)
  /\ k.op # "rollback" /\ k.step # "idle" => \E t \in Entry : k.todo = {t}
  /\ k.op # "rollback" /\ k.step = "idle" => k.todo = {}
  /\ k.op \in {"change", "remove"} => PolicyOnly(k.todo)
  /\ k.op = "add" /\ k.step \in {"overlay", "version", "insert"} => \A e \in k.todo : Absent(S, e)
  /\ k.op = "add" /\ k.step = "overlay" =>
       \A e \in k.todo : \A x \in k.seen : Kind[x.def] = Kind[e.def]

(* Where a rollback stands, and what it can rely on while it is alone.     *)
Shape(h, R, k) ==
  k.op = "rollback" =>
    /\ k.step \in {"current", "delete", "restore"} => k.kind = "backup"
    /\ k.step = "restore" => k.todo = {}
    /\ k.kind = "overlay" => k.todo = {} /\ k.seen = {} /\ k.payload = k.target
    /\ k.alone /\ k.step # "current" => k.todo \subseteq R
    /\ k.alone /\ k.step = "insert" => k.version = Len(h) + 1

KeyedSnapshots(h) == \A i \in 1 .. Len(h) : Keyed(h[i].overlay)
Separate(S, f) == \A c \in Callers : \A o \in Callers \ {c} : Apart(S, f[c].todo, f[o].todo)

OwnInv ==
  /\ OneDef(Snap(history)) /\ Plain(Snap(history)) /\ KeyedSnapshots(history)
  /\ Separate(Snap(history), call)
  /\ \A c \in Callers : Draws(Snap(history), call[c]) /\ Shape(history, rows, call[c])

LEMMA SnapIs ==
  ASSUME NEW h \in Seq(HistoryEntry)
  PROVE  Snap(h) \subseteq Entry
<1>1. \A i \in 1 .. Len(h) : h[i] \in HistoryEntry
  OBVIOUS
<1>2. \A x \in HistoryEntry : x.overlay \subseteq Entry
  BY DEF HistoryEntry
<1>3. QED
  BY <1>1, <1>2 DEF Snap

LEMMA SnapAppend ==
  ASSUME NEW h \in Seq(HistoryEntry), NEW x \in HistoryEntry
  PROVE  Snap(Append(h, x)) = Snap(h) \cup x.overlay
<1> DEFINE g == Append(h, x)
<1>1. /\ Len(g) = Len(h) + 1 /\ Len(h) \in Nat
      /\ \A i \in 1 .. Len(h) : g[i] = h[i]
      /\ g[Len(h) + 1] = x
  BY AppendHistory
<1> HIDE DEF g
<1>2. 1 .. Len(g) = (1 .. Len(h)) \cup {Len(h) + 1}
  BY <1>1
<1>3. ASSUME NEW e
      PROVE  e \in Snap(g) <=> e \in Snap(h) \cup x.overlay
  <2>1. e \in Snap(g) <=> \E i \in 1 .. Len(g) : e \in g[i].overlay
    BY DEF Snap
  <2>2. e \in Snap(h) <=> \E i \in 1 .. Len(h) : e \in h[i].overlay
    BY DEF Snap
  <2>3. QED
    BY <1>1, <1>2, <2>1, <2>2
<1>4. QED
  BY <1>3 DEF g

LEMMA StoreInSnap ==
  ASSUME AuditFirst
  PROVE  rows \subseteq Snap(history)
  BY DEF AuditFirst, Snap

(* An overlay a rollback can return to is of the history, and keyed.       *)
LEMMA OverlayInSnap ==
  ASSUME NEW h \in Seq(HistoryEntry), NEW v \in 0 .. Len(h), KeyedSnapshots(h)
  PROVE  OverlayAt(h, v) \subseteq Snap(h) /\ Keyed(OverlayAt(h, v))
<1>1. CASE OverlayAt(h, v) = {}
  BY <1>1 DEF Keyed
<1>2. ASSUME NEW i \in 1 .. Len(h), OverlayAt(h, v) = h[i].overlay
      PROVE  OverlayAt(h, v) \subseteq Snap(h) /\ Keyed(OverlayAt(h, v))
  BY <1>2 DEF KeyedSnapshots, Snap
<1>3. QED
  BY <1>1, <1>2, OverlayIsSnapshot

(* What a snapshot adds to S: P, of S and of what the call T was to save.  *)
LEMMA ApartGrows ==
  ASSUME NEW S, NEW T, NEW U, NEW P, NEW V, NEW W,
         Apart(S, T, U), V \subseteq T \cup S, W \subseteq U \cup S
  PROVE  Apart(S \cup P, V, W)
  BY DEF Apart, Absent

LEMMA OwnKnown ==
  ASSUME NEW S, NEW T, NEW P, NEW V, Known(S, T), P \subseteq S \cup T,
         T \subseteq S \/ \E t \in Entry : T = {t}, V \subseteq T \cup S
  PROVE  Known(S \cup P, V)
<1>1. CASE T \subseteq S
  BY <1>1 DEF Known, Absent, Owned
<1>2. ASSUME NEW t, T = {t}
      PROVE  Known(S \cup P, V)
  <2>1. CASE P \subseteq S
    <3>1. S \cup P = S
      BY <2>1
    <3>2. QED
      BY <3>1 DEF Known, Absent, Owned
  <2>2. CASE t \in P
    <3>1. \A e \in S \cup P : Owned(S \cup P, e)
      BY DEF Owned
    <3>2. V \subseteq S \cup P
      BY <1>2, <2>2
    <3>3. QED
      BY <3>1, <3>2 DEF Known
  <2>3. QED
    BY <1>2, <2>1, <2>2
<1>3. QED
  BY <1>1, <1>2

LEMMA OneDefGrows ==
  ASSUME NEW S, NEW T, NEW P, OneDef(S), Plain(S), Plain(T), Known(S, T), P \subseteq S \cup T,
         T \subseteq S \/ \E t \in Entry : T = {t}
  PROVE  OneDef(S \cup P) /\ Plain(S \cup P)
<1>1. Plain(S \cup P)
  BY DEF Plain
<1>2. CASE T \subseteq S
  BY <1>2 DEF OneDef
<1>3. ASSUME NEW t, T = {t}
      PROVE  OneDef(S \cup P)
  <2>1. \A x \in S : x.row = t.row => x.def = t.def
    BY <1>3 DEF Known, Owned, Absent, OneDef
  <2>2. QED
    BY <1>3, <2>1 DEF OneDef
<1>4. QED
  BY <1>1, <1>2, <1>3

LEMMA DrawsGrows ==
  ASSUME NEW S, NEW Q, NEW k, NEW m, NEW U, Draws(S, k), SameBut(m, k), Apart(S, k.todo, U),
         S \subseteq Q, Q \subseteq S \cup U
  PROVE  Draws(Q, m)
<1>1. /\ m.step = k.step /\ m.op = k.op /\ m.todo = k.todo /\ m.seen = k.seen
      /\ m.kind = k.kind /\ m.payload = k.payload /\ m.target = k.target
  BY DEF SameBut
<1>2. Known(Q, m.todo)
  BY <1>1 DEF Draws, Known, Apart, Absent, Owned
<1>3. m.op = "add" /\ m.step \in {"overlay", "version", "insert"} =>
        \A e \in m.todo : Absent(Q, e)
  BY <1>1 DEF Draws, Absent, Apart
<1>4. QED
  BY <1>1, <1>2, <1>3 DEF Draws

-----------------------------------------------------------------------------
(* Calls that begin keep OwnInv.                                           *)

LEMMA BegunDraws ==
  ASSUME Inv, OwnInv, NEW c \in Callers, Begun(c)
  PROVE  /\ Draws(Snap(history), call'[c]) /\ Shape(history, rows, call'[c])
         /\ \A o \in Callers \ {c} :
              /\ Apart(Snap(history), call[o].todo, call'[c].todo)
              /\ Apart(Snap(history), call'[c].todo, call[o].todo)
<1> DEFINE S == Snap(history)
           m == call'[c]
<1>1. /\ rows \subseteq S /\ rows \subseteq Entry /\ Keyed(rows) /\ history \in Seq(HistoryEntry)
      /\ OneDef(S) /\ Plain(S) /\ KeyedSnapshots(history)
  BY StoreInSnap DEF Inv, TypeOK, OwnInv
<1>2. \A r : Fresh(r) => (\A x \in S : x.row # r) /\ \A o \in Callers : \A x \in call[o].todo : x.row # r
  BY DEF Fresh, Snap
<1> HIDE DEF S, m
<1>3. CASE AddBegun(c)
  <2>1. PICK t \in Entry :
          /\ Fresh(t.row) /\ (Kind[t.def] \notin PolicyKinds => t.val = BaseValue)
          /\ m.step = "overlay" /\ m.op = "add" /\ m.kind = "overlay"
          /\ m.todo = {t} /\ m.seen = OfKind(rows, Kind[t.def])
          /\ m.payload = {} /\ m.target = {}
    BY <1>3 DEF AddBegun, m
  <2>2. Absent(S, t)
    BY <1>2, <2>1 DEF Absent
  <2>3. m.seen \subseteq rows /\ \A x \in m.seen : Kind[x.def] = Kind[t.def]
    BY <2>1 DEF OfKind
  <2>4. Keyed(m.seen) /\ Keyed(m.payload) /\ Keyed(m.target)
    BY <1>1, <2>1, <2>3 DEF Keyed
  <2>5. Draws(S, m)
    BY <1>1, <2>1, <2>2, <2>3, <2>4 DEF Draws, Plain, Known
  <2>6. ASSUME NEW o \in Callers \ {c}
        PROVE  Apart(S, call[o].todo, m.todo) /\ Apart(S, m.todo, call[o].todo)
    BY <1>2, <2>1 DEF Apart, Absent
  <2>7. QED
    BY <2>1, <2>5, <2>6 DEF Shape, S, m
<1>4. CASE PolicyBegun(c)
  <2>1. PICK t \in Entry :
          /\ Kind[t.def] \in PolicyKinds
          /\ m.step = "version" /\ m.kind = "overlay" /\ m.todo = {t}
          /\ m.seen = {} /\ m.target = {}
          /\ m.op = "change" => Fresh(t.row) \/ \E e \in Declaring(rows, t.def) : e.row = t.row
          /\ \/ m.op = "change" /\ Replaces(rows, t) /\ m.payload = Without(rows, t.def) \cup {t}
             \/ m.op = "remove" /\ t \in rows /\ m.payload = Without(rows, t.def)
    BY <1>4 DEF PolicyBegun, m
  <2>2. \/ Fresh(t.row)
        \/ \E e \in rows : e.row = t.row /\ e.def = t.def
    BY <2>1 DEF Declaring
  <2>3. Owned(S, t) \/ Absent(S, t)
    BY <1>1, <1>2, <2>2 DEF Owned, Absent
  <2>4. m.payload \subseteq rows \cup {t}
    BY <2>1 DEF Without
  <2>5. Keyed(m.payload)
    <3>1. Keyed(Without(rows, t.def))
      BY <1>1 DEF Without, Keyed
    <3>2. CASE m.op = "change"
      <4>1. \A x \in Without(rows, t.def) : x.row # t.row
        <5>1. CASE Declaring(rows, t.def) = {} /\ NewRow(rows, t)
          BY <5>1 DEF Without, NewRow
        <5>2. CASE \E e \in Declaring(rows, t.def) : e.row = t.row
          BY <1>1, <5>2 DEF Without, Declaring, Keyed
        <5>3. QED
          BY <2>1, <3>2, <5>1, <5>2 DEF Replaces
      <4>2. QED
        BY <2>1, <3>1, <3>2, <4>1 DEF Keyed
    <3>3. QED
      BY <2>1, <3>1, <3>2
  <2>6. Keyed(m.seen) /\ Keyed(m.target)
    BY <2>1 DEF Keyed
  <2>7. Draws(S, m)
    BY <1>1, <2>1, <2>3, <2>4, <2>5, <2>6 DEF Draws, Plain, Known, PolicyOnly
  <2>8. ASSUME NEW o \in Callers \ {c}
        PROVE  Apart(S, call[o].todo, m.todo) /\ Apart(S, m.todo, call[o].todo)
    BY <1>1, <1>2, <2>1, <2>2 DEF Apart, Absent
  <2>9. QED
    BY <2>1, <2>7, <2>8 DEF Shape, S, m
<1>5. CASE RollbackBegun(c)
  <2>1. /\ m.step = "current" /\ m.op = "rollback" /\ m.kind = "backup" /\ m.payload = {}
        /\ m.seen \subseteq m.target
        /\ \E v \in 0 .. Len(history) : m.target = OverlayAt(history, v)
    BY <1>5 DEF RollbackBegun, m
  <2>2. PICK cur \in OneEach(rows), tgt \in OneEach(m.target) :
          /\ Supported(cur, tgt)
          /\ m.todo = {e \in cur : Listed(Removed(cur, tgt), e)}
          /\ m.seen = {e \in tgt : e.def \in Updated(cur, tgt) \cup Restored(cur, tgt)}
    BY <1>5 DEF RollbackBegun, m
  <2>3. m.target \subseteq S /\ Keyed(m.target)
    BY <1>1, <2>1, OverlayInSnap DEF S
  <2>4. m.todo \subseteq rows /\ m.todo \subseteq S
    BY <1>1, <2>2 DEF OneEach
  <2>5. PolicyOnly(m.seen)
    <3>1. \A d \in Updated(cur, tgt) \cup Restored(cur, tgt) : Kind[d] \in PolicyKinds
      BY <2>2 DEF Updated, Supported
    <3>2. QED
      BY <2>2, <3>1 DEF PolicyOnly
  <2>6. Keyed(m.seen) /\ Keyed(m.payload) /\ Plain(m.todo) /\ Known(S, m.todo)
    BY <1>1, <2>1, <2>3, <2>4 DEF Keyed, Plain, Known, Owned
  <2>7. Draws(S, m)
    BY <2>1, <2>3, <2>4, <2>5, <2>6 DEF Draws
  <2>8. ASSUME NEW o \in Callers \ {c}
        PROVE  Apart(S, call[o].todo, m.todo) /\ Apart(S, m.todo, call[o].todo)
    BY <2>4 DEF Apart, Absent
  <2>9. QED
    BY <2>1, <2>7, <2>8 DEF Shape, S, m
<1>6. QED
  BY <1>3, <1>4, <1>5 DEF Begun

LEMMA BegunOwns ==
  ASSUME Inv, OwnInv, NEW c \in Callers, Begun(c)
  PROVE  OwnInv'
<1> DEFINE S == Snap(history)
<1>1. rows' = rows /\ history' = history /\ Snap(history') = S
  BY DEF Begun, StoreKept
<1>2. ASSUME NEW o \in Callers \ {c}
      PROVE  SameBut(call'[o], call[o]) /\ call'[o].alone = FALSE /\ call'[o].todo = call[o].todo
  BY DEF Begun, OthersMet, SameBut
<1>3. ASSUME NEW o \in Callers
      PROVE  Draws(S, call'[o]) /\ Shape(history, rows, call'[o])
  <2>1. CASE o = c
    BY <2>1, BegunDraws
  <2>2. CASE o # c
    <3>1. Draws(S, call[o]) /\ Shape(history, rows, call[o]) /\ Apart(S, call[o].todo, {})
      BY DEF OwnInv, Apart, Absent
    <3>2. SameBut(call'[o], call[o]) /\ S \subseteq S /\ S \subseteq S \cup {}
      BY <1>2, <2>2
    <3>4. Draws(S, call'[o])
      BY <3>1, <3>2, DrawsGrows
    <3>3. Shape(history, rows, call'[o])
      BY <1>2, <2>2, <3>1 DEF Shape, SameBut
    <3>5. QED
      BY <3>3, <3>4
  <2>3. QED
    BY <2>1, <2>2
<1>4. Separate(S, call')
  <2>1. ASSUME NEW o \in Callers, NEW p \in Callers \ {o}
        PROVE  Apart(S, call'[o].todo, call'[p].todo)
    <3>1. CASE o = c
      BY <1>2, <3>1, BegunDraws
    <3>2. CASE p = c
      BY <1>2, <3>2, BegunDraws
    <3>3. CASE o # c /\ p # c
      BY <1>2, <3>3 DEF OwnInv, Separate
    <3>4. QED
      BY <3>1, <3>2, <3>3
  <2>2. QED
    BY <2>1 DEF Separate
<1>5. QED
  BY <1>1, <1>3, <1>4 DEF OwnInv

-----------------------------------------------------------------------------
(* Calls that go on keep OwnInv.                                           *)

LEMMA GoesOwns ==
  ASSUME Inv, OwnInv, NEW c \in Callers, NEW k, NEW m, NEW P, Goes(c, k, m), k.step # "idle",
         Snap(history') = Snap(history) \cup P, P \subseteq Snap(history) \cup k.todo,
         m.todo \subseteq k.todo \cup Snap(history), KeyedSnapshots(history'),
         Draws(Snap(history'), m), Shape(history', rows', m)
  PROVE  OwnInv'
<1> DEFINE S == Snap(history)
<1>1. /\ k = call[c] /\ m = call'[c] /\ call' = [call EXCEPT ![c] = m]
      /\ call \in [Callers -> Call] /\ Active(c)
  BY DEF Goes, Inv, TypeOK, Active
<1>2. \A o \in Callers \ {c} : call'[o] = call[o]
  BY <1>1
<1>3. /\ OneDef(S) /\ Plain(S) /\ Draws(S, k) /\ Separate(S, call)
  BY <1>1 DEF OwnInv
<1>4. k.todo \subseteq S \/ \E t \in Entry : k.todo = {t}
  BY <1>3 DEF Draws
<1>5. OneDef(S \cup P) /\ Plain(S \cup P)
  BY <1>3, <1>4, OneDefGrows DEF Draws
<1>6. ASSUME NEW o \in Callers
      PROVE  Draws(S \cup P, call'[o]) /\ Shape(history', rows', call'[o])
  <2>1. CASE o = c
    BY <1>1, <2>1
  <2>2. CASE o # c
    <3>1. Draws(S, call[o]) /\ Apart(S, call[o].todo, k.todo) /\ P \subseteq S \cup k.todo
      BY <1>1, <2>2 DEF OwnInv, Separate
    <3>2. Draws(S \cup P, call'[o])
      <4>1. SameBut(call'[o], call[o])
        BY <1>2, <2>2 DEF SameBut
      <4>2. S \subseteq S \cup P /\ S \cup P \subseteq S \cup k.todo
        BY <3>1
      <4> HIDE DEF S
      <4>3. QED
        BY <3>1, <4>1, <4>2, DrawsGrows
    <3>3. Shape(history, rows, call[o]) /\ (call[o].op = "rollback" => ~call[o].alone)
      <4>1. Sound(history, call[o]) /\ Shape(history, rows, call[o])
        BY DEF OwnInv, Inv
      <4>2. ~(Active(o) /\ call[o].alone)
        BY <1>1, <2>2 DEF Inv, Lone
      <4>3. call[o].op = "rollback" => call[o].step # "idle"
        BY <4>1 DEF Sound
      <4>4. QED
        BY <4>1, <4>2, <4>3 DEF Active
    <3>4. Shape(history', rows', call'[o])
      BY <1>2, <2>2, <3>3 DEF Shape
    <3>5. QED
      BY <3>2, <3>4
  <2>3. QED
    BY <2>1, <2>2
<1>7. Separate(S \cup P, call')
  <2>1. ASSUME NEW o \in Callers, NEW p \in Callers \ {o}
        PROVE  Apart(S \cup P, call'[o].todo, call'[p].todo)
    <3>1. Apart(S, call[o].todo, call[p].todo)
      BY <1>3 DEF Separate
    <3>2. call'[o].todo \subseteq call[o].todo \cup S /\ call'[p].todo \subseteq call[p].todo \cup S
      BY <1>1, <1>2
    <3>3. QED
      BY <3>1, <3>2, ApartGrows
  <2>2. QED
    BY <2>1 DEF Separate
<1>8. QED
  BY <1>5, <1>6, <1>7 DEF OwnInv

LEMMA IdleDraws ==
  ASSUME NEW S, NEW h, NEW R
  PROVE  Draws(S, Idle) /\ Shape(h, R, Idle)
  BY IdleIs DEF Draws, Shape, Keyed, Plain, Known, PolicyOnly

(* A rollback that continues or fails works on what it worked on before.   *)
LEMMA ContinuesDraws ==
  ASSUME NEW S, NEW k, NEW m, NEW V, NEW W, NEW h, NEW R, NEW Q, Draws(S, k), Shape(h, R, k),
         k.op = "rollback", k.kind = "backup", k.step # "current",
         V \subseteq k.todo, W \subseteq k.seen, Continues(k, V, W, m), k.alone => V \subseteq Q
  PROVE  Draws(S, m) /\ \A g : Shape(g, Q, m)
<1>1. /\ m.op = "rollback" /\ m.todo = V /\ m.seen = W /\ m.target = k.target /\ m.alone = k.alone
      /\ m.payload = k.payload \/ m.payload = k.target
  BY DEF Continues, Unchanged
<1>2. k.todo \subseteq S /\ k.seen \subseteq S /\ k.target \subseteq S /\ k.payload \subseteq S
  BY DEF Draws
<1>3. Keyed(m.seen) /\ Keyed(m.payload) /\ Keyed(m.target)
  BY <1>1 DEF Draws, Keyed
<1>4. Plain(m.todo) /\ Known(S, m.todo) /\ PolicyOnly(m.seen)
  BY <1>1 DEF Draws, Plain, Known, PolicyOnly
<1>5. Draws(S, m)
  BY <1>1, <1>2, <1>3, <1>4 DEF Draws
<1>6. \A g : Shape(g, Q, m)
  BY <1>1 DEF Continues, Shape
<1>7. QED
  BY <1>5, <1>6

LEMMA FailsDraws ==
  ASSUME NEW S, NEW k, NEW m, NEW h, NEW R, Draws(S, k), k.op = "rollback", Fails(k, m)
  PROVE  Draws(S, m) /\ Shape(h, R, m)
<1>1. /\ m.op = "rollback" /\ m.todo = {} /\ m.seen = {} /\ m.target = k.target /\ m.payload = {}
      /\ m.step = "version" /\ m.kind = "failed"
  BY DEF Fails, Unchanged
<1>2. m.target \subseteq S /\ Keyed(m.target)
  BY <1>1 DEF Draws
<1>3. QED
  BY <1>1, <1>2 DEF Draws, Shape, Keyed, Plain, Known, PolicyOnly

(* The three reads. *)
LEMMA OverlayReadOwns ==
  ASSUME Inv, OwnInv, NEW c \in Callers, NEW k, NEW m, OverlayRead(c, k, m)
  PROVE  OwnInv'
<1> DEFINE S == Snap(history)
<1>1. /\ rows \subseteq S /\ Keyed(rows) /\ OneDef(S) /\ k = call[c] /\ Sound(history, k)
      /\ Draws(S, k) /\ KeyedSnapshots(history)
  BY StoreInSnap DEF Inv, OwnInv, OverlayRead, Goes
<1>2. k.op = "add" /\ k.step = "overlay" /\ m.op = "add" /\ m.step = "version"
      /\ m.todo = k.todo /\ m.seen = k.seen /\ m.target = k.target
  BY <1>1 DEF OverlayRead, Unchanged, Sound
<1>3. PICK t \in Entry : k.todo = {t}
  BY <1>1, <1>2 DEF Draws
<1> DEFINE kept == IF Kind[t.def] \in {"table", "column"}
                   THEN {x \in rows : Kind[x.def] # Kind[t.def]} \cup k.seen ELSE rows
<1>4. m.payload = kept \cup {t}
  BY <1>3 DEF OverlayRead
<1>5. Absent(S, t) /\ k.seen \subseteq S /\ Keyed(k.seen)
      /\ \A x \in k.seen : Kind[x.def] = Kind[t.def]
  BY <1>1, <1>2, <1>3 DEF Draws
<1>6. kept \subseteq S
  BY <1>1, <1>5
<1>7. Keyed(kept)
  <2>1. ASSUME NEW e \in rows, NEW x \in k.seen, Kind[e.def] # Kind[t.def], e.row = x.row
        PROVE  FALSE
    BY <1>1, <1>5, <2>1 DEF OneDef
  <2>2. QED
    BY <1>1, <1>5, <2>1 DEF Keyed
<1> HIDE DEF kept
<1>8. Keyed(m.payload)
  BY <1>4, <1>5, <1>6, <1>7 DEF Keyed, Absent
<1>9. Draws(S, m)
  BY <1>1, <1>2, <1>3, <1>4, <1>6, <1>8 DEF Draws
<1>10. Goes(c, k, m) /\ history' = history /\ Shape(history', rows', m)
  BY <1>2 DEF OverlayRead, StoreKept, Shape
<1>11. QED
  <2>1. Snap(history') = S \cup {} /\ {} \subseteq S \cup k.todo /\ m.todo \subseteq k.todo \cup S
    BY <1>2, <1>10
  <2>2. KeyedSnapshots(history') /\ Draws(Snap(history'), m)
    BY <1>1, <1>9, <1>10
  <2>3. QED
    BY <1>2, <1>10, <2>1, <2>2, GoesOwns

LEMMA CurrentReadOwns ==
  ASSUME Inv, OwnInv, NEW c \in Callers, NEW k, NEW m, CurrentRead(c, k, m)
  PROVE  OwnInv'
<1> DEFINE S == Snap(history)
<1>1. /\ rows \subseteq S /\ Keyed(rows) /\ k = call[c] /\ Sound(history, k)
      /\ Draws(S, k) /\ Shape(history, rows, k) /\ KeyedSnapshots(history) /\ Plain(S)
  BY StoreInSnap DEF Inv, OwnInv, CurrentRead, Goes
<1>2. /\ k.op = "rollback" /\ k.step = "current" /\ m.op = "rollback" /\ m.step = "version"
      /\ m.seen = k.seen /\ m.target = k.target /\ m.payload = rows /\ m.todo \subseteq rows
      /\ m.kind = k.kind
  BY <1>1 DEF CurrentRead, Unchanged, Sound
<1>3. Plain(m.todo) /\ Known(S, m.todo)
  BY <1>1, <1>2 DEF Plain, Known, Owned
<1>4. Draws(S, m)
  BY <1>1, <1>2, <1>3 DEF Draws
<1>5. Shape(history, rows, m)
  BY <1>1, <1>2 DEF Shape
<1>6. Goes(c, k, m) /\ history' = history /\ rows' = rows
  BY DEF CurrentRead, StoreKept
<1>7. Snap(history') = S \cup {} /\ {} \subseteq S \cup k.todo /\ m.todo \subseteq k.todo \cup S
  BY <1>1, <1>2, <1>6
<1>8. KeyedSnapshots(history') /\ Draws(Snap(history'), m) /\ Shape(history', rows', m)
  BY <1>1, <1>4, <1>5, <1>6
<1>9. QED
  BY <1>2, <1>6, <1>7, <1>8, GoesOwns

LEMMA VersionReadOwns ==
  ASSUME Inv, OwnInv, NEW c \in Callers, NEW k, NEW m, VersionRead(c, k, m)
  PROVE  OwnInv'
<1> DEFINE S == Snap(history)
<1>1. k = call[c] /\ Draws(S, k) /\ Shape(history, rows, k) /\ KeyedSnapshots(history)
  BY DEF OwnInv, VersionRead, Goes
<1>2. /\ k.step = "version" /\ m.step = "insert" /\ m.op = k.op /\ m.todo = k.todo
      /\ m.seen = k.seen /\ m.target = k.target /\ m.payload = k.payload /\ m.kind = k.kind
      /\ m.alone = k.alone /\ m.version = Len(history) + 1
  BY DEF VersionRead
<1>3. Draws(S, m)
  BY <1>1, <1>2 DEF Draws
<1>4. Shape(history, rows, m)
  BY <1>1, <1>2 DEF Shape
<1>5. Goes(c, k, m) /\ history' = history /\ rows' = rows
  BY DEF VersionRead, StoreKept
<1>6. Snap(history') = S \cup {} /\ {} \subseteq S \cup k.todo /\ m.todo \subseteq k.todo \cup S
  BY <1>2, <1>5
<1>7. KeyedSnapshots(history') /\ Draws(Snap(history'), m) /\ Shape(history', rows', m)
  BY <1>1, <1>3, <1>4, <1>5
<1>8. QED
  BY <1>2, <1>5, <1>6, <1>7, GoesOwns

(* The snapshot that is appended: the only step that adds to Snap. *)
LEMMA InsertedOwns ==
  ASSUME Inv, OwnInv, NEW c \in Callers, NEW k, NEW m, Inserted(c, k, m)
  PROVE  OwnInv'
<1> DEFINE S == Snap(history)
           P == k.payload
           x == [kind |-> k.kind, overlay |-> P]
<1>1. /\ k = call[c] /\ Draws(S, k) /\ Shape(history, rows, k) /\ KeyedSnapshots(history)
      /\ history \in Seq(HistoryEntry) /\ k \in Call /\ Goes(c, k, m) /\ k.step = "insert"
      /\ rows' = rows
  BY DEF OwnInv, Inv, TypeOK, Inserted, Goes
<1>2. x \in HistoryEntry /\ x.overlay = P
  BY <1>1 DEF Call, HistoryEntry
<1> HIDE DEF x
<1>3. CASE history' = Append(history, x) /\ history' # history
  <2>1. Snap(history') = S \cup P
    BY <1>1, <1>2, <1>3, SnapAppend
  <2>2. KeyedSnapshots(history')
    <3>1. /\ Len(history') = Len(history) + 1 /\ Len(history) \in Nat
          /\ \A i \in 1 .. Len(history) : history'[i] = history[i]
          /\ history'[Len(history) + 1] = x
      BY <1>1, <1>2, <1>3, AppendHistory
    <3>2. Keyed(x.overlay)
      BY <1>1, <1>2 DEF Draws
    <3>3. ASSUME NEW i \in 1 .. Len(history')
          PROVE  Keyed(history'[i].overlay)
      <4>1. i \in 1 .. Len(history) \/ i = Len(history) + 1
        BY <3>1
      <4>2. QED
        BY <1>1, <3>1, <3>2, <4>1 DEF KeyedSnapshots
    <3>4. QED
      BY <3>3 DEF KeyedSnapshots
  <2>3. P \subseteq S \cup k.todo
    BY <1>1 DEF Draws
  <2>4. Draws(S \cup P, m) /\ Shape(history', rows', m) /\ m.todo \subseteq k.todo \cup S
    <3>1. CASE m = Idle
      BY <3>1, IdleDraws, IdleIs
    <3>2. CASE /\ k.op # "rollback" /\ m.step = "save" /\ Unchanged(k, m)
               /\ m.todo = k.todo /\ m.seen = k.seen /\ m.kind = k.kind /\ m.payload = k.payload
      <4>1. k.todo \subseteq S \/ \E t \in Entry : k.todo = {t}
        BY <1>1 DEF Draws
      <4>2. Known(S \cup P, m.todo)
        BY <1>1, <2>3, <3>2, <4>1, OwnKnown DEF Draws
      <4>3. m.op = k.op /\ m.target = k.target
        BY <3>2 DEF Unchanged
      <4>4. Draws(S \cup P, m)
        BY <1>1, <3>2, <4>2, <4>3 DEF Draws
      <4>5. QED
        BY <3>2, <4>3, <4>4 DEF Shape
    <3>3. CASE k.op = "rollback" /\ k.kind = "backup" /\ Continues(k, k.todo, k.seen, m)
      <4>1. P \subseteq S /\ S \cup P = S
        BY <1>1, <3>3 DEF Draws
      <4>2. k.alone => k.todo \subseteq rows
        BY <1>1, <3>3 DEF Shape
      <4>3. Draws(S, m) /\ \A g : Shape(g, rows, m)
        BY <1>1, <3>3, <4>2, ContinuesDraws, SMTT(30)
      <4>4. m.todo = k.todo
        BY <3>3 DEF Continues
      <4>5. QED
        BY <1>1, <4>1, <4>3, <4>4
    <3>4. QED
      BY <1>3, <3>1, <3>2, <3>3 DEF Inserted
  <2>5. QED
    BY <1>1, <2>1, <2>2, <2>3, <2>4, GoesOwns
<1>4. CASE history' = history
  <2>1. m = Idle \/ (k.op = "rollback" /\ Fails(k, m))
    BY <1>1, <1>2, <1>4, AppendHistory DEF Inserted, x
  <2>2. Draws(S, m) /\ Shape(history', rows', m) /\ m.todo = {}
    <3>1. CASE m = Idle
      BY <3>1, IdleDraws, IdleIs
    <3>2. CASE k.op = "rollback" /\ Fails(k, m)
      BY <1>1, <3>2, FailsDraws DEF Fails
    <3>3. QED
      BY <2>1, <3>1, <3>2
  <2>3. Snap(history') = S \cup {} /\ {} \subseteq S \cup k.todo /\ m.todo \subseteq k.todo \cup S
    BY <1>4, <2>2
  <2>4. KeyedSnapshots(history') /\ Draws(Snap(history'), m)
    BY <1>1, <1>4, <2>2
  <2>5. QED
    BY <1>1, <2>2, <2>3, <2>4, GoesOwns
<1>5. QED
  BY <1>3, <1>4 DEF Inserted, x

(* Steps that write or fail to: the history stays. *)
LEMMA WriteOwns ==
  ASSUME Inv, OwnInv, NEW c \in Callers, NEW k, NEW m, Goes(c, k, m), k.step # "idle",
         history' = history, m.todo \subseteq k.todo, Draws(Snap(history), m), Shape(history, rows', m)
  PROVE  OwnInv'
<1>1. KeyedSnapshots(history') /\ Snap(history') = Snap(history) \cup {}
  BY DEF OwnInv
<1>2. {} \subseteq Snap(history) \cup k.todo /\ m.todo \subseteq k.todo \cup Snap(history)
  OBVIOUS
<1>3. Draws(Snap(history'), m) /\ Shape(history', rows', m)
  OBVIOUS
<1>4. QED
  BY <1>1, <1>2, <1>3, GoesOwns

LEMMA GoesOnOwns ==
  ASSUME Inv, OwnInv, NEW c \in Callers, NEW k, k = call[c], NEW m, GoesOn(c, k, m)
  PROVE  OwnInv'
<1> DEFINE S == Snap(history)
<1>1. Draws(S, k) /\ Shape(history, rows, k) /\ Sound(history, k) /\ Keyed(rows)
  BY DEF OwnInv, Inv
<1>2. CASE SavedOne(c, k, m)
  <2>1. Goes(c, k, m) /\ k.step # "idle" /\ history' = history /\ m = Idle
    BY <1>2 DEF SavedOne
  <2>2. m.todo \subseteq k.todo /\ Draws(S, m) /\ Shape(history, rows', m)
    BY <2>1, IdleDraws, IdleIs
  <2>3. QED
    BY <2>1, <2>2, WriteOwns
<1>3. CASE DeletedOne(c, k, m)
  <2>1. Goes(c, k, m) /\ k.step = "delete" /\ history' = history
    BY <1>3 DEF DeletedOne
  <2>2. k.op = "rollback" /\ k.kind = "backup" /\ (k.alone => k.todo \subseteq rows)
    BY <1>1, <2>1 DEF Sound, Shape
  <2>3. PICK e \in k.todo :
          \/ rows' = {x \in rows : x.row # e.row} /\ Continues(k, k.todo \ {e}, k.seen, m)
          \/ NewRow(rows, e) /\ rows' = rows /\ Fails(k, m)
    BY <1>3 DEF DeletedOne
  <2>4. CASE rows' = {x \in rows : x.row # e.row} /\ Continues(k, k.todo \ {e}, k.seen, m)
    <3>1. k.alone => k.todo \ {e} \subseteq rows'
      BY <1>1, <2>2, <2>4 DEF Keyed
    <3>2. k.todo \ {e} \subseteq k.todo /\ k.seen \subseteq k.seen /\ k.step # "current"
      BY <2>1
    <3>3. Draws(S, m) /\ Shape(history, rows', m)
      BY <1>1, <2>2, <2>4, <3>1, <3>2, ContinuesDraws
    <3>4. m.todo \subseteq k.todo
      BY <2>4 DEF Continues
    <3>5. QED
      BY <2>1, <3>3, <3>4, WriteOwns
  <2>5. CASE Fails(k, m)
    <3>1. Draws(S, m) /\ Shape(history, rows', m) /\ m.todo \subseteq k.todo
      BY <1>1, <2>2, <2>5, FailsDraws DEF Fails
    <3>2. QED
      BY <2>1, <3>1, WriteOwns
  <2>6. QED
    BY <2>3, <2>4, <2>5
<1>4. CASE RestoredOne(c, k, m)
  <2>1. Goes(c, k, m) /\ k.step = "restore" /\ history' = history
    BY <1>4 DEF RestoredOne
  <2>2. k.op = "rollback" /\ k.kind = "backup" /\ k.todo = {}
    BY <1>1, <2>1 DEF Sound, Shape
  <2>3. PICK e \in k.seen : Continues(k, k.todo, k.seen \ {e}, m)
    BY <1>4 DEF RestoredOne
  <2>4. /\ k.todo \subseteq k.todo /\ k.seen \ {e} \subseteq k.seen /\ k.step # "current"
        /\ k.alone => k.todo \subseteq rows'
    BY <2>1, <2>2
  <2>5. Draws(S, m) /\ Shape(history, rows', m)
    BY <1>1, <2>2, <2>3, <2>4, ContinuesDraws
  <2>6. m.todo \subseteq k.todo
    BY <2>3 DEF Continues
  <2>7. QED
    BY <2>1, <2>5, <2>6, WriteOwns
<1>5. CASE WriteFailed(c, k, m)
  <2>1. Goes(c, k, m) /\ k.step # "idle" /\ history' = history
    BY <1>5 DEF WriteFailed, StoreKept
  <2>2. m = Idle \/ (k.op = "rollback" /\ Fails(k, m))
    BY <1>5 DEF WriteFailed
  <2>3. Draws(S, m) /\ Shape(history, rows', m) /\ m.todo \subseteq k.todo
    BY <1>1, <2>2, IdleDraws, IdleIs, FailsDraws DEF Fails
  <2>4. QED
    BY <2>1, <2>3, WriteOwns
<1>6. QED
  BY <1>2, <1>3, <1>4, <1>5, OverlayReadOwns, CurrentReadOwns, VersionReadOwns, InsertedOwns
  DEF GoesOn

LEMMA StepOwns ==
  ASSUME Inv, OwnInv, [Next]_vars
  PROVE  OwnInv'
<1>1. CASE Restart
  <2>1. history' = history /\ rows' = rows /\ \A c \in Callers : call'[c] = Idle
    BY <1>1 DEF Restart
  <2>2. Separate(Snap(history'), call')
    BY <2>1, IdleIs DEF Separate, Apart
  <2>3. QED
    BY <2>1, <2>2, IdleDraws DEF OwnInv
<1>2. ASSUME NEW c \in Callers, CallStep(c)
      PROVE  OwnInv'
  <2>1. Begun(c) \/ \E m : GoesOn(c, call[c], m)
    BY <1>2, CallSteps DEF Inv
  <2>2. QED
    BY <2>1, BegunOwns, GoesOnOwns
<1>3. CASE UNCHANGED vars
  BY <1>3 DEF vars, OwnInv
<1>4. QED
  BY <1>1, <1>2, <1>3 DEF Next

LEMMA AlwaysOwned == Spec => [](Inv /\ OwnInv)
<1>1. Init => OwnInv
  <2> SUFFICES ASSUME Init PROVE OwnInv
    OBVIOUS
  <2>1. history = <<>> /\ Len(history) = 0 /\ \A c \in Callers : call[c] = Idle
    BY DEF Init
  <2>2. Snap(history) = {} /\ KeyedSnapshots(history)
    BY <2>1 DEF Snap, KeyedSnapshots
  <2>3. Separate(Snap(history), call)
    BY <2>1, IdleIs DEF Separate, Apart
  <2>4. QED
    BY <2>1, <2>2, <2>3, IdleDraws DEF OwnInv, OneDef, Plain
<1>2. QED
  BY <1>1, StartsWell, StepKeeps, StepOwns, PTL DEF Spec

-----------------------------------------------------------------------------
(* What boots.  Definitions that are declared on what is there with them.  *)

ClosedDefs(D) == \A d \in D : Kind[d] \in {"column", "view"} => On[d] \in D \cup {Base}
Declares(R, e) == Kind[e.def] \in {"column", "view"} => On[e.def] \in DefsOf(R) \cup {Base}

(* What will be declared once T is deleted from R and S is written back.   *)
Final(R, T, S) == DefsOf({x \in R : Absent(T, x)}) \cup DefsOf(S)

RollsBack(k) == k.step # "idle" /\ k.op = "rollback"

(* D is what is removed between R and G, but for the columns of what is.    *)
Lists(R, G, D) ==
  \A d \in Defs : d \in D <=>
    d \in Removed(R, G) /\ ~(Kind[d] = "column" /\ On[d] \in Removed(R, G))

(* A call k in a calm system: what it was asked for still has what it is   *)
(* declared on, and a rollback will end with definitions that boot.        *)
Calm(R, k) ==
  k.step # "idle" =>
    /\ k.alone
    /\ k.op = "add" => \A e \in k.todo : Declares(R, e)
    /\ k.op = "rollback" =>
         /\ k.kind # "failed"
         /\ ClosedDefs(DefsOf(k.target))
         /\ k.step = "current" =>
              /\ ClosedDefs(DefsOf(R))
              /\ Lists(R, k.target, DefsOf(k.todo))
         /\ k.step # "current" => ClosedDefs(Final(R, k.todo, k.seen))

ClosedSnapshots(h) ==
  \A i \in 1 .. Len(h) : h[i].kind = "overlay" => ClosedDefs(DefsOf(h[i].overlay))

CalmInv ==
  calm =>
    /\ ClosedSnapshots(history)
    /\ (\A c \in Callers : ~RollsBack(call[c])) => ClosedDefs(DefsOf(rows))
    /\ \A c \in Callers : Calm(rows, call[c])

LEMMA DefsOfIs ==
  ASSUME NEW R \in SUBSET Entry
  PROVE  DefsOf(R) \subseteq Defs /\ \A d : d \in DefsOf(R) <=> \E e \in R : e.def = d
  BY DEF DefsOf, Entry

(* Nothing is declared on a policy rule or a setting. *)
LEMMA ClosedPolicy ==
  ASSUME NEW D \in SUBSET Defs, NEW E \in SUBSET Defs, ClosedDefs(D),
         \A d \in Defs : Kind[d] \notin PolicyKinds => (d \in D <=> d \in E)
  PROVE  ClosedDefs(E)
<1>1. SUFFICES ASSUME NEW d \in E, Kind[d] \in {"column", "view"}, On[d] # Base
               PROVE  On[d] \in E
  BY DEF ClosedDefs
<1>2. d \in D /\ On[d] \in D
  BY <1>1 DEF ClosedDefs, PolicyKinds
<1>3. Kind[On[d]] \in {"table", "operation"}
  BY <1>1, DeclaredOnAssumption
<1>4. QED
  BY <1>2, <1>3 DEF PolicyKinds

LEMMA ClosedAdd ==
  ASSUME NEW R \in SUBSET Entry, NEW t \in Entry, ClosedDefs(DefsOf(R)), Declares(R, t)
  PROVE  ClosedDefs(DefsOf(R \cup {t}))
<1>1. DefsOf(R \cup {t}) = DefsOf(R) \cup {t.def}
  BY DEF DefsOf
<1>2. QED
  BY <1>1 DEF ClosedDefs, Declares

(* The row of a call that is alone, and its snapshot. *)
LEMMA SnapshotClosed ==
  ASSUME NEW R \in SUBSET Entry, NEW k, NEW t \in Entry, Keyed(R), Snapshot(R, k, t),
         ClosedDefs(DefsOf(R)), k.op = "add" => Declares(R, t),
         k.op \in {"change", "remove"} => Kind[t.def] \in PolicyKinds
  PROVE  /\ ClosedDefs(DefsOf(k.payload))
         /\ k.op = "remove" => ClosedDefs(DefsOf({x \in R : x.row # t.row}))
         /\ k.op # "remove" => ClosedDefs(DefsOf(Saved(R, t)))
<1>1. CASE k.op = "add" /\ NewRow(R, t) /\ k.payload = R \cup {t}
  <2>1. Saved(R, t) = R \cup {t}
    BY <1>1 DEF NewRow, Saved
  <2>2. QED
    BY <1>1, <2>1, ClosedAdd
<1>2. CASE k.op \in {"change", "remove"}
  <2>1. Kind[t.def] \in PolicyKinds /\ Without(R, t.def) \cup {t} \in SUBSET Entry
        /\ Without(R, t.def) \in SUBSET Entry /\ Saved(R, t) \in SUBSET Entry
        /\ {x \in R : x.row # t.row} \in SUBSET Entry
    BY <1>2 DEF Without, Saved
  <2>2. \A x \in R : x.row = t.row => x.def = t.def
    <3>1. CASE k.op = "change" /\ Replaces(R, t)
      BY <3>1 DEF Replaces, NewRow, Declaring, Keyed
    <3>2. CASE k.op = "remove" /\ t \in R
      BY <3>2 DEF Keyed
    <3>3. QED
      BY <1>2, <3>1, <3>2 DEF Snapshot
  <2>3. ASSUME NEW Q \in SUBSET Entry,
               \/ Q = Without(R, t.def) \/ Q = Without(R, t.def) \cup {t}
               \/ Q = Saved(R, t) \/ Q = {x \in R : x.row # t.row}
        PROVE  ClosedDefs(DefsOf(Q))
    <3>1. \A x \in R : x \in Q \/ x.def = t.def
      BY <2>2, <2>3 DEF Without, Declaring, Saved
    <3>2. \A x \in Q : x \in R \/ x.def = t.def
      BY <2>3 DEF Without, Saved
    <3>3. \A d \in Defs : Kind[d] \notin PolicyKinds => (d \in DefsOf(R) <=> d \in DefsOf(Q))
      BY <2>1, <3>1, <3>2 DEF DefsOf
    <3>4. QED
      BY <3>3, ClosedPolicy, DefsOfIs
  <2>4. k.payload = Without(R, t.def) \/ k.payload = Without(R, t.def) \cup {t}
    BY <1>2 DEF Snapshot
  <2>5. QED
    BY <2>1, <2>3, <2>4
<1>3. QED
  BY <1>1, <1>2 DEF Snapshot

(* The rows that are deleted leave definitions that boot. *)
LEMMA DoomedClosed ==
  ASSUME NEW R \in SUBSET Entry, Keyed(R), NEW G \in SUBSET Entry, NEW S, PolicyOnly(S),
         NEW D \in SUBSET Defs, ClosedDefs(DefsOf(R)), ClosedDefs(DefsOf(G)),
         Lists(R, G, D), NEW T, T = {e \in R : Doomed(D, e)}
  PROVE  ClosedDefs(Final(R, T, S))
<1>1. ASSUME NEW x \in R
      PROVE  Absent(T, x) <=> ~Doomed(D, x)
  BY DEF Absent, Keyed
<1>2. ASSUME NEW d
      PROVE  d \in Final(R, T, S) <=>
               \/ d \in DefsOf(R) /\ d \notin D /\ ~(Kind[d] = "column" /\ On[d] \in D)
               \/ d \in DefsOf(S)
  <2>1. d \in Final(R, T, S) <=> (\E x \in R : x.def = d /\ Absent(T, x)) \/ d \in DefsOf(S)
    BY DEF Final, DefsOf
  <2>2. \A x \in R : x.def = d =>
          (Doomed(D, x) <=> d \in D \/ (Kind[d] = "column" /\ On[d] \in D))
    BY DEF Doomed, GoesWithTable
  <2>3. d \in DefsOf(R) <=> \E x \in R : x.def = d
    BY DEF DefsOf
  <2>4. QED
    BY <1>1, <2>1, <2>2, <2>3
<1>3. SUFFICES ASSUME NEW d \in Final(R, T, S), Kind[d] \in {"column", "view"}, On[d] # Base
               PROVE  On[d] \in Final(R, T, S)
  BY DEF ClosedDefs
<1>4. Kind[d] \notin PolicyKinds
  BY <1>3 DEF PolicyKinds
<1>5. d \in DefsOf(R) /\ d \notin D /\ ~(Kind[d] = "column" /\ On[d] \in D)
  BY <1>2, <1>4 DEF PolicyOnly, DefsOf
<1>6. d \in Defs /\ On[d] \in DefsOf(R) /\ On[d] \in Defs
  BY <1>3, <1>5, DefsOfIs DEF ClosedDefs
<1>7. Kind[On[d]] \in {"table", "operation"} /\ (Kind[d] = "column" => Kind[On[d]] = "table")
  BY <1>3, <1>6, DeclaredOnAssumption
<1>8. On[d] \notin D
  <2>1. CASE Kind[d] = "column"
    BY <1>5, <2>1
  <2>2. CASE Kind[d] = "view"
    <3>1. d \notin Removed(R, G)
      BY <1>5, <1>6, <2>2 DEF Lists
    <3>2. d \in DefsOf(G)
      BY <1>5, <3>1 DEF Removed
    <3>3. On[d] \in DefsOf(G)
      BY <1>3, <3>2 DEF ClosedDefs
    <3>4. On[d] \notin Removed(R, G)
      BY <3>3 DEF Removed
    <3>5. QED
      BY <1>6, <3>4 DEF Lists
  <2>3. QED
    BY <1>3, <2>1, <2>2
<1>9. QED
  BY <1>2, <1>6, <1>7, <1>8

(* One row less to delete, or to write back: the same definitions remain.  *)
LEMMA FinalDelete ==
  ASSUME NEW R, NEW T, NEW S, NEW e \in T, NEW Q, Q = {x \in R : x.row # e.row}
  PROVE  Final(Q, T \ {e}, S) = Final(R, T, S)
<1>1. {x \in Q : Absent(T \ {e}, x)} = {x \in R : Absent(T, x)}
  BY DEF Absent
<1>2. QED
  BY <1>1 DEF Final

LEMMA FinalRestore ==
  ASSUME NEW R, NEW S, NEW e \in S, OneDef(R \cup S), NEW Q, Q = Saved(R, e)
  PROVE  Final(Q, {}, S \ {e}) = Final(R, {}, S)
<1>1. \A P : {x \in P : Absent({}, x)} = P
  BY DEF Absent
<1>2. Final(R, {}, S) = DefsOf(R) \cup DefsOf(S) /\ Final(Q, {}, S \ {e}) = DefsOf(Q) \cup DefsOf(S \ {e})
  BY <1>1 DEF Final
<1>3. \A x \in R : x \in Q \/ x.def = e.def
  BY DEF Saved, OneDef
<1>4. \A x \in Q : x \in R \/ x = e
  BY DEF Saved
<1>5. e \in Q
  BY DEF Saved
<1>6. ASSUME NEW d
      PROVE  d \in DefsOf(R) \cup DefsOf(S) <=> d \in DefsOf(Q) \cup DefsOf(S \ {e})
  BY <1>3, <1>4, <1>5 DEF DefsOf
<1>7. QED
  BY <1>2, <1>6

(* What a call knows in a calm system, and what it has to leave behind.    *)
LEMMA CalmHas ==
  ASSUME Inv, CalmInv, calm, NEW c \in Callers, Active(c)
  PROVE  /\ call[c].alone /\ Calm(rows, call[c]) /\ ClosedSnapshots(history)
         /\ call[c].op # "rollback" => ClosedDefs(DefsOf(rows))
<1>1. call[c].alone /\ Calm(rows, call[c]) /\ ClosedSnapshots(history)
  BY DEF CalmInv, Calm, Active
<1>2. ASSUME call[c].op # "rollback"
      PROVE  ClosedDefs(DefsOf(rows))
  <2>1. \A o \in Callers : ~RollsBack(call[o])
    BY <1>1, <1>2 DEF Inv, Lone, RollsBack, Active
  <2>2. QED
    BY <2>1 DEF CalmInv
<1>3. QED
  BY <1>1, <1>2

LEMMA GoesCalm ==
  ASSUME Inv, CalmInv, NEW c \in Callers, NEW k, NEW m, Goes(c, k, m), k.step # "idle",
         calm' => /\ ClosedSnapshots(history') /\ Calm(rows', m)
                  /\ RollsBack(m) \/ ClosedDefs(DefsOf(rows'))
  PROVE  CalmInv'
<1>1. SUFFICES ASSUME calm'
               PROVE  /\ ClosedSnapshots(history')
                      /\ (\A o \in Callers : ~RollsBack(call'[o])) => ClosedDefs(DefsOf(rows'))
                      /\ \A o \in Callers : Calm(rows', call'[o])
  BY DEF CalmInv
<1>2. /\ calm /\ k = call[c] /\ m = call'[c] /\ Active(c)
      /\ call' = [call EXCEPT ![c] = m] /\ call \in [Callers -> Call]
  BY <1>1 DEF Goes, BootKept, Inv, TypeOK, Active
<1>3. \A o \in Callers \ {c} : call'[o] = call[o] /\ ~Active(o)
  BY <1>2, CalmHas DEF Inv, Lone
<1>4. ASSUME NEW o \in Callers
      PROVE  Calm(rows', call'[o])
  <2>1. CASE o = c
    BY <1>1, <1>2, <2>1
  <2>2. CASE o # c
    BY <1>3, <2>2 DEF Calm, Active
  <2>3. QED
    BY <2>1, <2>2
<1>5. QED
  BY <1>1, <1>2, <1>4

LEMMA IdleCalm ==
  ASSUME NEW R
  PROVE  Calm(R, Idle) /\ ~RollsBack(Idle)
  BY IdleIs DEF Calm, RollsBack

LEMMA BegunCalm ==
  ASSUME Inv, CalmInv, NEW c \in Callers, Begun(c)
  PROVE  CalmInv'
<1> DEFINE m == call'[c]
<1>1. SUFFICES ASSUME calm'
               PROVE  /\ ClosedSnapshots(history')
                      /\ (\A o \in Callers : ~RollsBack(call'[o])) => ClosedDefs(DefsOf(rows'))
                      /\ \A o \in Callers : Calm(rows', call'[o])
  BY DEF CalmInv
<1>2. /\ calm /\ RegistryCurrent /\ \A o \in Callers : ~Active(o)
      /\ rows' = rows /\ history' = history /\ m.alone
  BY <1>1 DEF Begun, BootKept, StoreKept
<1>3. ClosedSnapshots(history) /\ ClosedDefs(DefsOf(rows))
  BY <1>2 DEF CalmInv, RollsBack, Active
<1>4. Calm(rows, m)
  <2> HIDE DEF m
  <2>1. CASE AddBegun(c)
    <3>1. PICK t \in Entry : /\ Kind[t.def] \in {"column", "view"} => Serving(On[t.def])
                             /\ m.op = "add" /\ m.todo = {t}
      BY <2>1 DEF AddBegun, m
    <3>2. Declares(rows, t)
      BY <1>2, <3>1 DEF Serving, RegistryCurrent, Declares
    <3>3. QED
      BY <1>2, <3>1, <3>2 DEF Calm
  <2>2. CASE PolicyBegun(c)
    <3>1. m.op \in {"change", "remove"}
      BY <2>2 DEF PolicyBegun, m
    <3>2. QED
      BY <1>2, <3>1 DEF Calm
  <2>3. CASE RollbackBegun(c)
    <3>1. /\ m.step = "current" /\ m.op = "rollback" /\ m.kind = "backup"
          /\ \E v \in 0 .. Len(history) : m.target = OverlayAt(history, v)
      BY <2>3 DEF RollbackBegun, m
    <3>2. PICK cur \in OneEach(rows), tgt \in OneEach(m.target) :
            m.todo = {e \in cur : Listed(Removed(cur, tgt), e)}
      BY <2>3 DEF RollbackBegun, m
    <3>3. DefsOf(cur) = DefsOf(rows) /\ DefsOf(tgt) = DefsOf(m.target)
      BY DEF OneEach
    <3>4. ClosedDefs(DefsOf(m.target))
      <4>1. history \in Seq(HistoryEntry)
        BY DEF Inv, TypeOK
      <4>2. \/ m.target = {}
            \/ \E i \in 1 .. Len(history) : history[i].kind = "overlay" /\ m.target = history[i].overlay
        BY <3>1, <4>1, OverlayIsSnapshot
      <4>3. QED
        BY <1>3, <4>2 DEF ClosedSnapshots, ClosedDefs, DefsOf
    <3>5. Removed(cur, tgt) = Removed(rows, m.target)
      BY <3>3 DEF Removed
    <3>6. ASSUME NEW d \in Defs
          PROVE  d \in DefsOf(m.todo) <=>
                   d \in Removed(rows, m.target) /\ ~(Kind[d] = "column" /\ On[d] \in Removed(rows, m.target))
      <4> DEFINE V == Removed(rows, m.target)
      <4>1. V \subseteq DefsOf(cur)
        BY <3>3 DEF Removed
      <4> HIDE DEF V
      <4>2. m.todo = {e \in cur : Listed(V, e)}
        BY <3>2, <3>5 DEF V
      <4>3. d \in DefsOf(m.todo) <=> d \in V /\ ~(Kind[d] = "column" /\ On[d] \in V)
        BY <4>1, <4>2 DEF DefsOf, Listed, GoesWithTable
      <4>4. QED
        BY <4>3 DEF V
    <3>7. QED
      BY <1>2, <1>3, <3>1, <3>4, <3>6 DEF Calm, Lists
  <2>4. QED
    BY <2>1, <2>2, <2>3 DEF Begun
<1>5. ASSUME NEW o \in Callers
      PROVE  Calm(rows, call'[o])
  <2>1. CASE o = c
    BY <1>4, <2>1
  <2>2. CASE o # c
    <3>1. SameBut(call'[o], call[o])
      BY <2>2 DEF Begun, OthersMet
    <3>2. QED
      BY <1>2, <3>1 DEF SameBut, Calm, Active
  <2>3. QED
    BY <2>1, <2>2
<1>6. QED
  BY <1>2, <1>3, <1>5

LEMMA SnapshotsClosed ==
  ASSUME NEW h \in Seq(HistoryEntry), NEW x \in HistoryEntry, ClosedSnapshots(h),
         x.kind = "overlay" => ClosedDefs(DefsOf(x.overlay))
  PROVE  ClosedSnapshots(Append(h, x))
<1> DEFINE g == Append(h, x)
<1>1. /\ Len(g) = Len(h) + 1 /\ Len(h) \in Nat
      /\ \A i \in 1 .. Len(h) : g[i] = h[i]
      /\ g[Len(h) + 1] = x
  BY AppendHistory
<1> HIDE DEF g
<1>2. ASSUME NEW i \in 1 .. Len(g), g[i].kind = "overlay"
      PROVE  ClosedDefs(DefsOf(g[i].overlay))
  <2>1. i \in 1 .. Len(h) \/ i = Len(h) + 1
    BY <1>1
  <2>2. QED
    BY <1>1, <1>2, <2>1 DEF ClosedSnapshots
<1>3. QED
  BY <1>2 DEF ClosedSnapshots, g

LEMMA ReadCalm ==
  ASSUME Inv, OwnInv, CalmInv, NEW c \in Callers, NEW k, k = call[c], NEW m,
         OverlayRead(c, k, m) \/ CurrentRead(c, k, m) \/ VersionRead(c, k, m)
  PROVE  CalmInv'
<1>1. /\ Goes(c, k, m) /\ k.step # "idle" /\ rows' = rows /\ history' = history /\ Active(c)
  BY DEF OverlayRead, CurrentRead, VersionRead, StoreKept, Active
<1>2. SUFFICES ASSUME calm'
               PROVE  /\ ClosedSnapshots(history) /\ Calm(rows, m)
                      /\ RollsBack(m) \/ ClosedDefs(DefsOf(rows))
  BY <1>1, GoesCalm
<1>3. /\ k.alone /\ Calm(rows, k) /\ ClosedSnapshots(history)
      /\ k.op # "rollback" => ClosedDefs(DefsOf(rows))
      /\ Sound(history, k) /\ Draws(Snap(history), k) /\ k \in Call
      /\ rows \in SUBSET Entry /\ Keyed(rows) /\ history \in Seq(HistoryEntry)
  BY <1>1, <1>2, CalmHas DEF Goes, BootKept, Inv, OwnInv, TypeOK
<1>4. m.op = k.op /\ m.alone = k.alone /\ m.target = k.target /\ m.seen = k.seen /\ m.kind = k.kind
      /\ m.step # "idle"
  BY DEF OverlayRead, CurrentRead, VersionRead, Unchanged
<1>5. Calm(rows, m)
  <2>1. CASE OverlayRead(c, k, m)
    <3>1. m.op = "add" /\ m.todo = k.todo
      BY <1>3, <1>4, <2>1 DEF OverlayRead, Sound
    <3>2. QED
      BY <1>1, <1>3, <1>4, <3>1 DEF Calm
  <2>2. CASE CurrentRead(c, k, m)
    <3>1. /\ k.step = "current" /\ k.op = "rollback" /\ m.step = "version"
          /\ m.todo = {e \in rows : Doomed(DefsOf(k.todo), e)}
      BY <1>3, <2>2 DEF CurrentRead, Sound
    <3>2. k.target \in SUBSET Entry /\ k.todo \in SUBSET Entry
      BY <1>3 DEF Call
    <3>3. ClosedDefs(Final(rows, m.todo, m.seen))
      <4>1. /\ ClosedDefs(DefsOf(rows)) /\ ClosedDefs(DefsOf(k.target))
            /\ Lists(rows, k.target, DefsOf(k.todo))
        BY <1>3, <3>1 DEF Calm
      <4>2. PolicyOnly(k.seen) /\ DefsOf(k.todo) \in SUBSET Defs
        BY <1>3, <3>1, <3>2, DefsOfIs DEF Draws
      <4>3. QED
        BY <1>3, <1>4, <3>1, <3>2, <4>1, <4>2, DoomedClosed
    <3>4. QED
      BY <1>3, <1>4, <3>1, <3>3 DEF Calm
  <2>3. CASE VersionRead(c, k, m)
    <3>1. k.step = "version" /\ m.step = "insert" /\ m.todo = k.todo
      BY <2>3 DEF VersionRead
    <3>2. QED
      BY <1>3, <1>4, <3>1 DEF Calm
  <2>4. QED
    BY <2>1, <2>2, <2>3
<1>6. QED
  BY <1>3, <1>4, <1>5 DEF RollsBack

LEMMA InsertedCalm ==
  ASSUME Inv, OwnInv, CalmInv, NEW c \in Callers, NEW k, k = call[c], NEW m, Inserted(c, k, m)
  PROVE  CalmInv'
<1> DEFINE x == [kind |-> k.kind, overlay |-> k.payload]
<1>1. Goes(c, k, m) /\ k.step = "insert" /\ rows' = rows /\ Active(c) /\ k.step # "idle"
  BY DEF Inserted, Active
<1>2. SUFFICES ASSUME calm'
               PROVE  /\ ClosedSnapshots(history') /\ Calm(rows, m)
                      /\ RollsBack(m) \/ ClosedDefs(DefsOf(rows))
  BY <1>1, GoesCalm
<1>3. /\ k.alone /\ Calm(rows, k) /\ ClosedSnapshots(history)
      /\ k.op # "rollback" => ClosedDefs(DefsOf(rows))
      /\ Intended(history, rows, k) /\ Sound(history, k) /\ Shape(history, rows, k)
      /\ Draws(Snap(history), k) /\ k \in Call
      /\ rows \in SUBSET Entry /\ Keyed(rows) /\ history \in Seq(HistoryEntry)
  BY <1>1, <1>2, CalmHas DEF Goes, BootKept, Inv, OwnInv, TypeOK
<1>4. x \in HistoryEntry /\ x.kind = k.kind /\ x.overlay = k.payload
  BY <1>3 DEF Call, HistoryEntry
<1> HIDE DEF x
<1>5. CASE k.op # "rollback"
  <2>1. PICK t \in Entry : k.todo = {t} /\ Snapshot(rows, k, t)
    BY <1>1, <1>3, <1>5 DEF Intended
  <2>2. k.op = "add" => Declares(rows, t)
    BY <1>1, <1>3, <2>1 DEF Calm
  <2>3. k.op \in {"change", "remove"} => Kind[t.def] \in PolicyKinds
    BY <1>3, <2>1 DEF Draws, PolicyOnly
  <2>4. ClosedDefs(DefsOf(k.payload))
    BY <1>3, <1>5, <2>1, <2>2, <2>3, SnapshotClosed
  <2>5. ClosedSnapshots(history')
    BY <1>3, <1>4, <2>4, SnapshotsClosed DEF Inserted, x
  <2>6. \/ m = Idle
        \/ m.step = "save" /\ m.op = k.op /\ m.todo = k.todo /\ m.alone = k.alone
    BY <1>5 DEF Inserted, Unchanged
  <2>7. Calm(rows, m)
    BY <1>1, <1>3, <1>5, <2>6, IdleCalm DEF Calm
  <2>8. QED
    BY <1>3, <1>5, <2>5, <2>7
<1>6. CASE k.op = "rollback"
  <2>1. /\ k.kind # "failed" /\ ClosedDefs(DefsOf(k.target))
        /\ ClosedDefs(Final(rows, k.todo, k.seen))
    BY <1>1, <1>3, <1>6 DEF Calm
  <2>2. k.version = Len(history) + 1 /\ (k.kind = "overlay" =>
          k.todo = {} /\ k.seen = {} /\ k.payload = k.target)
    BY <1>1, <1>3, <1>6 DEF Shape
  <2>3. /\ history' = Append(history, x)
        /\ \/ k.kind = "backup" /\ Continues(k, k.todo, k.seen, m)
           \/ k.kind # "backup" /\ m = Idle
    BY <1>6, <2>2 DEF Inserted, x
  <2>4. ClosedSnapshots(history')
    BY <1>3, <1>4, <2>1, <2>2, <2>3, SnapshotsClosed
  <2>5. CASE k.kind = "backup" /\ Continues(k, k.todo, k.seen, m)
    <3>1. Calm(rows, m) /\ RollsBack(m)
      BY <1>3, <1>6, <2>1, <2>5 DEF Continues, Unchanged, Calm, RollsBack
    <3>2. QED
      BY <2>4, <3>1
  <2>6. CASE k.kind # "backup" /\ m = Idle
    <3>1. k.todo = {} /\ k.seen = {}
      BY <1>3, <2>1, <2>2, <2>6 DEF Call
    <3>2. Final(rows, {}, {}) = DefsOf(rows)
      BY DEF Final, DefsOf, Absent
    <3>3. QED
      BY <2>1, <2>4, <2>6, <3>1, <3>2, IdleCalm
  <2>7. QED
    BY <2>3, <2>5, <2>6
<1>7. QED
  BY <1>5, <1>6

LEMMA WriteCalm ==
  ASSUME Inv, OwnInv, CalmInv, NEW c \in Callers, NEW k, k = call[c], NEW m,
         SavedOne(c, k, m) \/ DeletedOne(c, k, m) \/ RestoredOne(c, k, m) \/ WriteFailed(c, k, m)
  PROVE  CalmInv'
<1>1. Goes(c, k, m) /\ k.step # "idle" /\ history' = history /\ Active(c)
  BY DEF SavedOne, DeletedOne, RestoredOne, WriteFailed, StoreKept, Active
<1>2. SUFFICES ASSUME calm'
               PROVE  /\ ClosedSnapshots(history) /\ Calm(rows', m)
                      /\ RollsBack(m) \/ ClosedDefs(DefsOf(rows'))
  BY <1>1, GoesCalm
<1>3. /\ k.alone /\ Calm(rows, k) /\ ClosedSnapshots(history)
      /\ k.op # "rollback" => ClosedDefs(DefsOf(rows))
      /\ Intended(history, rows, k) /\ Sound(history, k) /\ Shape(history, rows, k)
      /\ Draws(Snap(history), k) /\ k \in Call /\ OneDef(Snap(history))
      /\ rows \in SUBSET Entry /\ Keyed(rows) /\ rows \subseteq Snap(history)
  BY <1>1, <1>2, CalmHas, StoreInSnap DEF Goes, BootKept, Inv, OwnInv, TypeOK
<1>4. CASE SavedOne(c, k, m)
  <2>1. k.step = "save" /\ m = Idle /\ k.op # "rollback"
    BY <1>3, <1>4 DEF SavedOne, Sound
  <2>2. PICK t \in Entry : k.todo = {t} /\ Snapshot(rows, k, t)
    BY <1>3, <2>1 DEF Intended
  <2>3. rows' = IF k.op = "remove" THEN {x \in rows : x.row # t.row} ELSE Saved(rows, t)
    BY <1>4, <2>2 DEF SavedOne
  <2>4. k.op = "add" => Declares(rows, t)
    BY <1>1, <1>3, <2>2 DEF Calm
  <2>5. k.op \in {"change", "remove"} => Kind[t.def] \in PolicyKinds
    BY <1>3, <2>2 DEF Draws, PolicyOnly
  <2>6. /\ k.op = "remove" => ClosedDefs(DefsOf({x \in rows : x.row # t.row}))
        /\ k.op # "remove" => ClosedDefs(DefsOf(Saved(rows, t)))
    BY <1>3, <2>1, <2>2, <2>4, <2>5, SnapshotClosed
  <2>7. ClosedDefs(DefsOf(rows'))
    BY <2>3, <2>6
  <2>8. QED
    BY <1>3, <2>1, <2>7, IdleCalm
<1>5. CASE DeletedOne(c, k, m)
  <2>1. k.step = "delete" /\ k.op = "rollback" /\ k.todo \subseteq rows /\ k.kind = "backup"
    BY <1>3, <1>5 DEF DeletedOne, Sound, Shape
  <2>2. PICK e \in k.todo : rows' = {x \in rows : x.row # e.row} /\ Continues(k, k.todo \ {e}, k.seen, m)
    BY <1>5, <2>1 DEF DeletedOne, NewRow
  <2>3. Final(rows', k.todo \ {e}, k.seen) = Final(rows, k.todo, k.seen)
    BY <2>2, FinalDelete
  <2>4. ClosedDefs(Final(rows', m.todo, m.seen)) /\ ClosedDefs(DefsOf(m.target))
    BY <1>3, <2>1, <2>2, <2>3 DEF Calm, Continues, Unchanged
  <2>5. m.step \notin {"idle", "current"} /\ m.alone /\ m.op = "rollback" /\ m.kind # "failed"
    BY <1>3, <2>1, <2>2 DEF Continues, Unchanged
  <2>6. QED
    BY <1>3, <2>4, <2>5 DEF Calm, RollsBack
<1>6. CASE RestoredOne(c, k, m)
  <2>1. k.step = "restore" /\ k.op = "rollback" /\ k.todo = {} /\ k.kind = "backup"
    BY <1>3, <1>6 DEF RestoredOne, Sound, Shape
  <2>2. PICK e \in k.seen : rows' = Saved(rows, e) /\ Continues(k, k.todo, k.seen \ {e}, m)
    BY <1>6 DEF RestoredOne
  <2>3. OneDef(rows \cup k.seen)
    BY <1>3 DEF Draws, OneDef
  <2>4. Final(rows', {}, k.seen \ {e}) = Final(rows, {}, k.seen)
    BY <2>2, <2>3, FinalRestore
  <2>5. ClosedDefs(Final(rows', m.todo, m.seen)) /\ ClosedDefs(DefsOf(m.target))
    BY <1>3, <2>1, <2>2, <2>4 DEF Calm, Continues, Unchanged
  <2>6. m.step \notin {"idle", "current"} /\ m.alone /\ m.op = "rollback" /\ m.kind # "failed"
    BY <1>3, <2>1, <2>2 DEF Continues, Unchanged
  <2>7. QED
    BY <1>3, <2>5, <2>6 DEF Calm, RollsBack
<1>7. CASE WriteFailed(c, k, m)
  <2>1. k.op # "rollback" /\ m = Idle /\ rows' = rows
    BY <1>2, <1>7 DEF WriteFailed, StoreKept
  <2>2. QED
    BY <1>3, <2>1, IdleCalm
<1>8. QED
  BY <1>4, <1>5, <1>6, <1>7

LEMMA StepCalm ==
  ASSUME Inv, OwnInv, CalmInv, [Next]_vars
  PROVE  CalmInv'
<1>1. CASE Restart
  <2>1. /\ history' = history /\ rows' = rows /\ (\A c \in Callers : call'[c] = Idle)
        /\ calm \in BOOLEAN
    BY <1>1 DEF Restart, Inv, TypeOK
  <2>2. calm' = (calm /\ \A c \in Callers : ~(Active(c) /\ call[c].op = "rollback"))
    BY <1>1 DEF Restart
  <2>3. calm' => calm /\ \A c \in Callers : ~RollsBack(call[c])
    BY <2>2, Zenon DEF RollsBack, Active
  <2>4. QED
    BY <2>1, <2>3, IdleCalm DEF CalmInv
<1>2. ASSUME NEW c \in Callers, CallStep(c)
      PROVE  CalmInv'
  <2>1. Begun(c) \/ \E m : GoesOn(c, call[c], m)
    BY <1>2, CallSteps DEF Inv
  <2>2. QED
    BY <2>1, BegunCalm, ReadCalm, InsertedCalm, WriteCalm DEF GoesOn
<1>3. CASE UNCHANGED vars
  BY <1>3 DEF vars, CalmInv
<1>4. QED
  BY <1>1, <1>2, <1>3 DEF Next

(***************************************************************************)
(* What is stored boots: as long as calls come one at a time and no        *)
(* rollback is under way or was cut short, the loader finds the table of   *)
(* every stored column and the operation of every stored view.             *)
(***************************************************************************)
THEOREM OverlayLoadsCorrect == Spec => []OverlayLoads
<1>1. Init => CalmInv
  <2> SUFFICES ASSUME Init PROVE CalmInv
    OBVIOUS
  <2>1. Len(history) = 0 /\ rows = {} /\ \A c \in Callers : call[c] = Idle
    BY DEF Init
  <2>2. ClosedSnapshots(history) /\ ClosedDefs(DefsOf(rows))
    BY <2>1 DEF ClosedSnapshots, ClosedDefs, DefsOf
  <2>3. QED
    BY <2>1, <2>2, IdleCalm DEF CalmInv
<1>2. CalmInv => OverlayLoads
  <2> SUFFICES ASSUME CalmInv, calm, \A c \in Callers : Active(c) => call[c].op # "rollback",
                      NEW d \in DefsOf(rows)
               PROVE  Loads(rows, d)
    BY DEF OverlayLoads
  <2>1. ClosedDefs(DefsOf(rows))
    BY DEF CalmInv, RollsBack, Active
  <2>2. QED
    BY <2>1 DEF ClosedDefs, Loads, ColumnLoads, ViewLoads
<1>3. QED
  BY <1>1, <1>2, AlwaysOwned, StepCalm, PTL DEF Spec

-----------------------------------------------------------------------------
(* Columns whose table is gone.  As long as no definition has had two row  *)
(* ids, a table that something was declared on does not come back once it  *)
(* has left the store, so that no rollback deletes a column with a table   *)
(* its target does not have.                                               *)

OneRow(S) == \A e, x \in S : e.def = x.def => e.row = x.row

Tables == {d \in Defs : Kind[d] = "table"}
HasColumn(E, T) == \E e \in E : Kind[e.def] = "column" /\ On[e.def] = T
Adding(k, T) == k.op = "add" /\ T \in DefsOf(k.todo)

(* A column may be declared on T; and T is stored for good or never again. *)
Used(T) ==
  \/ T \in served
  \/ HasColumn(Snap(history), T)
  \/ \E c \in Callers : call[c].op = "add" /\ HasColumn(call[c].todo, T)
Settled(T) ==
  /\ T \in DefsOf(Snap(history))
  /\ \A c \in Callers : ~(call[c].step = "save" /\ Adding(call[c], T))

(* The table of a column of P that is not in P is not in the store R.      *)
OrphanSafe(R, P) == \A T \in Tables : HasColumn(P, T) /\ T \in DefsOf(R) => T \in DefsOf(P)

AddsTable(k) == k.op = "add" /\ k.step = "overlay" /\ \E e \in k.todo : Kind[e.def] = "table"

OrphanInv ==
  OneRow(Snap(history)) =>
    /\ \A T \in Tables : Used(T) => Settled(T)
    /\ \A i \in 1 .. Len(history) : OrphanSafe(rows, history[i].overlay)
    /\ \A c \in Callers : OrphanSafe(rows, call[c].payload) /\ OrphanSafe(rows, call[c].target)
    /\ \A c \in Callers, T \in Tables :
         AddsTable(call[c]) /\ Used(T) /\ T \in DefsOf(rows) => T \in DefsOf(call[c].seen)

LEMMA TablesAre ==
  ASSUME NEW T \in Tables
  PROVE  T \in Defs /\ T # Base /\ Kind[T] \notin PolicyKinds
  BY DeclaredOnAssumption DEF Tables, PolicyKinds

(* The columns of whatever the history or a call holds. *)
LEMMA ColumnsUsed ==
  ASSUME Inv, OwnInv, NEW T \in Tables
  PROVE  /\ \A i \in 1 .. Len(history) : HasColumn(history[i].overlay, T) => Used(T)
         /\ HasColumn(rows, T) => Used(T)
         /\ \A c \in Callers : HasColumn(call[c].todo, T) \/ HasColumn(call[c].payload, T)
                               \/ HasColumn(call[c].target, T) => Used(T)
<1> DEFINE S == Snap(history)
<1>1. HasColumn(S, T) => Used(T)
  BY DEF Used
<1>2. rows \subseteq S /\ \A i \in 1 .. Len(history) : history[i].overlay \subseteq S
  BY StoreInSnap DEF Inv, Snap
<1> HIDE DEF S
<1>3. ASSUME NEW c \in Callers
      PROVE  HasColumn(call[c].todo, T) \/ HasColumn(call[c].payload, T)
               \/ HasColumn(call[c].target, T) => Used(T)
  <2>1. Draws(S, call[c]) /\ call[c] \in Call
    BY DEF OwnInv, Inv, TypeOK, S
  <2>2. HasColumn(call[c].todo, T) => Used(T)
    <3>1. CASE call[c].op = "add"
      BY <3>1 DEF Used
    <3>2. CASE call[c].op = "rollback"
      BY <1>1, <2>1, <3>2 DEF Draws, HasColumn
    <3>3. CASE call[c].op \in {"change", "remove"}
      BY <2>1, <3>3 DEF Draws, PolicyOnly, HasColumn, PolicyKinds
    <3>4. QED
      BY <2>1, <3>1, <3>2, <3>3 DEF Call
  <2>3. call[c].payload \subseteq S \cup call[c].todo /\ call[c].target \subseteq S
    BY <2>1 DEF Draws
  <2>4. QED
    BY <1>1, <2>2, <2>3 DEF HasColumn
<1>4. QED
  BY <1>1, <1>2, <1>3 DEF HasColumn

(* A step after which no table but those being saved is in the store. *)
OnlySaved(T) ==
  T \in DefsOf(rows') =>
    \/ T \in DefsOf(rows)
    \/ \E c \in Callers : call[c].step = "save" /\ Adding(call[c], T)

LEMMA SafeStays ==
  ASSUME NEW P, OrphanSafe(rows, P),
         \A T \in Tables : OnlySaved(T), \A T \in Tables : Used(T) => Settled(T),
         \A T \in Tables : HasColumn(P, T) => Used(T)
  PROVE  OrphanSafe(rows', P)
  BY DEF OrphanSafe, OnlySaved, Settled

-----------------------------------------------------------------------------
(* Calls that begin keep OrphanInv.                                        *)

LEMMA BegunOrphan ==
  ASSUME Inv, OwnInv, OrphanInv, NEW c \in Callers, Begun(c)
  PROVE  OrphanInv'
<1> DEFINE S == Snap(history)
           m == call'[c]
<1>1. /\ rows' = rows /\ history' = history /\ served' = served /\ Snap(history') = S
      /\ rows \in SUBSET Entry /\ history \in Seq(HistoryEntry)
  BY DEF Begun, StoreKept, BootKept, Inv, TypeOK
<1>2. SUFFICES ASSUME OneRow(S)
               PROVE  /\ \A T \in Tables : Used(T)' => Settled(T)'
                      /\ \A i \in 1 .. Len(history) : OrphanSafe(rows, history[i].overlay)
                      /\ \A o \in Callers : /\ OrphanSafe(rows, call'[o].payload)
                                            /\ OrphanSafe(rows, call'[o].target)
                      /\ \A o \in Callers, T \in Tables :
                           AddsTable(call'[o]) /\ Used(T)' /\ T \in DefsOf(rows) => T \in DefsOf(call'[o].seen)
  BY <1>1 DEF OrphanInv
<1>3. ASSUME NEW o \in Callers \ {c}
      PROVE  /\ call'[o].step = call[o].step /\ call'[o].op = call[o].op
             /\ call'[o].todo = call[o].todo /\ call'[o].seen = call[o].seen
             /\ call'[o].payload = call[o].payload /\ call'[o].target = call[o].target
  BY DEF Begun, OthersMet, SameBut
<1>4. ASSUME NEW T \in Tables, Used(T)'
      PROVE  Used(T)
  <2>1. CASE T \in served \/ HasColumn(S, T)
    BY <2>1 DEF Used
  <2>2. ASSUME NEW o \in Callers, call'[o].op = "add", HasColumn(call'[o].todo, T)
        PROVE  Used(T)
    <3>1. CASE o # c
      BY <1>3, <2>2, <3>1 DEF Used
    <3>2. CASE o = c
      <4>1. AddBegun(c)
        BY <2>2, <3>2 DEF Begun, PolicyBegun, RollbackBegun
      <4>2. PICK t \in Entry : m.todo = {t} /\ (Kind[t.def] \in {"column", "view"} => Serving(On[t.def]))
        BY <4>1 DEF AddBegun
      <4>3. Serving(T)
        BY <2>2, <3>2, <4>2 DEF HasColumn
      <4>4. QED
        BY <4>3, TablesAre DEF Serving, Used
    <3>3. QED
      BY <3>1, <3>2
  <2>3. QED
    BY <1>1, <1>4, <2>1, <2>2 DEF Used
<1>5. ASSUME NEW T \in Tables, Used(T)'
      PROVE  Settled(T)'
  <2>1. Settled(T)
    BY <1>2, <1>4, <1>5 DEF OrphanInv
  <2>2. m.step # "save"
    BY DEF Begun, AddBegun, PolicyBegun, RollbackBegun
  <2>3. ASSUME NEW o \in Callers
        PROVE  ~(call'[o].step = "save" /\ Adding(call'[o], T))
    BY <1>3, <2>1, <2>2 DEF Settled, Adding
  <2>4. QED
    BY <1>1, <2>1, <2>3 DEF Settled
<1>6. OrphanSafe(rows, m.payload) /\ OrphanSafe(rows, m.target)
  <2>1. \A P : P = {} => OrphanSafe(rows, P)
    BY DEF OrphanSafe, HasColumn
  <2>2. CASE AddBegun(c)
    BY <2>1, <2>2 DEF AddBegun
  <2>3. CASE PolicyBegun(c)
    <3>1. PICK t \in Entry : /\ Kind[t.def] \in PolicyKinds /\ m.target = {}
                             /\ m.payload = Without(rows, t.def) \cup {t} \/ m.payload = Without(rows, t.def)
      BY <2>3 DEF PolicyBegun
    <3>2. ASSUME NEW T \in Tables, T \in DefsOf(rows)
          PROVE  T \in DefsOf(m.payload)
      BY <3>1, <3>2, TablesAre DEF DefsOf, Without, Declaring
    <3>3. QED
      BY <2>1, <3>1, <3>2 DEF OrphanSafe
  <2>4. CASE RollbackBegun(c)
    <3>1. m.payload = {} /\ \E v \in 0 .. Len(history) : m.target = OverlayAt(history, v)
      BY <2>4 DEF RollbackBegun
    <3>2. m.target = {} \/ \E i \in 1 .. Len(history) : m.target = history[i].overlay
      BY <1>1, <3>1, OverlayIsSnapshot
    <3>3. QED
      BY <1>2, <2>1, <3>1, <3>2 DEF OrphanInv
  <2>5. QED
    BY <2>2, <2>3, <2>4 DEF Begun
<1>7. ASSUME NEW T \in Tables, AddsTable(m), T \in DefsOf(rows)
      PROVE  T \in DefsOf(m.seen)
  <2>1. AddBegun(c)
    BY <1>7 DEF Begun, PolicyBegun, RollbackBegun, AddsTable
  <2>2. PICK t \in Entry : m.todo = {t} /\ m.seen = OfKind(rows, Kind[t.def])
    BY <2>1 DEF AddBegun
  <2>3. Kind[t.def] = "table"
    BY <1>7, <2>2 DEF AddsTable
  <2>4. QED
    BY <1>7, <2>2, <2>3 DEF OfKind, DefsOf, Tables
<1>8. ASSUME NEW o \in Callers \ {c}
      PROVE  /\ OrphanSafe(rows, call'[o].payload) /\ OrphanSafe(rows, call'[o].target)
             /\ \A T \in Tables : AddsTable(call'[o]) /\ Used(T)' /\ T \in DefsOf(rows) => T \in DefsOf(call'[o].seen)
  BY <1>2, <1>3, <1>4 DEF OrphanInv, AddsTable
<1>9. QED
  BY <1>2, <1>5, <1>6, <1>7, <1>8 DEF OrphanInv

-----------------------------------------------------------------------------
(* Calls that go on keep OrphanInv.  What such a step does to a call k of  *)
(* caller c, to the snapshots and to the tables in the store:              *)

Advances(c, k, m) ==
  /\ Goes(c, k, m) /\ k.step # "idle"
  /\ \/ m = Idle
     \/ /\ m.op = k.op /\ m.target = k.target
        /\ k.op # "rollback" => m.todo = k.todo /\ m.seen = k.seen
        /\ m.step # "overlay"
  /\ \/ history' = history
     \/ history' = Append(history, [kind |-> k.kind, overlay |-> k.payload])
  /\ m.step = "save" => /\ k.step = "insert"
                        /\ history' = Append(history, [kind |-> k.kind, overlay |-> k.payload])
  /\ \A T \in Tables : OnlySaved(T)

LEMMA GoesOnAdvances ==
  ASSUME Inv, OwnInv, NEW c \in Callers, NEW k, k = call[c], NEW m, GoesOn(c, k, m)
  PROVE  Advances(c, k, m)
<1>1. Sound(history, k) /\ Draws(Snap(history), k) /\ k \in Call
  BY DEF Inv, OwnInv, TypeOK
<1>2. rows' = rows => \A T \in Tables : OnlySaved(T)
  BY DEF OnlySaved
<1>3. CASE OverlayRead(c, k, m) \/ CurrentRead(c, k, m) \/ VersionRead(c, k, m) \/ WriteFailed(c, k, m)
  <2>1. Goes(c, k, m) /\ k.step # "idle" /\ history' = history /\ rows' = rows
    BY <1>3 DEF OverlayRead, CurrentRead, VersionRead, WriteFailed, StoreKept
  <2>2. \/ m = Idle
        \/ /\ m.op = k.op /\ m.target = k.target /\ m.step \in {"version", "insert"}
           /\ k.op # "rollback" => m.todo = k.todo /\ m.seen = k.seen
    BY <1>1, <1>3 DEF OverlayRead, CurrentRead, VersionRead, WriteFailed, Fails, Unchanged, Sound
  <2>3. QED
    BY <1>2, <2>1, <2>2, IdleIs DEF Advances
<1>4. CASE Inserted(c, k, m)
  <2>1. Goes(c, k, m) /\ k.step = "insert" /\ rows' = rows
    BY <1>4 DEF Inserted
  <2>2. /\ \/ m = Idle
           \/ /\ m.op = k.op /\ m.target = k.target /\ m.step # "overlay"
              /\ k.op # "rollback" => m.todo = k.todo /\ m.seen = k.seen
        /\ \/ history' = history
           \/ history' = Append(history, [kind |-> k.kind, overlay |-> k.payload])
        /\ m.step = "save" => history' = Append(history, [kind |-> k.kind, overlay |-> k.payload])
    BY <1>4, IdleIs DEF Inserted, Continues, Fails, Unchanged
  <2>3. QED
    BY <1>2, <2>1, <2>2 DEF Advances
<1>5. CASE SavedOne(c, k, m)
  <2>1. Goes(c, k, m) /\ k.step = "save" /\ history' = history /\ m = Idle
    BY <1>5 DEF SavedOne
  <2>2. PICK e \in k.todo : rows' = IF k.op = "remove" THEN {x \in rows : x.row # e.row}
                                    ELSE Saved(rows, e)
    BY <1>5 DEF SavedOne
  <2>3. ASSUME NEW T \in Tables
        PROVE  OnlySaved(T)
    <3>1. T \in DefsOf(rows') => T \in DefsOf(rows) \/ (k.op # "remove" /\ T = e.def)
      BY <2>2 DEF DefsOf, Saved
    <3>2. k.op = "change" => Kind[e.def] \in PolicyKinds
      BY <1>1, <2>2 DEF Draws, PolicyOnly
    <3>3. k.op # "rollback"
      BY <1>1, <2>1 DEF Sound
    <3>4. T = e.def => k.op \in {"add", "remove"}
      BY <1>1, <3>2, <3>3, TablesAre DEF Call
    <3>5. T = e.def /\ k.op = "add" => Adding(k, T)
      BY <2>2 DEF Adding, DefsOf
    <3>6. QED
      BY <2>1, <3>1, <3>4, <3>5 DEF OnlySaved
  <2>4. QED
    BY <2>1, <2>3, IdleIs DEF Advances
<1>6. CASE DeletedOne(c, k, m)
  <2>1. Goes(c, k, m) /\ k.step = "delete" /\ history' = history /\ rows' \subseteq rows
    BY <1>6 DEF DeletedOne
  <2>2. k.op = "rollback" /\ m.op = k.op /\ m.target = k.target /\ m.step \notin {"overlay", "save"}
    BY <1>1, <1>6, <2>1 DEF DeletedOne, Continues, Fails, Unchanged, Sound
  <2>3. \A T \in Tables : OnlySaved(T)
    BY <2>1 DEF OnlySaved, DefsOf
  <2>4. QED
    BY <2>1, <2>2, <2>3 DEF Advances
<1>7. CASE RestoredOne(c, k, m)
  <2>1. Goes(c, k, m) /\ k.step = "restore" /\ history' = history
    BY <1>7 DEF RestoredOne
  <2>2. k.op = "rollback"
    BY <1>1, <2>1 DEF Sound
  <2>3. PICK e \in k.seen : rows' = Saved(rows, e) /\ Continues(k, k.todo, k.seen \ {e}, m)
    BY <1>7 DEF RestoredOne
  <2>4. m.op = k.op /\ m.target = k.target /\ m.step \notin {"overlay", "save"}
    BY <2>3 DEF Continues, Unchanged
  <2>5. Kind[e.def] \in PolicyKinds
    BY <1>1, <2>2 DEF Draws, PolicyOnly
  <2>6. \A T \in Tables : OnlySaved(T)
    BY <2>3, <2>5, TablesAre DEF OnlySaved, DefsOf, Saved
  <2>7. QED
    BY <2>1, <2>2, <2>4, <2>6 DEF Advances
<1>8. QED
  BY <1>3, <1>4, <1>5, <1>6, <1>7 DEF GoesOn

(* What is going to be appended has no orphan it did not have. *)
LEMMA PayloadSafe ==
  ASSUME Inv, OwnInv, OrphanInv, OneRow(Snap(history)), NEW c \in Callers, NEW k, k = call[c],
         NEW m, GoesOn(c, k, m)
  PROVE  OrphanSafe(rows, m.payload) /\ OrphanSafe(rows, m.target)
<1>1. /\ Sound(history, k) /\ Draws(Snap(history), k) /\ k \in Call
      /\ OrphanSafe(rows, k.payload) /\ OrphanSafe(rows, k.target)
  BY DEF Inv, OwnInv, TypeOK, OrphanInv
<1>2. \A P : P = {} \/ P = rows => OrphanSafe(rows, P)
  BY DEF OrphanSafe, HasColumn
<1>3. m.target = k.target \/ m.target = {}
  BY IdleIs DEF GoesOn, OverlayRead, CurrentRead, VersionRead, Inserted, SavedOne, DeletedOne,
     RestoredOne, WriteFailed, Continues, Fails, Unchanged
<1>4. CASE OverlayRead(c, k, m)
  <2>1. k.op = "add" /\ k.step = "overlay"
    BY <1>1, <1>4 DEF OverlayRead, Sound
  <2>2. PICK t \in Entry : k.todo = {t}
    BY <1>1, <2>1 DEF Draws
  <2>3. m.payload = (IF Kind[t.def] \in {"table", "column"}
                     THEN {x \in rows : Kind[x.def] # Kind[t.def]} \cup k.seen ELSE rows) \cup {t}
    BY <1>4, <2>2 DEF OverlayRead
  <2>4. \A x \in k.seen : Kind[x.def] = Kind[t.def]
    BY <1>1, <2>1, <2>2 DEF Draws
  <2>5. ASSUME NEW T \in Tables, HasColumn(m.payload, T), T \in DefsOf(rows)
        PROVE  T \in DefsOf(m.payload)
    <3>1. PICK x \in rows : x.def = T
      BY <2>5 DEF DefsOf
    <3>2. CASE Kind[t.def] # "table"
      BY <2>3, <3>1, <3>2 DEF DefsOf, Tables
    <3>3. CASE Kind[t.def] = "table"
      <4>1. HasColumn(rows, T)
        BY <2>3, <2>4, <2>5, <3>3 DEF HasColumn
      <4>2. Used(T)
        BY <4>1, ColumnsUsed
      <4>3. AddsTable(k)
        BY <2>1, <2>2, <3>3 DEF AddsTable
      <4>4. T \in DefsOf(k.seen)
        BY <2>5, <4>2, <4>3 DEF OrphanInv
      <4>5. QED
        BY <2>3, <3>3, <4>4 DEF DefsOf
    <3>4. QED
      BY <3>2, <3>3
  <2>6. QED
    BY <1>1, <1>2, <1>3, <2>5 DEF OrphanSafe
<1>5. CASE ~OverlayRead(c, k, m)
  <2>1. m.payload \in {k.payload, k.target, rows, {}}
    BY <1>5, IdleIs DEF GoesOn, CurrentRead, VersionRead, Inserted, SavedOne, DeletedOne,
       RestoredOne, WriteFailed, Continues, Fails, Unchanged
  <2>2. QED
    BY <1>1, <1>2, <1>3, <2>1
<1>6. QED
  BY <1>4, <1>5

LEMMA GoesOnOrphan ==
  ASSUME Inv, OwnInv, OrphanInv, OwnInv', NEW c \in Callers, NEW k, k = call[c], NEW m, GoesOn(c, k, m)
  PROVE  OrphanInv'
<1> DEFINE S == Snap(history)
           x == [kind |-> k.kind, overlay |-> k.payload]
<1>1. Advances(c, k, m)
  BY GoesOnAdvances
<1>2. /\ k \in Call /\ m = call'[c] /\ call' = [call EXCEPT ![c] = m] /\ served' = served
      /\ call \in [Callers -> Call] /\ history \in Seq(HistoryEntry)
      /\ Draws(S, k) /\ Sound(history, k)
  BY <1>1 DEF Advances, Goes, BootKept, Inv, OwnInv, TypeOK
<1>3. \A o \in Callers \ {c} : call'[o] = call[o]
  BY <1>2
<1>4. x \in HistoryEntry /\ x.overlay = k.payload
  BY <1>2 DEF Call, HistoryEntry
<1> HIDE DEF x
<1>5. /\ Snap(history') = S \/ (history' = Append(history, x) /\ Snap(history') = S \cup k.payload)
      /\ m.step = "save" => k.step = "insert" /\ Snap(history') = S \cup k.payload
      /\ S \subseteq Snap(history')
  BY <1>1, <1>2, <1>4, SnapAppend, ZenonT(30) DEF Advances, x
<1>6. SUFFICES ASSUME OneRow(Snap(history'))
               PROVE  /\ \A T \in Tables : Used(T)' => Settled(T)'
                      /\ \A i \in 1 .. Len(history') : OrphanSafe(rows', history'[i].overlay)
                      /\ \A o \in Callers : /\ OrphanSafe(rows', call'[o].payload)
                                            /\ OrphanSafe(rows', call'[o].target)
                      /\ \A o \in Callers, T \in Tables :
                           AddsTable(call'[o]) /\ Used(T)' /\ T \in DefsOf(rows') => T \in DefsOf(call'[o].seen)
  BY DEF OrphanInv
<1>7. OneRow(S)
  BY <1>5, <1>6 DEF OneRow
<1>8. \A T \in Tables : OnlySaved(T) /\ (Used(T) => Settled(T))
  BY <1>1, <1>7 DEF Advances, OrphanInv
<1>9. ASSUME NEW T \in Tables, Used(T)'
      PROVE  Used(T)
  <2>1. \/ T \in served
        \/ HasColumn(S, T) \/ HasColumn(k.payload, T)
        \/ \E o \in Callers : call'[o].op = "add" /\ HasColumn(call'[o].todo, T)
    BY <1>2, <1>5, <1>9 DEF Used, HasColumn
  <2>2. ASSUME NEW o \in Callers, call'[o].op = "add", HasColumn(call'[o].todo, T)
        PROVE  HasColumn(call[o].todo, T)
    <3>1. CASE o = c
      BY <1>1, <1>2, <2>2, <3>1, IdleIs DEF Advances, HasColumn
    <3>2. CASE o # c
      BY <1>3, <2>2, <3>2
    <3>3. QED
      BY <3>1, <3>2
  <2>3. QED
    BY <2>1, <2>2, ColumnsUsed DEF Used
<1>10. ASSUME NEW T \in Tables, Used(T)'
       PROVE  Settled(T)'
  <2>1. Settled(T)
    BY <1>8, <1>9, <1>10
  <2>2. ~(m.step = "save" /\ Adding(m, T))
    <3>1. SUFFICES ASSUME m.step = "save", Adding(m, T)
                   PROVE  FALSE
      OBVIOUS
    <3>2. m.op = k.op /\ m.todo = k.todo /\ k.op = "add" /\ k.step = "insert"
      BY <1>1, <3>1, IdleIs DEF Advances, Adding
    <3>3. PICK t \in k.todo : t.def = T
      BY <3>1, <3>2 DEF Adding, DefsOf
    <3>4. Absent(S, t) /\ t \in k.payload
      BY <1>2, <3>2 DEF Draws, Sound
    <3>5. PICK y \in S : y.def = T
      BY <2>1 DEF Settled, DefsOf
    <3>6. t \in Snap(history') /\ y \in Snap(history')
      BY <1>5, <3>1, <3>4
    <3>7. QED
      BY <1>6, <3>3, <3>4, <3>5, <3>6 DEF OneRow, Absent
  <2>3. ASSUME NEW o \in Callers
        PROVE  ~(call'[o].step = "save" /\ Adding(call'[o], T))
    BY <1>2, <1>3, <2>1, <2>2 DEF Settled
  <2>4. T \in DefsOf(Snap(history'))
    BY <1>5, <2>1 DEF Settled, DefsOf
  <2>5. QED
    BY <2>3, <2>4 DEF Settled
<1>11. OrphanSafe(rows', m.payload) /\ OrphanSafe(rows', m.target)
  <2>1. OrphanSafe(rows, m.payload) /\ OrphanSafe(rows, m.target)
    BY <1>7, PayloadSafe
  <2>2. ASSUME NEW T \in Tables, HasColumn(m.payload, T) \/ HasColumn(m.target, T)
        PROVE  Used(T)
    <3>1. m.payload \subseteq Snap(history') \cup m.todo /\ m.target \subseteq Snap(history')
      BY <1>2 DEF OwnInv, Draws
    <3>2. HasColumn(Snap(history'), T) => HasColumn(S, T) \/ HasColumn(k.payload, T)
      BY <1>5 DEF HasColumn
    <3>3. HasColumn(Snap(history'), T) => Used(T)
      BY <1>2, <3>2, ColumnsUsed DEF Used
    <3>4. HasColumn(m.todo, T) => Used(T)
      <4>1. Draws(Snap(history'), m) /\ m \in Call
        BY <1>1, <1>2 DEF OwnInv, Advances, Goes
      <4>2. CASE m.op = "rollback"
        BY <3>3, <4>1, <4>2 DEF Draws, HasColumn
      <4>3. CASE m.op # "rollback"
        <5>1. m.todo = k.todo \/ m.todo = {}
          BY <1>1, <4>3, IdleIs DEF Advances
        <5>2. QED
          BY <1>2, <5>1, ColumnsUsed DEF HasColumn
      <4>4. QED
        BY <4>2, <4>3
    <3>5. QED
      BY <2>2, <3>1, <3>3, <3>4 DEF HasColumn
  <2>3. QED
    BY <1>8, <2>1, <2>2, SafeStays
<1>12. ASSUME NEW o \in Callers
       PROVE  OrphanSafe(rows', call'[o].payload) /\ OrphanSafe(rows', call'[o].target)
  <2>1. CASE o = c
    BY <1>2, <1>11, <2>1
  <2>2. CASE o # c
    <3>1. OrphanSafe(rows, call[o].payload) /\ OrphanSafe(rows, call[o].target)
      BY <1>7 DEF OrphanInv
    <3>2. OrphanSafe(rows', call[o].payload) /\ OrphanSafe(rows', call[o].target)
      BY <1>8, <3>1, SafeStays, ColumnsUsed
    <3>3. QED
      BY <1>3, <2>2, <3>2
  <2>3. QED
    BY <2>1, <2>2
<1>13. \A i \in 1 .. Len(history') : OrphanSafe(rows', history'[i].overlay)
  <2>1. \A i \in 1 .. Len(history) : OrphanSafe(rows', history[i].overlay)
    BY <1>7, <1>8, SafeStays, ColumnsUsed DEF OrphanInv
  <2>2. CASE history' = history
    BY <2>1, <2>2
  <2>3. CASE history' = Append(history, x)
    <3>1. /\ Len(history') = Len(history) + 1 /\ Len(history) \in Nat
          /\ \A i \in 1 .. Len(history) : history'[i] = history[i]
          /\ history'[Len(history) + 1] = x
      BY <1>2, <1>4, <2>3, AppendHistory
    <3>2. OrphanSafe(rows', k.payload)
      <4>1. OrphanSafe(rows, k.payload)
        BY <1>7 DEF OrphanInv
      <4>2. QED
        BY <1>8, <4>1, SafeStays, ColumnsUsed
    <3>3. ASSUME NEW i \in 1 .. Len(history')
          PROVE  OrphanSafe(rows', history'[i].overlay)
      <4>1. i \in 1 .. Len(history) \/ i = Len(history) + 1
        BY <3>1
      <4>2. QED
        BY <1>4, <2>1, <3>1, <3>2, <4>1
    <3>4. QED
      BY <3>3
  <2>4. QED
    BY <1>1, <2>2, <2>3 DEF Advances, x
<1>14. ASSUME NEW o \in Callers, NEW T \in Tables, AddsTable(call'[o]), Used(T)', T \in DefsOf(rows')
       PROVE  T \in DefsOf(call'[o].seen)
  <2>1. Used(T) /\ T \in DefsOf(rows)
    BY <1>8, <1>9, <1>14 DEF OnlySaved, Settled
  <2>2. o # c
    BY <1>1, <1>2, <1>14, IdleIs DEF Advances, AddsTable
  <2>3. call'[o] = call[o]
    BY <1>3, <2>2
  <2>4. QED
    BY <1>7, <1>14, <2>1, <2>3 DEF OrphanInv
<1>15. QED
  BY <1>10, <1>12, <1>13, <1>14

LEMMA StepOrphan ==
  ASSUME Inv, OwnInv, OrphanInv, OwnInv', [Next]_vars
  PROVE  OrphanInv'
<1>1. CASE Restart
  <2>1. /\ history' = history /\ rows' = rows /\ (\A c \in Callers : call'[c] = Idle)
        /\ served' \subseteq DefsOf(rows)
    BY <1>1 DEF Restart, Loads
  <2>2. \A P : P = {} => OrphanSafe(rows, P)
    BY DEF OrphanSafe, HasColumn
  <2>3. ASSUME OneRow(Snap(history)), NEW T \in Tables, Used(T)'
        PROVE  Settled(T)'
    <3>1. T \in served' \/ HasColumn(Snap(history), T)
      BY <2>1, <2>3, IdleIs DEF Used, HasColumn
    <3>2. T \in DefsOf(Snap(history))
      <4>1. CASE T \in served'
        BY <2>1, <4>1, StoreInSnap DEF Inv, DefsOf
      <4>2. CASE HasColumn(Snap(history), T)
        BY <2>3, <4>2 DEF OrphanInv, Used, Settled
      <4>3. QED
        BY <3>1, <4>1, <4>2
    <3>3. QED
      BY <2>1, <3>2, IdleIs DEF Settled
  <2>4. ASSUME OneRow(Snap(history)), NEW c \in Callers
        PROVE  OrphanSafe(rows, call'[c].payload) /\ OrphanSafe(rows, call'[c].target)
    BY <2>1, <2>2, <2>4, IdleIs
  <2>5. \A c \in Callers : ~AddsTable(call'[c])
    BY <2>1, IdleIs DEF AddsTable
  <2>6. QED
    BY <2>1, <2>3, <2>4, <2>5 DEF OrphanInv
<1>2. ASSUME NEW c \in Callers, CallStep(c)
      PROVE  OrphanInv'
  <2>1. Begun(c) \/ \E m : GoesOn(c, call[c], m)
    BY <1>2, CallSteps DEF Inv
  <2>2. QED
    BY <2>1, BegunOrphan, GoesOnOrphan
<1>3. CASE UNCHANGED vars
  BY <1>3 DEF vars, OrphanInv, Used, Settled
<1>4. QED
  BY <1>1, <1>2, <1>3 DEF Next

-----------------------------------------------------------------------------
(* The plan of a rollback that is alone: R, the store, without what is     *)
(* left to delete (T) and with what is left to write back (W), means what  *)
(* the target means.                                                       *)

After(R, T, W) == {x \in R : Absent(T, x) /\ Absent(W, x)} \cup W

Planned(R, k) ==
  /\ k.todo = {e \in R : Listed(Removed(R, k.target), e)}
  /\ k.seen = {e \in k.target : e.def \in Updated(R, k.target) \cup Restored(R, k.target)}
  /\ Supported(R, k.target)

Plan(R, k) ==
  k.op = "rollback" /\ k.alone =>
    /\ k.step = "current" => Planned(R, k)
    /\ k.step # "current" /\ k.kind = "backup" => Content(After(R, k.todo, k.seen)) = Content(k.target)
    /\ k.kind = "overlay" => Content(R) = Content(k.target)

PlanInv == OneRow(Snap(history)) => \A c \in Callers : Plan(rows, call[c])

LEMMA AllOfThem ==
  ASSUME NEW E, NoTwins(E), NEW F \in OneEach(E)
  PROVE  F = E
<1>1. F \subseteq E /\ DefsOf(F) = DefsOf(E)
  BY DEF OneEach
<1>2. ASSUME NEW e \in E
      PROVE  e \in F
  <2>1. e.def \in DefsOf(F)
    BY <1>1 DEF DefsOf
  <2>2. PICK x \in F : x.def = e.def
    BY <2>1 DEF DefsOf
  <2>3. QED
    BY <1>1, <2>2 DEF NoTwins
<1>3. QED
  BY <1>1, <1>2

LEMMA NoTwinsOf ==
  ASSUME NEW S, OneRow(S), NEW E, E \subseteq S, Keyed(E)
  PROVE  NoTwins(E)
  BY DEF OneRow, Keyed, NoTwins

LEMMA SameContent ==
  ASSUME NEW E, NEW F,
         \A e \in E : \E x \in F : x.def = e.def /\ x.val = e.val,
         \A x \in F : \E e \in E : x.def = e.def /\ x.val = e.val
  PROVE  Content(E) = Content(F)
  BY DEF Content

(* What is deleted from R (T, found with D) and written back (W) for G.    *)
Chosen(R, G, D, T, W) ==
  /\ D = {e \in R : Listed(Removed(R, G), e)}
  /\ T = {e \in R : Doomed(DefsOf(D), e)}
  /\ W = {e \in G : e.def \in Updated(R, G) \cup Restored(R, G)}

(* What the rollback is about to do, once it has read the store again,     *)
(* makes the target of it.                                                 *)
LEMMA PlanReaches ==
  ASSUME NEW S \in SUBSET Entry, OneRow(S), OneDef(S), Plain(S),
         NEW R, R \subseteq S, Keyed(R), NEW G, G \subseteq S, Keyed(G), OrphanSafe(R, G),
         NEW D, NEW T, NEW W, Chosen(R, G, D, T, W)
  PROVE  Content(After(R, T, W)) = Content(G)
<1>0. /\ D = {e \in R : Listed(Removed(R, G), e)}
      /\ T = {e \in R : Doomed(DefsOf(D), e)}
      /\ W = {e \in G : e.def \in Updated(R, G) \cup Restored(R, G)}
  BY DEF Chosen
<1>1. NoTwins(R) /\ NoTwins(G)
  BY NoTwinsOf
<1>2. ASSUME NEW x \in R, NEW y \in G, x.def = y.def
      PROVE  x.row = y.row /\ (x.val = y.val \/ y \in W)
  <2>1. x.row = y.row
    BY <1>2 DEF OneRow
  <2>2. CASE Kind[x.def] \in PolicyKinds
    <3>1. x.val # y.val => x.def \in Updated(R, G)
      BY <1>2, <2>2 DEF Updated
    <3>2. x.def \in Updated(R, G) => y \in W
      BY <1>0, <1>2
    <3>3. QED
      BY <2>1, <3>1, <3>2
  <2>3. CASE Kind[x.def] \notin PolicyKinds
    <3>1. x \in S /\ y \in S /\ Kind[y.def] \notin PolicyKinds
      BY <1>2, <2>3
    <3>2. x.val = BaseValue /\ y.val = BaseValue
      BY <2>3, <3>1 DEF Plain
    <3>3. QED
      BY <2>1, <3>2
  <2>4. QED
    BY <2>1, <2>2, <2>3
<1>3. \A x \in R : Absent(T, x) <=> ~Doomed(DefsOf(D), x)
  BY <1>0 DEF Absent, Keyed
<1>4. ASSUME NEW x \in R
      PROVE  x.def \in DefsOf(D) <=> x.def \in Removed(R, G) /\ ~GoesWithTable(Removed(R, G), x)
  BY <1>0 DEF DefsOf, Listed, GoesWithTable
<1>5. ASSUME NEW x \in R, Kind[x.def] = "column", On[x.def] \in Removed(R, G)
      PROVE  On[x.def] \in Tables /\ On[x.def] \in DefsOf(D)
  <2>1. x.def \in Defs /\ Removed(R, G) \subseteq Defs
    BY DEF Removed, DefsOf, Entry
  <2>2. On[x.def] \in Tables
    BY <1>5, <2>1, DeclaredOnAssumption DEF Tables
  <2>3. PICK t \in R : t.def = On[x.def]
    BY <1>5 DEF Removed, DefsOf
  <2>4. ~GoesWithTable(Removed(R, G), t)
    BY <2>2, <2>3 DEF GoesWithTable, Tables
  <2>5. QED
    BY <1>4, <1>5, <2>2, <2>3, <2>4
<1>6. ASSUME NEW e \in After(R, T, W)
      PROVE  \E x \in G : x.def = e.def /\ x.val = e.val
  <2>1. CASE e \in W
    BY <1>0, <2>1
  <2>2. CASE e \in R /\ Absent(T, e) /\ Absent(W, e)
    <3>1. ~Doomed(DefsOf(D), e)
      BY <1>3, <2>2
    <3>2. e.def \notin Removed(R, G)
      BY <1>4, <1>5, <2>2, <3>1 DEF Doomed, GoesWithTable
    <3>3. PICK y \in G : y.def = e.def
      BY <2>2, <3>2 DEF Removed, DefsOf
    <3>4. y.row = e.row /\ (e.val = y.val \/ y \in W)
      BY <1>2, <2>2, <3>3
    <3>5. QED
      BY <2>2, <3>3, <3>4 DEF Absent
  <2>3. QED
    BY <2>1, <2>2 DEF After
<1>7. ASSUME NEW y \in G
      PROVE  \E e \in After(R, T, W) : y.def = e.def /\ y.val = e.val
  <2>1. CASE y \in W
    BY <2>1 DEF After
  <2>2. CASE y \notin W
    <3>1. PICK x \in R : x.def = y.def
      BY <1>0, <2>2 DEF Restored, DefsOf
    <3>2. x.row = y.row /\ x.val = y.val
      BY <1>2, <2>2, <3>1
    <3>3. x.def \notin Removed(R, G)
      BY <3>1 DEF Removed, DefsOf
    <3>4. ~Doomed(DefsOf(D), x)
      <4>1. x.def \notin DefsOf(D)
        BY <1>4, <3>3
      <4>2. ~GoesWithTable(DefsOf(D), x)
        <5>1. SUFFICES ASSUME Kind[x.def] = "column", On[x.def] \in DefsOf(D)
                       PROVE  FALSE
          BY DEF GoesWithTable
        <5>2. On[x.def] \in Removed(R, G)
          BY <1>0, <5>1 DEF DefsOf, Listed
        <5>3. On[x.def] \in Tables
          BY <1>5, <5>1, <5>2
        <5>4. HasColumn(G, On[x.def]) /\ On[x.def] \in DefsOf(R)
          BY <3>1, <5>1, <5>2 DEF HasColumn, Removed
        <5>5. On[x.def] \in DefsOf(G)
          BY <5>3, <5>4 DEF OrphanSafe
        <5>6. QED
          BY <5>2, <5>5 DEF Removed
      <4>3. QED
        BY <4>1, <4>2 DEF Doomed
    <3>5. Absent(T, x)
      BY <1>3, <3>4
    <3>6. Absent(W, x)
      <4>1. ASSUME NEW z \in W, z.row = x.row
            PROVE  FALSE
        <5>1. z.def = y.def
          BY <1>0, <3>1, <4>1 DEF OneDef
        <5>2. z = y
          BY <1>0, <1>1, <4>1, <5>1 DEF NoTwins
        <5>3. QED
          BY <2>2, <4>1, <5>2
      <4>2. QED
        BY <4>1 DEF Absent
    <3>7. QED
      BY <3>1, <3>2, <3>5, <3>6 DEF After
  <2>3. QED
    BY <2>1, <2>2
<1>8. QED
  BY <1>6, <1>7, SameContent

(* Deleting and writing back follow the plan. *)
LEMMA AfterDelete ==
  ASSUME NEW R, NEW T, NEW W, NEW e \in T, NEW Q, Q = {x \in R : x.row # e.row}
  PROVE  After(Q, T \ {e}, W) = After(R, T, W)
  BY DEF After, Absent

LEMMA AfterRestore ==
  ASSUME NEW R, NEW W, Keyed(W), NEW e \in W, NEW Q, Q = Saved(R, e)
  PROVE  After(Q, {}, W \ {e}) = After(R, {}, W)
<1>1. Absent(W \ {e}, e) /\ \A x : Absent({}, x)
  BY DEF Absent, Keyed
<1>2. \A x : Absent(W, x) <=> Absent(W \ {e}, x) /\ x.row # e.row
  BY DEF Absent
<1> DEFINE A(x) == Absent({}, x)
           B(x) == Absent(W, x)
           C(x) == Absent(W \ {e}, x)
<1>3. /\ After(Q, {}, W \ {e}) = {x \in Q : A(x) /\ C(x)} \cup (W \ {e})
      /\ After(R, {}, W) = {x \in R : A(x) /\ B(x)} \cup W
      /\ Q = {x \in R : x.row # e.row} \cup {e}
  BY DEF After, Saved
<1>4. C(e) /\ (\A x : A(x)) /\ (\A x : B(x) <=> C(x) /\ x.row # e.row)
  BY <1>1, <1>2
<1> HIDE DEF A, B, C
<1>5. QED
  BY <1>3, <1>4

LEMMA AfterAll ==
  ASSUME NEW R
  PROVE  After(R, {}, {}) = R
  BY DEF After, Absent

LEMMA IdlePlan ==
  ASSUME NEW R
  PROVE  Plan(R, Idle)
  BY IdleIs DEF Plan

LEMMA BegunPlan ==
  ASSUME Inv, OwnInv, PlanInv, NEW c \in Callers, Begun(c)
  PROVE  PlanInv'
<1> DEFINE S == Snap(history)
           m == call'[c]
<1>1. /\ rows' = rows /\ history' = history /\ Snap(history') = S
      /\ rows \subseteq S /\ Keyed(rows) /\ KeyedSnapshots(history) /\ history \in Seq(HistoryEntry)
  BY StoreInSnap DEF Begun, StoreKept, Inv, OwnInv, TypeOK
<1>2. SUFFICES ASSUME OneRow(S), NEW o \in Callers
               PROVE  Plan(rows, call'[o])
  BY <1>1 DEF PlanInv
<1>3. CASE o # c
  BY <1>3 DEF Begun, OthersMet, Plan
<1>4. CASE o = c /\ (AddBegun(c) \/ PolicyBegun(c))
  BY <1>4 DEF AddBegun, PolicyBegun, Plan
<1>5. CASE o = c /\ RollbackBegun(c)
  <2>1. m.target \subseteq S /\ Keyed(m.target)
    BY <1>1, <1>5, OverlayInSnap DEF RollbackBegun
  <2>2. PICK cur \in OneEach(rows), tgt \in OneEach(m.target) :
          /\ Supported(cur, tgt)
          /\ m.todo = {e \in cur : Listed(Removed(cur, tgt), e)}
          /\ m.seen = {e \in tgt : e.def \in Updated(cur, tgt) \cup Restored(cur, tgt)}
    BY <1>5 DEF RollbackBegun
  <2> HIDE DEF S
  <2>3. cur = rows /\ tgt = m.target
    BY <1>1, <1>2, <2>1, NoTwinsOf, AllOfThem
  <2>4. Planned(rows, m)
    BY <2>2, <2>3 DEF Planned
  <2>5. m.step = "current" /\ m.kind = "backup"
    BY <1>5 DEF RollbackBegun
  <2>6. QED
    BY <1>5, <2>4, <2>5 DEF Plan
<1>6. QED
  BY <1>3, <1>4, <1>5 DEF Begun

(* A rollback that is alone, once its plan is made, and as it follows it.  *)
LEMMA ContinuesPlan ==
  ASSUME NEW R, NEW k, NEW m, NEW T, NEW W, Continues(k, T, W, m), k.kind = "backup",
         Content(After(R, T, W)) = Content(k.target)
  PROVE  Plan(R, m)
<1>1. m.target = k.target /\ m.todo = T /\ m.seen = W /\ m.step # "current"
  BY DEF Continues, Unchanged
<1>2. m.kind = "overlay" => T = {} /\ W = {}
  BY DEF Continues
<1>3. After(R, {}, {}) = R
  BY AfterAll
<1>4. QED
  BY <1>1, <1>2, <1>3 DEF Plan

LEMMA FailsPlan ==
  ASSUME NEW R, NEW k, NEW m, Fails(k, m)
  PROVE  Plan(R, m)
  BY DEF Fails, Plan

LEMMA CurrentReadPlan ==
  ASSUME Inv, OwnInv, OrphanInv, PlanInv, OneRow(Snap(history)),
         NEW c \in Callers, NEW k, NEW m, CurrentRead(c, k, m)
  PROVE  Plan(rows, m)
<1> DEFINE S == Snap(history)
<1>1. /\ k = call[c] /\ k.step = "current" /\ m.step = "version"
      /\ Unchanged(k, m) /\ m.seen = k.seen /\ m.kind = k.kind
      /\ m.todo = {e \in rows : Doomed(DefsOf(k.todo), e)}
  BY DEF CurrentRead, Goes
<1>2. SUFFICES ASSUME m.op = "rollback", m.alone
               PROVE  /\ Content(After(rows, m.todo, m.seen)) = Content(m.target)
                      /\ m.kind # "overlay"
  BY <1>1 DEF Plan
<1>3. /\ k.op = "rollback" /\ k.alone /\ m.target = k.target
      /\ Planned(rows, k) /\ k.kind = "backup"
  BY <1>1, <1>2, ZenonT(30) DEF Unchanged, PlanInv, Plan, OwnInv, Shape
<1>4. /\ OneDef(S) /\ Plain(S) /\ rows \subseteq S /\ Keyed(rows) /\ S \in SUBSET Entry
      /\ k.target \subseteq S /\ Keyed(k.target)
  BY <1>1, StoreInSnap, SnapIs DEF Inv, TypeOK, OwnInv, Draws
<1>5. OrphanSafe(rows, k.target)
  BY <1>1 DEF OrphanInv
<1>6. Chosen(rows, k.target, k.todo, m.todo, m.seen)
  BY <1>1, <1>3 DEF Planned, Chosen
<1> HIDE DEF S
<1>7. Content(After(rows, m.todo, m.seen)) = Content(k.target)
  BY <1>1, <1>4, <1>5, <1>6, PlanReaches DEF S
<1>8. QED
  BY <1>1, <1>3, <1>7

LEMMA GoesOnPlan ==
  ASSUME Inv, OwnInv, OrphanInv, PlanInv, NEW c \in Callers, NEW k, k = call[c], NEW m, GoesOn(c, k, m)
  PROVE  PlanInv'
<1> DEFINE S == Snap(history)
           x == [kind |-> k.kind, overlay |-> k.payload]
<1>1. Advances(c, k, m)
  BY GoesOnAdvances
<1>2. /\ k \in Call /\ m = call'[c] /\ call' = [call EXCEPT ![c] = m]
      /\ call \in [Callers -> Call] /\ history \in Seq(HistoryEntry)
      /\ Draws(S, k) /\ Shape(history, rows, k)
  BY <1>1 DEF Advances, Goes, Inv, OwnInv, TypeOK
<1>3. x \in HistoryEntry
  BY <1>2 DEF Call, HistoryEntry
<1>4. S \subseteq Snap(history')
  BY <1>1, <1>2, <1>3, SnapAppend DEF Advances
<1>5. SUFFICES ASSUME OneRow(Snap(history')), NEW o \in Callers
               PROVE  Plan(rows', call'[o])
  BY DEF PlanInv
<1>6. OneRow(S)
  BY <1>4, <1>5 DEF OneRow
<1> HIDE DEF S, x
<1>7. CASE o # c
  <2>1. call'[o] = call[o]
    BY <1>2, <1>7
  <2>2. ~(Active(o) /\ call[o].alone)
    BY <1>1, <1>7 DEF Inv, Lone, Active, Advances
  <2>3. call[o].op = "rollback" => call[o].step # "idle"
    BY DEF Inv, Sound
  <2>4. QED
    BY <2>1, <2>2, <2>3 DEF Active, Plan
<1>8. ASSUME k.op = "rollback", k.alone
      PROVE  Plan(rows', m)
  <2>1. k.step # "current" /\ k.kind = "backup" => Content(After(rows, k.todo, k.seen)) = Content(k.target)
    BY <1>6, <1>8 DEF PlanInv, Plan, S
  <2>2. k.step = "current" \/ k.kind = "overlay" \/ k.kind = "failed" \/ k.kind = "backup"
    BY <1>2 DEF Call
  <2>3. CASE CurrentRead(c, k, m)
    BY <1>6, <2>3, CurrentReadPlan DEF CurrentRead, StoreKept, S
  <2>4. CASE VersionRead(c, k, m)
    <3>1. /\ rows' = rows /\ m.todo = k.todo /\ m.seen = k.seen /\ m.kind = k.kind
          /\ m.target = k.target /\ m.step = "insert" /\ k.step = "version"
      BY <2>4 DEF VersionRead, StoreKept
    <3>2. k.kind = "overlay" => Content(rows) = Content(k.target)
      BY <1>6, <1>8 DEF PlanInv, Plan, S
    <3>3. QED
      BY <2>1, <3>1, <3>2 DEF Plan
  <2>5. CASE Inserted(c, k, m)
    <3>1. rows' = rows /\ k.step = "insert"
      BY <2>5 DEF Inserted
    <3>2. CASE k.kind = "backup" /\ Continues(k, k.todo, k.seen, m)
      BY <2>1, <3>1, <3>2, ContinuesPlan
    <3>3. CASE Fails(k, m)
      BY <3>3, FailsPlan
    <3>4. CASE m = Idle
      BY <3>4, IdlePlan
    <3>5. QED
      BY <1>8, <2>5, <3>2, <3>3, <3>4 DEF Inserted
  <2>6. CASE SavedOne(c, k, m)
    BY <2>6, IdlePlan DEF SavedOne
  <2>7. CASE DeletedOne(c, k, m)
    <3>1. PICK e \in k.todo :
            \/ rows' = {y \in rows : y.row # e.row} /\ Continues(k, k.todo \ {e}, k.seen, m)
            \/ NewRow(rows, e) /\ rows' = rows /\ Fails(k, m)
      BY <2>7 DEF DeletedOne
    <3>2. CASE rows' = {y \in rows : y.row # e.row} /\ Continues(k, k.todo \ {e}, k.seen, m)
      <4>1. k.kind = "backup" /\ k.step # "current"
        BY <1>2, <1>8, <2>7 DEF Shape, DeletedOne
      <4>2. After(rows', k.todo \ {e}, k.seen) = After(rows, k.todo, k.seen)
        BY <3>2, AfterDelete
      <4>3. QED
        BY <2>1, <3>2, <4>1, <4>2, ContinuesPlan
    <3>3. CASE Fails(k, m)
      BY <3>3, FailsPlan
    <3>4. QED
      BY <3>1, <3>2, <3>3
  <2>8. CASE RestoredOne(c, k, m)
    <3>1. PICK e \in k.seen : rows' = Saved(rows, e) /\ Continues(k, k.todo, k.seen \ {e}, m)
      BY <2>8 DEF RestoredOne
    <3>2. k.kind = "backup" /\ k.step # "current" /\ k.todo = {} /\ Keyed(k.seen)
      BY <1>2, <1>8, <2>8 DEF Shape, Draws, RestoredOne
    <3>3. After(rows', {}, k.seen \ {e}) = After(rows, {}, k.seen)
      BY <3>1, <3>2, AfterRestore
    <3>4. QED
      BY <2>1, <3>1, <3>2, <3>3, ContinuesPlan
  <2>9. CASE WriteFailed(c, k, m)
    BY <1>8, <2>9, FailsPlan DEF WriteFailed
  <2>10. CASE OverlayRead(c, k, m)
    BY <1>8, <2>10 DEF OverlayRead, Inv, Sound
  <2>11. QED
    BY <2>3, <2>4, <2>5, <2>6, <2>7, <2>8, <2>9, <2>10 DEF GoesOn
<1>9. CASE o = c
  <2>1. m = Idle \/ (m.op = k.op /\ m.alone = k.alone)
    BY DEF GoesOn, OverlayRead, CurrentRead, VersionRead, Inserted, SavedOne, DeletedOne,
           RestoredOne, WriteFailed, Continues, Fails, Unchanged
  <2>2. CASE m = Idle
    BY <1>2, <1>9, <2>2, IdlePlan
  <2>3. CASE m.op = k.op /\ m.alone = k.alone
    BY <1>2, <1>8, <1>9, <2>3 DEF Plan
  <2>4. QED
    BY <2>1, <2>2, <2>3
<1>10. QED
  BY <1>7, <1>9

LEMMA StepPlan ==
  ASSUME Inv, OwnInv, OrphanInv, PlanInv, [Next]_vars
  PROVE  PlanInv'
<1>1. CASE Restart
  <2>1. \A c \in Callers : call'[c] = Idle
    BY <1>1 DEF Restart
  <2>2. QED
    BY <2>1, IdlePlan DEF PlanInv
<1>2. ASSUME NEW c \in Callers, CallStep(c)
      PROVE  PlanInv'
  <2>1. Begun(c) \/ \E m : GoesOn(c, call[c], m)
    BY <1>2, CallSteps DEF Inv
  <2>2. QED
    BY <2>1, BegunPlan, GoesOnPlan
<1>3. CASE UNCHANGED vars
  BY <1>3 DEF vars, PlanInv
<1>4. QED
  BY <1>1, <1>2, <1>3 DEF Next

LEMMA AlwaysPlanned == Spec => [](Inv /\ OwnInv /\ OrphanInv /\ PlanInv)
<1>1. Init => OrphanInv /\ PlanInv
  <2> SUFFICES ASSUME Init PROVE OrphanInv /\ PlanInv
    OBVIOUS
  <2>1. /\ rows = {} /\ served = {} /\ Len(history) = 0
        /\ \A c \in Callers : call[c] = Idle
    BY DEF Init
  <2>2. Snap(history) = {}
    BY <2>1 DEF Snap
  <2>3. PlanInv
    BY <2>1, IdlePlan DEF PlanInv
  <2>4. \A T \in Tables : ~Used(T)
    BY <2>1, <2>2, IdleIs DEF Used, HasColumn
  <2>5. \A P : OrphanSafe(rows, P)
    BY <2>1 DEF OrphanSafe, DefsOf
  <2>6. OrphanInv
    BY <2>1, <2>4, <2>5 DEF OrphanInv
  <2>7. QED
    BY <2>3, <2>6
<1>2. Inv /\ OwnInv /\ OrphanInv /\ PlanInv /\ [Next]_vars => (OrphanInv /\ PlanInv)'
  <2> SUFFICES ASSUME Inv, OwnInv, OrphanInv, PlanInv, [Next]_vars
               PROVE  OrphanInv' /\ PlanInv'
    OBVIOUS
  <2>1. OwnInv'
    BY StepOwns
  <2>2. QED
    BY <2>1, StepOrphan, StepPlan
<1>3. QED
  BY <1>1, <1>2, AlwaysOwned, PTL DEF Spec

LEMMA ReachesTarget ==
  ASSUME Inv, PlanInv, NEW c \in Callers, call[c].op = "rollback", call[c].kind = "overlay",
         call[c].alone, OneRowEach
  PROVE  Content(rows) = Content(call[c].target)
<1>1. Snap(history) \subseteq EverStored
  BY DEF Snap, EverStored
<1>2. OneRow(Snap(history))
  BY <1>1 DEF OneRow, OneRowEach
<1>3. QED
  BY <1>2 DEF PlanInv, Plan

(***************************************************************************)
(* A rollback that met no other call and records its target has reached    *)
(* it, with every value, whatever earlier rollbacks left half done, as     *)
(* long as no definition has had two row ids.                              *)
(***************************************************************************)
THEOREM RollbackTargetCorrect == Spec => RollbackReachesTarget
<1>1. Inv /\ PlanInv /\ [Next]_vars =>
        [\A c \in Callers :
           (/\ call[c].op = "rollback" /\ call[c].kind = "overlay" /\ call[c].step = "insert"
            /\ call[c].alone /\ history' # history /\ OneRowEach)
             => Content(rows) = Content(call[c].target)]_vars
  BY ReachesTarget
<1>2. QED
  BY <1>1, AlwaysPlanned, PTL DEF Spec, RollbackReachesTarget

-----------------------------------------------------------------------------
(* Where the writes of a call lead.                                        *)

Held(h, T) == \E i \in 1 .. Len(h) : h[i].kind = "overlay" /\ h[i].overlay = T

(* What a call k is going to write is on the way to its overlay.           *)
Leads(h, k) ==
  /\ k.op # "rollback" /\ k.step = "save" => Held(h, k.payload)
  /\ k.op \in {"add", "change"} /\ k.step \in {"version", "insert", "save"} =>
       k.todo \subseteq k.payload
  /\ k.op = "remove" => \A e \in k.todo : e.def \notin DefsOf(k.payload)
  /\ k.op = "rollback" => k.seen \subseteq k.target /\ (k.target = {} \/ Held(h, k.target))

(* A rollback deletes nothing that its target has.                         *)
Spares(k) ==
  k.op = "rollback" =>
    /\ k.step = "current" =>
         \A T \in DefsOf(k.todo) : T \notin DefsOf(k.target)
                                   /\ (T \in Tables => ~HasColumn(k.target, T))
    /\ k.step # "current" => \A e \in k.todo : e.def \notin DefsOf(k.target)

WayInv ==
  /\ \A c \in Callers : Leads(history, call[c])
  /\ OneRow(Snap(history)) => \A c \in Callers : Spares(call[c])

LEMMA IdleWay ==
  ASSUME NEW h
  PROVE  Leads(h, Idle) /\ Spares(Idle)
  BY IdleIs DEF Leads, Spares

LEMMA StaysHeld ==
  ASSUME history \in Seq(HistoryEntry), Grown, NEW T, Held(history, T)
  PROVE  Held(history', T)
<1>1. CASE history' = history
  BY <1>1
<1>2. ASSUME NEW x \in HistoryEntry, history' = Append(history, x)
      PROVE  Held(history', T)
  BY <1>2, AppendHistory DEF Held
<1>3. QED
  BY <1>1, <1>2 DEF Grown

LEMMA StaysLeading ==
  ASSUME history \in Seq(HistoryEntry), Grown, NEW k, Leads(history, k)
  PROVE  Leads(history', k)
<1>1. \A T : Held(history, T) => Held(history', T)
  BY StaysHeld
<1>2. QED
  BY <1>1 DEF Leads

LEMMA SameWay ==
  ASSUME NEW h, NEW k, NEW m, SameBut(m, k)
  PROVE  (Leads(h, k) => Leads(h, m)) /\ (Spares(k) => Spares(m))
  BY DEF SameBut, Leads, Spares

LEMMA BegunWay ==
  ASSUME Inv, OwnInv, OrphanInv, WayInv, NEW c \in Callers, Begun(c)
  PROVE  WayInv'
<1> DEFINE m == call'[c]
<1>1. /\ rows' = rows /\ history' = history /\ history \in Seq(HistoryEntry)
      /\ AddBegun(c) \/ PolicyBegun(c) \/ RollbackBegun(c)
  BY DEF Begun, StoreKept, Inv, TypeOK
<1>2. ASSUME NEW o \in Callers \ {c}
      PROVE  Leads(history, call'[o]) /\ (OneRow(Snap(history)) => Spares(call'[o]))
  <2>1. SameBut(call'[o], call[o])
    BY DEF Begun, OthersMet
  <2>2. QED
    BY <2>1, SameWay DEF WayInv
<1>3. Leads(history, m)
  <2>1. CASE AddBegun(c)
    BY <2>1 DEF AddBegun, Leads
  <2>2. CASE PolicyBegun(c)
    BY <2>2 DEF PolicyBegun, Leads, Without, Declaring, DefsOf
  <2>3. CASE RollbackBegun(c)
    <3>1. PICK v \in 0 .. Len(history) : m.target = OverlayAt(history, v)
      BY <2>3 DEF RollbackBegun
    <3>2. m.target = {} \/ Held(history, m.target)
      BY <1>1, <3>1, OverlayIsSnapshot DEF Held
    <3>3. QED
      BY <2>3, <3>2 DEF RollbackBegun, Leads
  <2>4. QED
    BY <1>1, <2>1, <2>2, <2>3
<1>4. ASSUME OneRow(Snap(history))
      PROVE  Spares(m)
  <2>1. CASE AddBegun(c) \/ PolicyBegun(c)
    BY <2>1 DEF AddBegun, PolicyBegun, Spares
  <2>2. CASE RollbackBegun(c)
    <3>1. PICK cur \in OneEach(rows), tgt \in OneEach(m.target) :
            m.todo = {e \in cur : Listed(Removed(cur, tgt), e)}
      BY <2>2 DEF RollbackBegun
    <3>2. DefsOf(cur) = DefsOf(rows) /\ DefsOf(tgt) = DefsOf(m.target)
      BY <3>1 DEF OneEach
    <3>3. OrphanSafe(rows, m.target)
      BY <1>1, <1>4, BegunOrphan DEF OrphanInv
    <3>4. ASSUME NEW T \in DefsOf(m.todo)
          PROVE  T \in DefsOf(rows) /\ T \notin DefsOf(m.target)
      <4>1. PICK e \in m.todo : e.def = T
        BY <3>4 DEF DefsOf
      <4>2. T \in Removed(cur, tgt)
        BY <3>1, <4>1 DEF Listed
      <4>3. QED
        BY <3>2, <4>2 DEF Removed
    <3>5. m.step = "current"
      BY <2>2 DEF RollbackBegun
    <3>6. QED
      BY <3>3, <3>4, <3>5 DEF Spares, OrphanSafe
  <2>3. QED
    BY <1>1, <2>1, <2>2
<1>5. QED
  BY <1>1, <1>2, <1>3, <1>4 DEF WayInv

LEMMA ContinuesWay ==
  ASSUME NEW h, NEW k, NEW m, NEW T, NEW W, Continues(k, T, W, m), k.op = "rollback",
         k.step # "current", T \subseteq k.todo, W \subseteq k.seen, Leads(h, k)
  PROVE  Leads(h, m) /\ (Spares(k) => Spares(m))
<1>1. m.op = "rollback" /\ m.target = k.target /\ m.todo = T /\ m.seen = W /\ m.step # "current"
  BY DEF Continues, Unchanged
<1>2. QED
  BY <1>1 DEF Leads, Spares

LEMMA FailsWay ==
  ASSUME NEW h, NEW k, NEW m, Fails(k, m), k.op = "rollback", Leads(h, k)
  PROVE  Leads(h, m) /\ Spares(m)
  BY DEF Fails, Unchanged, Leads, Spares

LEMMA CurrentReadWay ==
  ASSUME NEW c \in Callers, NEW k, NEW m, CurrentRead(c, k, m), rows \subseteq Entry,
         k.op = "rollback", Spares(k)
  PROVE  Spares(m)
<1>1. /\ m.target = k.target /\ m.todo = {e \in rows : Doomed(DefsOf(k.todo), e)}
      /\ k.step = "current" /\ m.step = "version" /\ k.todo \subseteq Entry
  BY DEF CurrentRead, Unchanged, Goes, Call
<1>2. ASSUME NEW e \in m.todo
      PROVE  e.def \notin DefsOf(k.target)
  <2>1. e \in Entry /\ e.def \in Defs /\ Doomed(DefsOf(k.todo), e)
    BY <1>1 DEF Entry
  <2>2. CASE e.def \in DefsOf(k.todo)
    BY <1>1, <2>2 DEF Spares
  <2>3. CASE Kind[e.def] = "column" /\ On[e.def] \in DefsOf(k.todo)
    <3>1. SUFFICES ASSUME e.def \in DefsOf(k.target)
                   PROVE  FALSE
      OBVIOUS
    <3>2. HasColumn(k.target, On[e.def])
      BY <2>3, <3>1 DEF DefsOf, HasColumn
    <3>3. On[e.def] \in Tables
      <4>1. On[e.def] \in Defs
        BY <1>1, <2>3 DEF DefsOf, Entry
      <4>2. QED
        BY <2>1, <2>3, <4>1, DeclaredOnAssumption DEF Tables
    <3>4. QED
      BY <1>1, <2>3, <3>2, <3>3 DEF Spares
  <2>4. QED
    BY <2>1, <2>2, <2>3 DEF Doomed, GoesWithTable
<1>3. QED
  BY <1>1, <1>2 DEF Spares

LEMMA GoesOnWay ==
  ASSUME Inv, OwnInv, WayInv, NEW c \in Callers, NEW k, k = call[c], NEW m, GoesOn(c, k, m)
  PROVE  WayInv'
<1> DEFINE S == Snap(history)
           x == [kind |-> k.kind, overlay |-> k.payload]
<1>1. Advances(c, k, m)
  BY GoesOnAdvances
<1>2. /\ k \in Call /\ m = call'[c] /\ call' = [call EXCEPT ![c] = m]
      /\ call \in [Callers -> Call] /\ history \in Seq(HistoryEntry) /\ rows \subseteq Entry
      /\ Sound(history, k) /\ Leads(history, k) /\ Shape(history, rows, k)
  BY <1>1 DEF Advances, Goes, Inv, OwnInv, TypeOK, WayInv
<1>3. x \in HistoryEntry /\ x.kind = k.kind /\ x.overlay = k.payload
  BY <1>2 DEF Call, HistoryEntry
<1>4. S \subseteq Snap(history') /\ Grown
  <2>1. history' = history \/ history' = Append(history, x)
    BY <1>1 DEF Advances
  <2> HIDE DEF x
  <2>2. QED
    BY <1>2, <1>3, <2>1, SnapAppend DEF Grown
<1>5. Leads(history', k) /\ (OneRow(Snap(history')) => Spares(k))
  BY <1>2, <1>4, StaysLeading DEF WayInv, OneRow
<1> HIDE DEF S
<1>6. ASSUME NEW o \in Callers \ {c}
      PROVE  Leads(history', call'[o]) /\ (OneRow(Snap(history')) => Spares(call'[o]))
  <2>1. call'[o] = call[o] /\ Leads(history, call[o])
    BY <1>2 DEF WayInv
  <2>2. OneRow(Snap(history')) => Spares(call[o])
    BY <1>4 DEF WayInv, OneRow, S
  <2>3. QED
    BY <1>2, <1>4, <2>1, <2>2, StaysLeading
<1>7. Leads(history', m) /\ (OneRow(Snap(history')) => Spares(m))
  <2>1. CASE OverlayRead(c, k, m)
    <3>1. /\ k.op = "add" /\ m.op = "add" /\ m.step = "version" /\ m.todo = k.todo
          /\ k.todo \subseteq m.payload
      BY <1>2, <2>1 DEF OverlayRead, Unchanged, Sound
    <3>2. QED
      BY <3>1 DEF Leads, Spares
  <2>2. CASE CurrentRead(c, k, m)
    <3>1. k.op = "rollback" /\ m.op = "rollback" /\ m.seen = k.seen /\ m.target = k.target
      BY <1>2, <2>2 DEF CurrentRead, Unchanged, Sound
    <3>2. Leads(history', m)
      BY <1>5, <3>1 DEF Leads
    <3>3. QED
      BY <1>2, <1>5, <2>2, <3>1, <3>2, CurrentReadWay
  <2>3. CASE VersionRead(c, k, m)
    <3>1. /\ m.op = k.op /\ m.target = k.target /\ m.todo = k.todo /\ m.seen = k.seen
          /\ m.payload = k.payload /\ k.step = "version" /\ m.step = "insert"
      BY <2>3 DEF VersionRead
    <3>2. QED
      BY <1>5, <3>1 DEF Leads, Spares
  <2>4. CASE Inserted(c, k, m)
    <3>1. k.step = "insert"
      BY <2>4 DEF Inserted
    <3>2. CASE k.op # "rollback" /\ m.step = "save"
      <4>1. /\ history' = Append(history, x) /\ m.op = k.op
            /\ m.todo = k.todo /\ m.payload = k.payload
        BY <2>4, <3>2, IdleIs DEF Inserted, Unchanged, Fails
      <4>2. k.kind = "overlay"
        BY <1>2, <3>2 DEF Sound
      <4> HIDE DEF x
      <4>3. Len(history') = Len(history) + 1 /\ Len(history) \in Nat /\ history'[Len(history) + 1] = x
        BY <1>2, <1>3, <4>1, AppendHistory
      <4>4. Held(history', k.payload)
        BY <1>3, <4>2, <4>3 DEF Held
      <4>5. QED
        BY <1>5, <3>1, <3>2, <4>1, <4>4 DEF Leads, Spares
    <3>3. CASE k.op = "rollback" /\ Continues(k, k.todo, k.seen, m)
      BY <1>5, <3>1, <3>3, ContinuesWay
    <3>4. CASE k.op = "rollback" /\ Fails(k, m)
      BY <1>5, <3>4, FailsWay
    <3>5. CASE m = Idle
      BY <3>5, IdleWay
    <3>6. QED
      BY <2>4, <3>2, <3>3, <3>4, <3>5 DEF Inserted
  <2>5. CASE SavedOne(c, k, m)
    BY <2>5, IdleWay DEF SavedOne
  <2>6. CASE DeletedOne(c, k, m)
    <3>1. k.op = "rollback" /\ k.step # "current"
      BY <1>2, <2>6 DEF DeletedOne, Sound
    <3>2. PICK e \in k.todo : Continues(k, k.todo \ {e}, k.seen, m) \/ Fails(k, m)
      BY <2>6 DEF DeletedOne
    <3>3. CASE Continues(k, k.todo \ {e}, k.seen, m)
      <4>1. k.todo \ {e} \subseteq k.todo
        OBVIOUS
      <4>2. QED
        BY <1>5, <3>1, <3>3, <4>1, ContinuesWay
    <3>4. CASE Fails(k, m)
      BY <1>5, <3>1, <3>4, FailsWay
    <3>5. QED
      BY <3>2, <3>3, <3>4
  <2>7. CASE RestoredOne(c, k, m)
    <3>1. k.op = "rollback" /\ k.step # "current"
      BY <1>2, <2>7 DEF RestoredOne, Sound
    <3>2. PICK e \in k.seen : Continues(k, k.todo, k.seen \ {e}, m)
      BY <2>7 DEF RestoredOne
    <3>3. k.seen \ {e} \subseteq k.seen
      OBVIOUS
    <3>4. QED
      BY <1>5, <3>1, <3>2, <3>3, ContinuesWay
  <2>8. CASE WriteFailed(c, k, m)
    BY <1>5, <2>8, FailsWay, IdleWay DEF WriteFailed
  <2>9. QED
    BY <2>1, <2>2, <2>3, <2>4, <2>5, <2>6, <2>7, <2>8 DEF GoesOn
<1>8. QED
  BY <1>2, <1>6, <1>7 DEF WayInv

LEMMA StepWay ==
  ASSUME Inv, OwnInv, OrphanInv, WayInv, [Next]_vars
  PROVE  WayInv'
<1>1. CASE Restart
  <2>1. \A c \in Callers : call'[c] = Idle
    BY <1>1 DEF Restart
  <2>2. QED
    BY <2>1, IdleWay DEF WayInv
<1>2. ASSUME NEW c \in Callers, CallStep(c)
      PROVE  WayInv'
  <2>1. Begun(c) \/ \E m : GoesOn(c, call[c], m)
    BY <1>2, CallSteps DEF Inv
  <2>2. QED
    BY <2>1, BegunWay, GoesOnWay
<1>3. CASE UNCHANGED vars
  BY <1>3 DEF vars, WayInv
<1>4. QED
  BY <1>1, <1>2, <1>3 DEF Next

(* A row that is replaced or deleted declares what its entry declares.     *)
LEMMA WritesOwnDef ==
  ASSUME NEW S, OneDef(S), NEW R, R \subseteq S, NEW T, Known(S, T), NEW e \in T, NEW x \in R,
         x.row = e.row
  PROVE  x.def = e.def
<1>1. Owned(S, e) \/ Absent(S, e)
  BY DEF Known
<1>2. Owned(S, e)
  BY <1>1 DEF Absent
<1>3. QED
  BY <1>2 DEF Owned, OneDef

LEMMA WriteLeads ==
  ASSUME Inv, OwnInv, WayInv, [Next]_vars, NEW c \in Callers, rows' # rows, call'[c] # call[c],
         call[c].op = "rollback" => OneRowEach,
         NEW T, T = LeadsTo(call[c])
  PROVE  /\ Recorded(T) \/ (call[c].op = "rollback" /\ T = {})
         /\ rows' \subseteq rows \cup T
         /\ DefsOf(rows) \cap DefsOf(T) \subseteq DefsOf(rows')
<1> DEFINE S == Snap(history)
           k == call[c]
<1>1. PICK o \in Callers : CallStep(o)
  BY DEF Next, Restart, vars
<1>2. PICK m : GoesOn(o, call[o], m)
  <2>1. ~Begun(o)
    BY DEF Begun, StoreKept
  <2>2. QED
    BY <1>1, <2>1, CallSteps DEF Inv
<1>3. o = c
  <2>1. call' = [call EXCEPT ![o] = m] /\ call \in [Callers -> Call]
    BY <1>2, GoesOnAdvances, ZenonT(30) DEF Advances, Goes, Inv, TypeOK
  <2>2. QED
    BY <2>1
<1>4. SavedOne(c, k, m) \/ DeletedOne(c, k, m) \/ RestoredOne(c, k, m)
  BY <1>2, <1>3 DEF GoesOn, OverlayRead, CurrentRead, VersionRead, Inserted, WriteFailed, StoreKept
<1>5. /\ OneDef(S) /\ rows \subseteq S /\ Known(S, k.todo) /\ k.target \subseteq S
      /\ k.op = "rollback" => k.todo \subseteq S
      /\ Sound(history, k) /\ Leads(history, k) /\ k \in Call
  BY StoreInSnap DEF Inv, OwnInv, Draws, WayInv, TypeOK
<1>6. k.op = "rollback" => Spares(k)
  <2>1. S \subseteq EverStored
    BY DEF Snap, EverStored
  <2>2. QED
    BY <2>1 DEF OneRow, OneRowEach, WayInv
<1> HIDE DEF S
<1>7. ASSUME NEW e, \A x \in rows : x.row = e.row => x.def = e.def,
             {x \in rows : x.row # e.row} \subseteq rows',
             e.def \in DefsOf(rows') \/ e.def \notin DefsOf(T)
      PROVE  DefsOf(rows) \cap DefsOf(T) \subseteq DefsOf(rows')
  <2>1. ASSUME NEW d \in DefsOf(rows) \cap DefsOf(T), d \notin DefsOf(rows')
        PROVE  FALSE
    <3>1. PICK x \in rows : x.def = d
      BY <2>1 DEF DefsOf
    <3>2. d # e.def
      BY <1>7, <2>1
    <3>3. x \in rows'
      BY <1>7, <3>1, <3>2
    <3>4. QED
      BY <2>1, <3>1, <3>3 DEF DefsOf
  <2>2. QED
    BY <2>1
<1>8. CASE SavedOne(c, k, m)
  <2>1. k.op # "rollback" /\ k.step = "save" /\ T = k.payload
    BY <1>5, <1>8 DEF SavedOne, Sound, LeadsTo
  <2>2. Recorded(T)
    BY <1>5, <2>1 DEF Leads, Held, Recorded
  <2>3. PICK e \in k.todo :
          rows' = IF k.op = "remove" THEN {x \in rows : x.row # e.row} ELSE Saved(rows, e)
    BY <1>8 DEF SavedOne
  <2>4. \A x \in rows : x.row = e.row => x.def = e.def
    BY <1>5, WritesOwnDef
  <2>5. {x \in rows : x.row # e.row} \subseteq rows'
    BY <2>3 DEF Saved
  <2>6. CASE k.op = "remove"
    <3>1. e.def \notin DefsOf(T) /\ rows' \subseteq rows
      BY <1>5, <2>1, <2>3, <2>6 DEF Leads
    <3>2. QED
      BY <1>7, <2>2, <2>4, <2>5, <3>1
  <2>7. CASE k.op # "remove"
    <3>1. k.op \in {"add", "change"}
      BY <1>5, <2>1, <2>7 DEF Call
    <3>2. e \in T /\ rows' = {x \in rows : x.row # e.row} \cup {e}
      BY <1>5, <2>1, <2>3, <2>7, <3>1 DEF Leads, Saved
    <3>3. e.def \in DefsOf(rows') /\ rows' \subseteq rows \cup T
      BY <3>2 DEF DefsOf
    <3>4. QED
      BY <1>7, <2>2, <2>4, <2>5, <3>3
  <2>8. QED
    BY <2>6, <2>7
<1>9. CASE DeletedOne(c, k, m)
  <2>1. k.op = "rollback" /\ k.step = "delete" /\ T = k.target
    BY <1>5, <1>9 DEF DeletedOne, Sound, LeadsTo
  <2>2. Recorded(T) \/ T = {}
    BY <1>5, <2>1 DEF Leads, Held, Recorded
  <2>3. PICK e \in k.todo : rows' = {x \in rows : x.row # e.row}
    BY <1>9 DEF DeletedOne
  <2>4. \A x \in rows : x.row = e.row => x.def = e.def
    BY <1>5, WritesOwnDef
  <2>5. e.def \notin DefsOf(T)
    BY <1>6, <2>1 DEF Spares
  <2>6. QED
    BY <1>7, <2>1, <2>2, <2>3, <2>4, <2>5
<1>10. CASE RestoredOne(c, k, m)
  <2>1. k.op = "rollback" /\ k.step = "restore" /\ T = k.target
    BY <1>5, <1>10 DEF RestoredOne, Sound, LeadsTo
  <2>2. Recorded(T) \/ T = {}
    BY <1>5, <2>1 DEF Leads, Held, Recorded
  <2>3. PICK e \in k.seen : rows' = Saved(rows, e)
    BY <1>10 DEF RestoredOne
  <2>4. e \in T /\ e \in S /\ rows' = {x \in rows : x.row # e.row} \cup {e}
    BY <1>5, <2>1, <2>3 DEF Leads, Saved
  <2>5. \A x \in rows : x.row = e.row => x.def = e.def
    BY <1>5, <2>4 DEF OneDef
  <2>6. e.def \in DefsOf(rows')
    BY <2>4 DEF DefsOf
  <2>7. QED
    BY <1>7, <2>1, <2>2, <2>4, <2>5, <2>6
<1>11. QED
  BY <1>4, <1>8, <1>9, <1>10

(***************************************************************************)
(* Whatever overlaps, fails or is cut short, each write of a row leads to  *)
(* the overlay that its call has recorded or returns to: it adds nothing   *)
(* that this overlay lacks and takes out no definition that it has.        *)
(***************************************************************************)
THEOREM WritesRecordedCorrect == Spec => WritesRecorded
<1>1. Init => WayInv
  <2> SUFFICES ASSUME Init PROVE WayInv
    OBVIOUS
  <2>1. \A c \in Callers : call[c] = Idle
    BY DEF Init
  <2>2. QED
    BY <2>1, IdleWay DEF WayInv
<1>2. Spec => [](Inv /\ OwnInv /\ WayInv)
  BY <1>1, AlwaysPlanned, StepWay, PTL DEF Spec
<1>3. Inv /\ OwnInv /\ WayInv /\ [Next]_vars =>
        [\A c \in Callers :
           (rows' # rows /\ call'[c] # call[c] /\ (call[c].op = "rollback" => OneRowEach)) =>
             LET T == LeadsTo(call[c])
             IN  /\ Recorded(T) \/ (call[c].op = "rollback" /\ T = {})
                 /\ rows' \subseteq rows \cup T
                 /\ DefsOf(rows) \cap DefsOf(T) \subseteq DefsOf(rows')]_vars
  BY WriteLeads
<1>4. QED
  BY <1>2, <1>3, PTL DEF Spec, WritesRecorded

=============================================================================
