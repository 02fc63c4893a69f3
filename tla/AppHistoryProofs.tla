-------------------------- MODULE AppHistoryProofs --------------------------
(***************************************************************************)
(* Theorems of AppHistory, for any definitions, callers, row ids and       *)
(* values: that nothing is stored without an audit, and what a call that   *)
(* meets no other one leaves behind.                                       *)
(***************************************************************************)
EXTENDS AppHistory, TLAPS, WellFoundedInduction

USE ConstantsAssumption

-----------------------------------------------------------------------------
(* Numbers and snapshots.                                                  *)

LEMMA LeastNumber ==
  ASSUME NEW S \in SUBSET Nat, S # {}
  PROVE  \E i \in S : \A j \in S : i <= j
<1> DEFINE R == {ss \in Nat \X Nat : ss[1] < ss[2]}
<1>1. IsWellFoundedOn(R, Nat)
  BY NatLessThanWellFounded DEF OpToRel
<1> HIDE DEF R
<1>2. PICK x \in S : \A y \in S : ~(<<y, x>> \in R)
  BY <1>1, WFMin, Zenon
<1>3. \A y \in S : ~(y < x)
  BY <1>2 DEF R
<1>4. QED
  BY <1>3

LEMMA GreatestNumber ==
  ASSUME NEW n \in Nat, NEW S \in SUBSET (1 .. n), S # {}
  PROVE  \E i \in S : \A j \in S : j <= i
<1> DEFINE T == {n - i : i \in S}
<1>0. \A i \in S : i \in Nat /\ n - i \in Nat
  OBVIOUS
<1>1. T \in SUBSET Nat /\ T # {}
  BY <1>0
<1>2. PICK m \in T : \A k \in T : m <= k
  BY <1>1, LeastNumber
<1>3. PICK i \in S : m = n - i
  BY <1>2
<1>4. \A j \in S : n - i <= n - j
  BY <1>2, <1>3
<1>5. \A j \in S : j <= i
  BY <1>0, <1>4
<1>6. QED
  BY <1>5

(* The overlay a rollback returns to is empty, or one of the snapshots. *)
LEMMA OverlayIsSnapshot ==
  ASSUME NEW h \in Seq(HistoryEntry), NEW v \in 0 .. Len(h)
  PROVE  \/ OverlayAt(h, v) = {}
         \/ \E i \in 1 .. Len(h) : h[i].kind = "overlay" /\ OverlayAt(h, v) = h[i].overlay
<1> DEFINE S == {i \in 1 .. v : h[i].kind = "overlay"}
           m == CHOOSE i \in S : \A j \in S : j <= i
<1>1. CASE S = {}
  BY <1>1 DEF OverlayAt
<1>2. CASE S # {}
  <2>0. S \in SUBSET (1 .. v) /\ v \in Nat
    OBVIOUS
  <2>1. \E i \in S : \A j \in S : j <= i
    <3> HIDE DEF S
    <3>1. QED
      BY <1>2, <2>0, GreatestNumber
  <2>2. m \in S
    BY <2>1
  <2>3. OverlayAt(h, v) = h[m].overlay
    BY <1>2 DEF OverlayAt
  <2>4. m \in 1 .. Len(h) /\ h[m].kind = "overlay"
    BY <2>2
  <2> HIDE DEF m
  <2>5. QED
    BY <2>3, <2>4
<1>3. QED
  BY <1>1, <1>2

(* When the last entry is a snapshot, it is the overlay of its version. *)
LEMMA LastOverlay ==
  ASSUME NEW h \in Seq(HistoryEntry), Len(h) > 0, h[Len(h)].kind = "overlay"
  PROVE  OverlayAt(h, Len(h)) = h[Len(h)].overlay
<1> DEFINE S == {i \in 1 .. Len(h) : h[i].kind = "overlay"}
<1>1. Len(h) \in S /\ S \subseteq Nat /\ \A j \in S : j <= Len(h)
  OBVIOUS
<1>2. (CHOOSE i \in S : \A j \in S : j <= i) = Len(h)
  BY <1>1
<1>3. QED
  BY <1>1, <1>2 DEF OverlayAt

LEMMA AppendHistory ==
  ASSUME NEW h \in Seq(HistoryEntry), NEW x \in HistoryEntry
  PROVE  /\ Append(h, x) \in Seq(HistoryEntry)
         /\ Len(Append(h, x)) = Len(h) + 1
         /\ Len(h) \in Nat
         /\ \A i \in 1 .. Len(h) : Append(h, x)[i] = h[i]
         /\ Append(h, x)[Len(h) + 1] = x
  OBVIOUS

-----------------------------------------------------------------------------
(* Calls: what the records that describe them become.                      *)

(* Two records that differ in `alone' at most. *)
SameBut(x, y) ==
  /\ x.step = y.step /\ x.op = y.op /\ x.todo = y.todo /\ x.seen = y.seen
  /\ x.kind = y.kind /\ x.payload = y.payload /\ x.version = y.version /\ x.target = y.target

LEMMA IdleIs ==
  /\ Idle \in Call
  /\ Idle.step = "idle" /\ Idle.op = "add" /\ Idle.todo = {} /\ Idle.seen = {}
  /\ Idle.kind = "overlay" /\ Idle.payload = {} /\ Idle.target = {} /\ Idle.alone = FALSE
  BY DEF Idle, Call, Steps

LEMMA AloneIs ==
  ASSUME NEW k \in Call, NEW b \in BOOLEAN
  PROVE  [k EXCEPT !.alone = b] \in Call /\ SameBut([k EXCEPT !.alone = b], k)
         /\ [k EXCEPT !.alone = b].alone = b
  BY DEF Call, SameBut

LEMMA StepIs ==
  ASSUME NEW k \in Call, NEW s \in Steps, NEW m, m = [k EXCEPT !.step = s]
  PROVE  /\ m \in Call /\ m.step = s /\ m.op = k.op /\ m.todo = k.todo /\ m.seen = k.seen
         /\ m.kind = k.kind /\ m.payload = k.payload /\ m.version = k.version
         /\ m.target = k.target /\ m.alone = k.alone
  BY DEF Call

LEMMA FailedIs ==
  ASSUME NEW k \in Call, NEW m, m = FailedRollback(k)
  PROVE  /\ m \in Call /\ m.step = "version" /\ m.op = k.op /\ m.todo = {} /\ m.seen = {}
         /\ m.kind = "failed" /\ m.payload = {} /\ m.version = k.version
         /\ m.target = k.target /\ m.alone = k.alone
  BY DEF Call, FailedRollback, Steps

LEMMA ProceedIs ==
  ASSUME NEW k \in Call, NEW m, m = Proceed(k)
  PROVE  /\ m \in Call /\ m.op = k.op /\ m.todo = k.todo /\ m.seen = k.seen
         /\ m.version = k.version /\ m.target = k.target /\ m.alone = k.alone
         /\ \/ k.todo # {} /\ m.step = "delete" /\ m.kind = k.kind /\ m.payload = k.payload
            \/ /\ k.todo = {} /\ k.seen # {} /\ m.step = "restore"
               /\ m.kind = k.kind /\ m.payload = k.payload
            \/ /\ k.todo = {} /\ k.seen = {} /\ m.step = "version"
               /\ m.kind = "overlay" /\ m.payload = k.target
<1>1. CASE k.todo # {}
  <2>1. m = [k EXCEPT !.step = "delete"] /\ "delete" \in Steps
    BY <1>1 DEF Proceed, Steps
  <2>2. QED
    BY <1>1, <2>1, StepIs
<1>2. CASE k.todo = {} /\ k.seen # {}
  <2>1. m = [k EXCEPT !.step = "restore"] /\ "restore" \in Steps
    BY <1>2 DEF Proceed, Steps
  <2>2. QED
    BY <1>2, <2>1, StepIs
<1>3. CASE k.todo = {} /\ k.seen = {}
  <2>1. m = [k EXCEPT !.step = "version", !.kind = "overlay", !.payload = k.target]
    BY <1>3 DEF Proceed
  <2>2. /\ m \in Call /\ m.op = k.op /\ m.todo = k.todo /\ m.seen = k.seen
        /\ m.version = k.version /\ m.target = k.target /\ m.alone = k.alone
        /\ m.step = "version" /\ m.kind = "overlay" /\ m.payload = k.target
    BY <2>1 DEF Call, Steps
  <2>3. QED
    BY <1>3, <2>2
<1>4. QED
  BY <1>1, <1>2, <1>3

-----------------------------------------------------------------------------
(* What the steps of a call do.                                            *)

Others(c) == \A o \in Callers \ {c} : call'[o] = call[o]
StoreKept == rows' = rows /\ history' = history
BootKept == served' = served /\ posture' = posture /\ calm' \in BOOLEAN /\ (calm' => calm)

(* Whoever else is under way is as it was, but no longer alone. *)
OthersMet(c) ==
  \A o \in Callers \ {c} : SameBut(call'[o], call[o]) /\ call'[o].alone = FALSE

LEMMA BeginIs ==
  ASSUME TypeOK, NEW c \in Callers, NEW f \in Call, Begin(c, f)
  PROVE  /\ ~Active(c) /\ StoreKept /\ BootKept
         /\ call' \in [Callers -> Call]
         /\ OthersMet(c)
         /\ SameBut(call'[c], f)
         /\ call'[c].alone = (~\E o \in Callers : Active(o))
         /\ calm' => RegistryCurrent /\ ~\E o \in Callers : Active(o)
<1> DEFINE overlaps == \E o \in Callers : Active(o)
<1>1. /\ call' = [o \in Callers |-> IF o = c THEN [f EXCEPT !.alone = ~overlaps]
                                    ELSE [call[o] EXCEPT !.alone = FALSE]]
      /\ ~Active(c) /\ StoreKept
      /\ served' = served /\ posture' = posture /\ calm' = (calm /\ ~overlaps /\ RegistryCurrent)
  BY DEF Begin, StoreKept
<1>10. BootKept /\ (calm' => RegistryCurrent /\ ~\E o \in Callers : Active(o))
  <2> HIDE DEF overlaps
  <2>1. calm \in BOOLEAN
    BY DEF TypeOK
  <2>2. calm' \in BOOLEAN /\ (calm' => calm /\ RegistryCurrent /\ ~overlaps)
    BY <1>1, <2>1, Zenon
  <2>3. QED
    BY <1>1, <2>2 DEF overlaps, BootKept
<1>2. \A o \in Callers : call[o] \in Call
  BY DEF TypeOK
<1>3. overlaps \in BOOLEAN
  OBVIOUS
<1> HIDE DEF overlaps
<1>4. call'[c] = [f EXCEPT !.alone = ~overlaps]
  BY <1>1
<1>5. ASSUME NEW o \in Callers \ {c}
      PROVE  call'[o] = [call[o] EXCEPT !.alone = FALSE]
  BY <1>1
<1>6. /\ call'[c] \in Call /\ SameBut(call'[c], f) /\ call'[c].alone = ~overlaps
  BY <1>3, <1>4, AloneIs
<1>7. ASSUME NEW o \in Callers \ {c}
      PROVE  call'[o] \in Call /\ SameBut(call'[o], call[o]) /\ call'[o].alone = FALSE
  <2>1. call[o] \in Call /\ FALSE \in BOOLEAN /\ call'[o] = [call[o] EXCEPT !.alone = FALSE]
    BY <1>2, <1>5
  <2>2. QED
    BY <2>1, AloneIs
<1>8. call' \in [Callers -> Call]
  <2>1. \A o \in Callers : call'[o] \in Call
    BY <1>6, <1>7
  <2>2. QED
    BY <1>1, <2>1
<1>9. call'[c].alone = (~\E o \in Callers : Active(o))
  BY <1>6 DEF overlaps
<1>11. QED
  BY <1>1, <1>6, <1>7, <1>8, <1>9, <1>10 DEF OthersMet

(* A call to add: a definition of a new row, and what its own table holds. *)
NewRow(R, t) == \A e \in R : e.row # t.row

AddBegun(c) ==
  \E t \in Entry :
    /\ NewRow(rows, t) /\ Fresh(t.row)
    /\ Kind[t.def] = "table" => t.def \notin served
    /\ Kind[t.def] \in {"column", "view"} => Serving(On[t.def])
    /\ Kind[t.def] \notin PolicyKinds => t.val = BaseValue
    /\ call'[c].step = "overlay" /\ call'[c].op = "add" /\ call'[c].kind = "overlay"
    /\ call'[c].todo = {t} /\ call'[c].seen = OfKind(rows, Kind[t.def])
    /\ call'[c].payload = {} /\ call'[c].target = {}

(* A call that changes the policy: the overlay as it is going to be. *)
Without(R, d) == R \ Declaring(R, d)
Replaces(R, t) ==
  \/ Declaring(R, t.def) = {} /\ NewRow(R, t)
  \/ \E e \in Declaring(R, t.def) : e.row = t.row

PolicyBegun(c) ==
  \E t \in Entry :
    /\ Kind[t.def] \in PolicyKinds
    /\ call'[c].step = "version" /\ call'[c].kind = "overlay" /\ call'[c].todo = {t}
    /\ call'[c].seen = {} /\ call'[c].target = {}
    /\ call'[c].op = "change" => Fresh(t.row) \/ \E e \in Declaring(rows, t.def) : e.row = t.row
    /\ \/ call'[c].op = "change" /\ Replaces(rows, t) /\ call'[c].payload = Without(rows, t.def) \cup {t}
       \/ call'[c].op = "remove" /\ t \in rows /\ call'[c].payload = Without(rows, t.def)

RollbackBegun(c) ==
  /\ call'[c].step = "current" /\ call'[c].op = "rollback" /\ call'[c].kind = "backup"
  /\ call'[c].seen \subseteq call'[c].target
  /\ call'[c].payload = {}
  /\ \E v \in 0 .. Len(history) : call'[c].target = OverlayAt(history, v)
  /\ \E cur \in OneEach(rows), tgt \in OneEach(call'[c].target) :
       /\ Supported(cur, tgt)
       /\ call'[c].todo = {e \in cur : Listed(Removed(cur, tgt), e)}
       /\ call'[c].seen = {e \in tgt : e.def \in Updated(cur, tgt) \cup Restored(cur, tgt)}

(* A call has begun. *)
Begun(c) ==
  /\ ~Active(c) /\ StoreKept /\ BootKept
  /\ call' \in [Callers -> Call]
  /\ OthersMet(c)
  /\ call'[c].alone = (~\E o \in Callers : Active(o))
  /\ calm' => RegistryCurrent /\ ~\E o \in Callers : Active(o)
  /\ AddBegun(c) \/ PolicyBegun(c) \/ RollbackBegun(c)

LEMMA AddBegins ==
  ASSUME TypeOK, NEW c \in Callers, NEW d \in Defs, NEW W \in SUBSET Values, AddEntry(c, d, W),
         Kind[d] = "table" => d \notin served,
         Kind[d] \in {"column", "view"} => Serving(On[d]),
         Kind[d] \notin PolicyKinds => W = {BaseValue}
  PROVE  Begun(c)
<1>1. PICK r \in Rows, v \in W :
        /\ Fresh(r)
        /\ Begin(c, [Idle EXCEPT !.step = "overlay", !.op = "add",
                                 !.todo = {[row |-> r, def |-> d, val |-> v]},
                                 !.seen = OfKind(rows, Kind[d])])
  BY DEF AddEntry
<1> DEFINE t == [row |-> r, def |-> d, val |-> v]
           f == [Idle EXCEPT !.step = "overlay", !.op = "add", !.todo = {t},
                             !.seen = OfKind(rows, Kind[d])]
<1>2. t \in Entry /\ t.row = r /\ t.def = d /\ t.val = v
  BY DEF Entry
<1> HIDE DEF t
<1>3. /\ f \in Call /\ f.step = "overlay" /\ f.op = "add" /\ f.kind = "overlay"
      /\ f.todo = {t} /\ f.seen = OfKind(rows, Kind[d]) /\ f.payload = {} /\ f.target = {}
  <2>1. OfKind(rows, Kind[d]) \in SUBSET Entry
    BY DEF OfKind, TypeOK
  <2>2. QED
    BY <1>2, <2>1, IdleIs DEF Call, Steps
<1>4. Begin(c, f)
  BY <1>1 DEF t
<1> HIDE DEF f
<1>5. NewRow(rows, t) /\ Fresh(t.row) /\ (Kind[d] \notin PolicyKinds => t.val = BaseValue)
  BY <1>1, <1>2 DEF Fresh, NewRow
<1>6. SameBut(call'[c], f)
  BY <1>3, <1>4, BeginIs
<1>7. AddBegun(c)
  BY <1>2, <1>3, <1>5, <1>6 DEF AddBegun, SameBut
<1>8. QED
  BY <1>3, <1>4, <1>7, BeginIs DEF Begun

LEMMA PolicyBegins ==
  ASSUME TypeOK, NEW c \in Callers, NEW t \in Entry, NEW o \in {"change", "remove"},
         NEW P \in SUBSET Entry,
         \/ o = "change" /\ Replaces(rows, t) /\ P = Without(rows, t.def) \cup {t}
         \/ o = "remove" /\ t \in rows /\ P = Without(rows, t.def),
         Kind[t.def] \in PolicyKinds,
         o = "change" => Fresh(t.row) \/ \E e \in Declaring(rows, t.def) : e.row = t.row,
         Begin(c, [Idle EXCEPT !.step = "version", !.op = o, !.todo = {t}, !.payload = P])
  PROVE  Begun(c)
<1> DEFINE f == [Idle EXCEPT !.step = "version", !.op = o, !.todo = {t}, !.payload = P]
<1>1. /\ f \in Call /\ f.step = "version" /\ f.op = o /\ f.kind = "overlay"
      /\ f.todo = {t} /\ f.payload = P /\ f.seen = {} /\ f.target = {}
  BY IdleIs DEF Call, Steps
<1>2. Begin(c, f)
  OBVIOUS
<1> HIDE DEF f
<1>3. SameBut(call'[c], f)
  BY <1>1, <1>2, BeginIs
<1>4. PolicyBegun(c)
  BY <1>1, <1>3 DEF PolicyBegun, SameBut
<1>5. QED
  BY <1>1, <1>2, <1>4, BeginIs DEF Begun

LEMMA WithoutIs ==
  ASSUME TypeOK, NEW d \in Defs
  PROVE  Without(rows, d) \in SUBSET Entry /\ Declaring(rows, d) \subseteq rows /\ rows \subseteq Entry
  BY DEF TypeOK, Without, Declaring

LEMMA UpdateBegins ==
  ASSUME TypeOK, NEW c \in Callers, NEW d \in Defs, UpdatePolicyRule(c, d)
  PROVE  Begun(c)
<1>1. PICK e \in Declaring(rows, d) : \E v \in Values \ {e.val} :
        Begin(c, [Idle EXCEPT !.step = "version", !.op = "change", !.todo = {[e EXCEPT !.val = v]},
                  !.payload = (rows \ Declaring(rows, d)) \cup {[e EXCEPT !.val = v]}])
  BY DEF UpdatePolicyRule
<1>2. PICK v \in Values \ {e.val} :
        Begin(c, [Idle EXCEPT !.step = "version", !.op = "change", !.todo = {[e EXCEPT !.val = v]},
                  !.payload = (rows \ Declaring(rows, d)) \cup {[e EXCEPT !.val = v]}])
  BY <1>1
<1> DEFINE t == [e EXCEPT !.val = v]
<1>3. e \in Entry /\ e.def = d
  BY WithoutIs DEF Declaring
<1>4. t \in Entry /\ t.row = e.row /\ t.def = d
  BY <1>3 DEF Entry
<1>5. Begin(c, [Idle EXCEPT !.step = "version", !.op = "change", !.todo = {t},
                            !.payload = Without(rows, d) \cup {t}])
  BY <1>2 DEF Without
<1> HIDE DEF t
<1>6. Replaces(rows, t)
  BY <1>4 DEF Replaces
<1>7. Without(rows, d) \cup {t} \in SUBSET Entry
  BY <1>4, WithoutIs
<1>8. Kind[t.def] \in PolicyKinds
  BY <1>4 DEF UpdatePolicyRule, PolicyKinds
<1>9. \E x \in Declaring(rows, t.def) : x.row = t.row
  BY <1>4
<1>10. QED
  BY <1>4, <1>5, <1>6, <1>7, <1>8, <1>9, PolicyBegins

LEMMA DeleteBegins ==
  ASSUME TypeOK, NEW c \in Callers, NEW d \in Defs, DeletePolicyRule(c, d)
  PROVE  Begun(c)
<1>1. PICK e \in Declaring(rows, d) :
        Begin(c, [Idle EXCEPT !.step = "version", !.op = "remove", !.todo = {e},
                              !.payload = rows \ Declaring(rows, d)])
  BY DEF DeletePolicyRule
<1>2. e \in Entry /\ e \in rows /\ e.def = d
  BY WithoutIs DEF Declaring
<1>3. Begin(c, [Idle EXCEPT !.step = "version", !.op = "remove", !.todo = {e},
                            !.payload = Without(rows, d)])
  BY <1>1 DEF Without
<1>4. Kind[e.def] \in PolicyKinds
  BY <1>2 DEF DeletePolicyRule, PolicyKinds
<1>5. QED
  BY <1>2, <1>3, <1>4, WithoutIs, PolicyBegins

LEMMA PostureBegins ==
  ASSUME TypeOK, NEW c \in Callers, NEW d \in Defs, SetDefaultPosture(c, d)
  PROVE  Begun(c)
<1>1. PICK v \in Values, r \in Rows :
        /\ \/ Declaring(rows, d) = {} /\ Fresh(r)
           \/ \E e \in Declaring(rows, d) : r = e.row
        /\ LET entry == [row |-> r, def |-> d, val |-> v]
           IN  Begin(c, [Idle EXCEPT !.step = "version", !.op = "change", !.todo = {entry},
                           !.payload = (rows \ Declaring(rows, d)) \cup {entry}])
  BY DEF SetDefaultPosture
<1> DEFINE t == [row |-> r, def |-> d, val |-> v]
<1>2. t \in Entry /\ t.row = r /\ t.def = d
  BY DEF Entry
<1>3. Begin(c, [Idle EXCEPT !.step = "version", !.op = "change", !.todo = {t},
                            !.payload = Without(rows, d) \cup {t}])
  BY <1>1 DEF Without
<1> HIDE DEF t
<1>4. /\ Replaces(rows, t)
      /\ Fresh(t.row) \/ \E e \in Declaring(rows, t.def) : e.row = t.row
  BY <1>1, <1>2 DEF Replaces, Fresh, NewRow
<1>5. Without(rows, d) \cup {t} \in SUBSET Entry
  BY <1>2, WithoutIs
<1>6. Kind[t.def] \in PolicyKinds
  BY <1>2 DEF SetDefaultPosture, PolicyKinds
<1>7. QED
  BY <1>2, <1>3, <1>4, <1>5, <1>6, PolicyBegins

LEMMA RollbackBegins ==
  ASSUME TypeOK, NEW c \in Callers, NEW v \in 0 .. MaxHistory, Rollback(c, v)
  PROVE  Begun(c)
<1> DEFINE target == OverlayAt(history, v)
<1>1. PICK cur \in OneEach(rows), tgt \in OneEach(target) :
        /\ Supported(cur, tgt)
        /\ Begin(c, [Idle EXCEPT
                !.step = "current", !.op = "rollback", !.kind = "backup", !.target = target,
                !.todo = {e \in cur : Listed(Removed(cur, tgt), e)},
                !.seen = {e \in tgt : e.def \in Updated(cur, tgt) \cup Restored(cur, tgt)}])
  BY DEF Rollback
<1>2. history \in Seq(HistoryEntry) /\ v \in 0 .. Len(history) /\ rows \in SUBSET Entry
  BY DEF Rollback, TypeOK
<1>3. target \in SUBSET Entry
  <2>1. \A i \in 1 .. Len(history) : history[i].overlay \in SUBSET Entry
    <3>1. \A i \in 1 .. Len(history) : history[i] \in HistoryEntry
      BY <1>2
    <3>2. \A x \in HistoryEntry : x.overlay \in SUBSET Entry
      BY DEF HistoryEntry
    <3>3. QED
      BY <3>1, <3>2
  <2>2. \/ target = {}
        \/ \E i \in 1 .. Len(history) : target = history[i].overlay
    BY <1>2, OverlayIsSnapshot
  <2> HIDE DEF target
  <2>3. QED
    BY <2>1, <2>2
<1> HIDE DEF target
<1>4. cur \in SUBSET Entry /\ tgt \subseteq target
  BY <1>2 DEF OneEach
<1> DEFINE T == {e \in cur : Listed(Removed(cur, tgt), e)}
           S == {e \in tgt : e.def \in Updated(cur, tgt) \cup Restored(cur, tgt)}
<1>5. T \in SUBSET Entry /\ S \in SUBSET Entry /\ S \subseteq target
  BY <1>3, <1>4
<1> DEFINE f == [Idle EXCEPT !.step = "current", !.op = "rollback", !.kind = "backup",
                             !.target = target, !.todo = T, !.seen = S]
<1>6. Begin(c, f)
  BY <1>1
<1> HIDE DEF T, S
<1>7. /\ f \in Call /\ f.step = "current" /\ f.op = "rollback" /\ f.kind = "backup"
      /\ f.seen = S /\ f.target = target /\ f.todo = T /\ f.payload = {}
  BY <1>3, <1>5, IdleIs DEF Call, Steps
<1> HIDE DEF f
<1>8. SameBut(call'[c], f)
  BY <1>6, <1>7, BeginIs
<1>9. call'[c].target = OverlayAt(history, v)
  BY <1>7, <1>8 DEF SameBut, target
<1>10. /\ call'[c].target = target /\ call'[c].todo = T /\ call'[c].seen = S
       /\ call'[c].step = "current" /\ call'[c].op = "rollback" /\ call'[c].kind = "backup"
       /\ call'[c].payload = {}
  BY <1>7, <1>8 DEF SameBut
<1>12. \E x \in OneEach(rows), y \in OneEach(call'[c].target) :
         /\ Supported(x, y)
         /\ call'[c].todo = {e \in x : Listed(Removed(x, y), e)}
         /\ call'[c].seen = {e \in y : e.def \in Updated(x, y) \cup Restored(x, y)}
  BY <1>1, <1>10 DEF T, S
<1>13. RollbackBegun(c)
  BY <1>2, <1>5, <1>9, <1>10, <1>12 DEF RollbackBegun
<1>14. QED
  BY <1>6, <1>7, <1>13, BeginIs DEF Begun

(* Every call that begins, begins as one of the three. *)
Begins(c) ==
  \/ \E d \in Defs : \/ AddTable(c, d)
                    \/ AddTableColumn(c, d)
                    \/ AddOperation(c, d)
                    \/ AddView(c, d)
                    \/ AddPolicyRule(c, d)
                    \/ UpdatePolicyRule(c, d)
                    \/ DeletePolicyRule(c, d)
                    \/ SetDefaultPosture(c, d)
  \/ \E v \in 0 .. MaxHistory : Rollback(c, v)

LEMMA CallBegins ==
  ASSUME TypeOK, NEW c \in Callers, Begins(c)
  PROVE  Begun(c)
<1>1. ASSUME NEW d \in Defs, AddTable(c, d) \/ AddTableColumn(c, d) \/ AddOperation(c, d)
                             \/ AddView(c, d)
      PROVE  Begun(c)
  <2>1. /\ AddEntry(c, d, {BaseValue}) /\ {BaseValue} \in SUBSET Values
        /\ Kind[d] = "table" => d \notin served
        /\ Kind[d] \in {"column", "view"} => Serving(On[d])
    BY <1>1 DEF AddTable, AddTableColumn, AddOperation, AddView
  <2>2. QED
    BY <2>1, AddBegins
<1>2. ASSUME NEW d \in Defs, AddPolicyRule(c, d)
      PROVE  Begun(c)
  <2>1. /\ AddEntry(c, d, Values) /\ Values \in SUBSET Values
        /\ Kind[d] = "rule" /\ Kind[d] \in PolicyKinds
    BY <1>2 DEF AddPolicyRule, PolicyKinds
  <2>2. QED
    BY <2>1, AddBegins
<1>3. QED
  BY <1>1, <1>2, UpdateBegins, DeleteBegins, PostureBegins, RollbackBegins DEF Begins

-----------------------------------------------------------------------------
(* The later steps, field by field.  k is the call before the step, m the  *)
(* one after it.                                                           *)

Unchanged(k, m) ==
  m.op = k.op /\ m.version = k.version /\ m.target = k.target /\ m.alone = k.alone

Goes(c, k, m) ==
  /\ k = call[c] /\ m = call'[c] /\ k \in Call /\ m \in Call
  /\ call' = [call EXCEPT ![c] = m]
  /\ BootKept

OverlayRead(c, k, m) ==
  /\ Goes(c, k, m) /\ StoreKept /\ k.step = "overlay" /\ m.step = "version"
  /\ Unchanged(k, m) /\ m.todo = k.todo /\ m.seen = k.seen /\ m.kind = k.kind
  /\ k.todo \subseteq m.payload
  /\ \A t \in Entry : k.todo = {t} =>
       m.payload = (IF Kind[t.def] \in {"table", "column"}
                    THEN {x \in rows : Kind[x.def] # Kind[t.def]} \cup k.seen ELSE rows) \cup {t}

CurrentRead(c, k, m) ==
  /\ Goes(c, k, m) /\ StoreKept /\ k.step = "current" /\ m.step = "version"
  /\ Unchanged(k, m) /\ m.seen = k.seen /\ m.kind = k.kind
  /\ m.payload = rows /\ m.todo = {e \in rows : Doomed(DefsOf(k.todo), e)}

VersionRead(c, k, m) ==
  /\ Goes(c, k, m) /\ StoreKept /\ k.step = "version" /\ m.step = "insert"
  /\ m.op = k.op /\ m.target = k.target /\ m.alone = k.alone
  /\ m.todo = k.todo /\ m.seen = k.seen /\ m.kind = k.kind /\ m.payload = k.payload
  /\ m.version = Len(history) + 1

(* A rollback that has T to delete and S to write back, or has failed. *)
Continues(k, T, S, m) ==
  /\ Unchanged(k, m) /\ m.todo = T /\ m.seen = S
  /\ \/ T # {} /\ m.step = "delete" /\ m.kind = k.kind /\ m.payload = k.payload
     \/ T = {} /\ S # {} /\ m.step = "restore" /\ m.kind = k.kind /\ m.payload = k.payload
     \/ T = {} /\ S = {} /\ m.step = "version" /\ m.kind = "overlay" /\ m.payload = k.target

Fails(k, m) ==
  /\ Unchanged(k, m) /\ m.todo = {} /\ m.seen = {}
  /\ m.step = "version" /\ m.kind = "failed" /\ m.payload = {}

Inserted(c, k, m) ==
  /\ Goes(c, k, m) /\ rows' = rows /\ k.step = "insert"
  /\ \/ /\ k.version = Len(history) + 1
        /\ history' = Append(history, [kind |-> k.kind, overlay |-> k.payload])
        /\ \/ /\ k.op # "rollback" /\ m.step = "save" /\ Unchanged(k, m)
              /\ m.todo = k.todo /\ m.seen = k.seen /\ m.kind = k.kind /\ m.payload = k.payload
           \/ k.op = "rollback" /\ k.kind = "backup" /\ Continues(k, k.todo, k.seen, m)
           \/ k.op = "rollback" /\ k.kind # "backup" /\ m = Idle
     \/ /\ k.version # Len(history) + 1
        /\ history' = history
        /\ (k.op = "rollback" /\ k.kind = "overlay" /\ Fails(k, m)) \/ m = Idle

SavedOne(c, k, m) ==
  /\ Goes(c, k, m) /\ history' = history /\ k.step = "save" /\ m = Idle
  /\ \E e \in k.todo : rows' = IF k.op = "remove" THEN {x \in rows : x.row # e.row}
                               ELSE Saved(rows, e)

DeletedOne(c, k, m) ==
  /\ Goes(c, k, m) /\ history' = history /\ k.step = "delete"
  /\ \E e \in k.todo :
       \/ rows' = {x \in rows : x.row # e.row} /\ Continues(k, k.todo \ {e}, k.seen, m)
       \/ NewRow(rows, e) /\ rows' = rows /\ Fails(k, m)

RestoredOne(c, k, m) ==
  /\ Goes(c, k, m) /\ history' = history /\ k.step = "restore"
  /\ \E e \in k.seen : rows' = Saved(rows, e) /\ Continues(k, k.todo, k.seen \ {e}, m)

WriteFailed(c, k, m) ==
  /\ Goes(c, k, m) /\ StoreKept /\ k.step \in {"save", "delete", "restore"}
  /\ (k.op = "rollback" /\ Fails(k, m)) \/ (k.op # "rollback" /\ m = Idle)
  /\ calm' => k.op # "rollback"

GoesOn(c, k, m) ==
  \/ OverlayRead(c, k, m) \/ CurrentRead(c, k, m) \/ VersionRead(c, k, m) \/ Inserted(c, k, m)
  \/ SavedOne(c, k, m) \/ DeletedOne(c, k, m) \/ RestoredOne(c, k, m) \/ WriteFailed(c, k, m)

LEMMA RollbackFails ==
  ASSUME NEW k \in Call, NEW m, m = FailedRollback(k)
  PROVE  m \in Call /\ Fails(k, m)
  BY FailedIs DEF Unchanged, Fails

LEMMA RollbackContinues ==
  ASSUME NEW k \in Call, NEW m, m = Proceed(k)
  PROVE  m \in Call /\ Continues(k, k.todo, k.seen, m)
  BY ProceedIs DEF Unchanged, Continues

LEMMA OverlayReads ==
  ASSUME TypeOK, NEW c \in Callers, ReadOverlay(c)
  PROVE  \E m : OverlayRead(c, call[c], m)
<1> DEFINE k == call[c]
           kinds == {Kind[e.def] : e \in k.todo}
           kept == {e \in rows : Kind[e.def] \notin kinds} \cup k.seen
           P == k.todo \cup (IF kinds \subseteq {"table", "column"} THEN kept ELSE rows)
           m == [k EXCEPT !.step = "version", !.payload = P]
<1>1. k \in Call /\ rows \in SUBSET Entry
  BY DEF TypeOK
<1>2. P \in SUBSET Entry
  BY <1>1 DEF Call
<1>3. k.step = "overlay" /\ UNCHANGED <<rows, history, served, posture, calm>>
  BY DEF ReadOverlay
<1>4. call' = [call EXCEPT ![c] = m]
  BY DEF ReadOverlay
<1>5. ASSUME NEW t \in Entry, k.todo = {t}
      PROVE  P = (IF Kind[t.def] \in {"table", "column"}
                  THEN {x \in rows : Kind[x.def] # Kind[t.def]} \cup k.seen ELSE rows) \cup {t}
  <2>1. kinds = {Kind[t.def]}
    BY <1>5
  <2>2. kept = {x \in rows : Kind[x.def] # Kind[t.def]} \cup k.seen
    BY <2>1
  <2>3. QED
    BY <1>5, <2>1, <2>2
<1>6. k.todo \subseteq P
  OBVIOUS
<1> HIDE DEF P
<1>7. /\ m \in Call /\ m.step = "version" /\ m.op = k.op /\ m.version = k.version
      /\ m.target = k.target /\ m.alone = k.alone /\ m.todo = k.todo /\ m.seen = k.seen
      /\ m.kind = k.kind /\ m.payload = P
  BY <1>1, <1>2 DEF Call, Steps
<1> HIDE DEF m
<1>8. call'[c] = m
  BY <1>4 DEF TypeOK
<1>9. OverlayRead(c, k, m)
  BY <1>1, <1>3, <1>4, <1>5, <1>6, <1>7, <1>8 DEF OverlayRead, Goes, BootKept, StoreKept, Unchanged, TypeOK
<1>10. QED
  BY <1>9

LEMMA CurrentReads ==
  ASSUME TypeOK, NEW c \in Callers, ReadCurrent(c)
  PROVE  \E m : CurrentRead(c, call[c], m)
<1> DEFINE k == call[c]
           T == {e \in rows : Doomed(DefsOf(k.todo), e)}
           m == [k EXCEPT !.step = "version", !.payload = rows, !.todo = T]
<1>1. k \in Call /\ rows \in SUBSET Entry /\ T \in SUBSET Entry
  BY DEF TypeOK
<1>2. k.step = "current" /\ UNCHANGED <<rows, history, served, posture, calm>>
  BY DEF ReadCurrent
<1>3. call' = [call EXCEPT ![c] = m]
  BY DEF ReadCurrent
<1> HIDE DEF T
<1>4. /\ m \in Call /\ m.step = "version" /\ m.op = k.op /\ m.version = k.version
      /\ m.target = k.target /\ m.alone = k.alone /\ m.seen = k.seen /\ m.kind = k.kind
      /\ m.payload = rows /\ m.todo = T
  BY <1>1 DEF Call, Steps
<1> HIDE DEF m
<1>5. call'[c] = m
  BY <1>3 DEF TypeOK
<1>6. CurrentRead(c, k, m)
  BY <1>1, <1>2, <1>3, <1>4, <1>5 DEF T, CurrentRead, Goes, BootKept, StoreKept, Unchanged, TypeOK
<1>7. QED
  BY <1>6

LEMMA VersionReads ==
  ASSUME TypeOK, NEW c \in Callers, ReadVersion(c)
  PROVE  \E m : VersionRead(c, call[c], m)
<1> DEFINE k == call[c]
           m == [k EXCEPT !.step = "insert", !.version = Len(history) + 1]
<1>1. k \in Call /\ Len(history) + 1 \in Nat
  BY DEF TypeOK
<1>2. k.step = "version" /\ UNCHANGED <<rows, history, served, posture, calm>>
  BY DEF ReadVersion
<1>3. call' = [call EXCEPT ![c] = m]
  BY DEF ReadVersion
<1>4. /\ m \in Call /\ m.step = "insert" /\ m.op = k.op /\ m.target = k.target
      /\ m.alone = k.alone /\ m.seen = k.seen /\ m.kind = k.kind /\ m.todo = k.todo
      /\ m.payload = k.payload /\ m.version = Len(history) + 1
  BY <1>1 DEF Call, Steps
<1> HIDE DEF m
<1>5. call'[c] = m
  BY <1>3 DEF TypeOK
<1>6. VersionRead(c, k, m)
  BY <1>1, <1>2, <1>3, <1>4, <1>5 DEF VersionRead, Goes, BootKept, StoreKept, TypeOK
<1>7. QED
  BY <1>6

(* A step that leaves the record m in the place of the caller's. *)
LEMMA PutCall ==
  ASSUME TypeOK, NEW c \in Callers, NEW m \in Call, call' = [call EXCEPT ![c] = m],
         served' = served, posture' = posture, calm' \in BOOLEAN, calm' => calm
  PROVE  Goes(c, call[c], m)
  BY DEF Goes, BootKept, TypeOK

LEMMA Inserts ==
  ASSUME TypeOK, NEW c \in Callers, Insert(c)
  PROVE  \E m : Inserted(c, call[c], m)
<1> DEFINE k == call[c]
           x == [kind |-> k.kind, overlay |-> k.payload]
<1>1. k \in Call /\ calm \in BOOLEAN
  BY DEF TypeOK
<1>2. k.step = "insert" /\ UNCHANGED <<rows, served, posture, calm>>
  BY DEF Insert
<1>3. CASE k.version = Len(history) + 1
  <2> DEFINE m == AfterAppend(k)
  <2>1. history' = Append(history, x) /\ call' = [call EXCEPT ![c] = m]
    BY <1>3 DEF Insert, Appending
  <2>2. m \in Call /\ \/ /\ k.op # "rollback" /\ m.step = "save" /\ Unchanged(k, m)
                         /\ m.todo = k.todo /\ m.seen = k.seen
                         /\ m.kind = k.kind /\ m.payload = k.payload
                      \/ k.op = "rollback" /\ k.kind = "backup" /\ Continues(k, k.todo, k.seen, m)
                      \/ k.op = "rollback" /\ k.kind # "backup" /\ m = Idle
    <3>1. CASE k.op # "rollback"
      <4>1. m = [k EXCEPT !.step = "save"] /\ "save" \in Steps
        BY <3>1 DEF AfterAppend, Steps
      <4>2. QED
        BY <1>1, <3>1, <4>1, StepIs DEF Unchanged
    <3>2. CASE k.op = "rollback" /\ k.kind = "backup"
      BY <1>1, <3>2, RollbackContinues DEF AfterAppend
    <3>3. CASE k.op = "rollback" /\ k.kind # "backup"
      BY <3>3, IdleIs DEF AfterAppend
    <3>4. QED
      BY <3>1, <3>2, <3>3
  <2> HIDE DEF m
  <2>3. Goes(c, k, m)
    BY <1>1, <1>2, <2>1, <2>2, PutCall
  <2>4. Inserted(c, k, m)
    BY <1>2, <1>3, <2>1, <2>2, <2>3 DEF Inserted
  <2>5. QED
    BY <2>4
<1>4. CASE k.version # Len(history) + 1
  <2> DEFINE m == IF k.op = "rollback" /\ k.kind = "overlay" THEN FailedRollback(k) ELSE Idle
  <2>1. history' = history /\ call' = [call EXCEPT ![c] = m]
    BY <1>4 DEF Insert
  <2>2. m \in Call /\ ((k.op = "rollback" /\ k.kind = "overlay" /\ Fails(k, m)) \/ m = Idle)
    BY <1>1, RollbackFails, IdleIs
  <2> HIDE DEF m
  <2>3. Goes(c, k, m)
    BY <1>1, <1>2, <2>1, <2>2, PutCall
  <2>4. Inserted(c, k, m)
    BY <1>2, <1>4, <2>1, <2>2, <2>3 DEF Inserted
  <2>5. QED
    BY <2>4
<1>5. QED
  BY <1>3, <1>4

LEMMA Saves ==
  ASSUME TypeOK, NEW c \in Callers, Save(c)
  PROVE  \E m : SavedOne(c, call[c], m)
<1>1. Goes(c, call[c], Idle)
  BY IdleIs, PutCall DEF Save, TypeOK
<1>2. SavedOne(c, call[c], Idle)
  BY <1>1 DEF Save, SavedOne
<1>3. QED
  BY <1>2

(* Taking one entry off what is left to do. *)
LEMMA LessIs ==
  ASSUME NEW k \in Call, NEW T \in SUBSET Entry, NEW S \in SUBSET Entry,
         NEW n, \/ n = [k EXCEPT !.todo = T] /\ S = k.seen
                \/ n = [k EXCEPT !.seen = S] /\ T = k.todo,
         NEW m, m = Proceed(n)
  PROVE  m \in Call /\ Continues(k, T, S, m)
<1>1. /\ n \in Call /\ Unchanged(k, n) /\ n.todo = T /\ n.seen = S
      /\ n.kind = k.kind /\ n.payload = k.payload /\ n.target = k.target
  BY DEF Call, Unchanged
<1>2. m \in Call /\ Continues(n, T, S, m)
  BY <1>1, RollbackContinues
<1>3. QED
  BY <1>1, <1>2 DEF Continues, Unchanged

LEMMA DeletesOne ==
  ASSUME TypeOK, NEW c \in Callers, DeleteOne(c)
  PROVE  \E m : DeletedOne(c, call[c], m)
<1> DEFINE k == call[c]
<1>1. k \in Call /\ calm \in BOOLEAN
  BY DEF TypeOK
<1>2. k.step = "delete" /\ UNCHANGED <<history, served, posture, calm>>
  BY DEF DeleteOne
<1>3. PICK e \in First(call[c].todo) :
        \/ /\ rows' = {x \in rows : x.row # e.row}
           /\ call' = [call EXCEPT ![c] = Proceed(Deleted(call[c], e))]
        \/ /\ ~\E x \in rows : x.row = e.row
           /\ call' = [call EXCEPT ![c] = FailedRollback(call[c])]
           /\ rows' = rows
  BY DEF DeleteOne
<1>4. e \in k.todo /\ k.todo \ {e} \in SUBSET Entry /\ k.seen \in SUBSET Entry
  BY <1>1 DEF Call, First
<1>5. CASE /\ rows' = {x \in rows : x.row # e.row}
           /\ call' = [call EXCEPT ![c] = Proceed(Deleted(call[c], e))]
  <2> DEFINE n == Deleted(k, e)
             m == Proceed(n)
  <2>1. m \in Call /\ Continues(k, k.todo \ {e}, k.seen, m)
    <3> HIDE DEF m
    <3>1. m = Proceed(n)
      BY DEF m
    <3>2. QED
      BY <1>1, <1>4, <3>1, LessIs, ZenonT(30) DEF Deleted
  <2>2. call' = [call EXCEPT ![c] = m]
    BY <1>5
  <2> HIDE DEF m
  <2>3. Goes(c, k, m)
    BY <1>1, <1>2, <2>1, <2>2, PutCall
  <2>4. DeletedOne(c, k, m)
    BY <1>2, <1>4, <1>5, <2>1, <2>3 DEF DeletedOne
  <2>5. QED
    BY <2>4
<1>6. CASE /\ ~\E x \in rows : x.row = e.row
           /\ call' = [call EXCEPT ![c] = FailedRollback(k)] /\ rows' = rows
  <2> DEFINE m == FailedRollback(k)
  <2>1. m \in Call /\ Fails(k, m)
    BY <1>1, RollbackFails
  <2> HIDE DEF m
  <2>2. call' = [call EXCEPT ![c] = m]
    BY <1>6 DEF m
  <2>3. Goes(c, k, m)
    BY <1>1, <1>2, <2>1, <2>2, PutCall
  <2>4. DeletedOne(c, k, m)
    BY <1>2, <1>4, <1>6, <2>1, <2>3 DEF DeletedOne, NewRow
  <2>5. QED
    BY <2>4
<1>7. QED
  BY <1>3, <1>5, <1>6

LEMMA RestoresOne ==
  ASSUME TypeOK, NEW c \in Callers, RestoreOne(c)
  PROVE  \E m : RestoredOne(c, call[c], m)
<1> DEFINE k == call[c]
<1>1. k \in Call /\ calm \in BOOLEAN
  BY DEF TypeOK
<1>2. k.step = "restore" /\ UNCHANGED <<history, served, posture, calm>>
  BY DEF RestoreOne
<1>3. PICK e \in First(call[c].seen) :
        /\ rows' = Saved(rows, e)
        /\ call' = [call EXCEPT ![c] = Proceed(Rewritten(call[c], e))]
  BY DEF RestoreOne
<1> DEFINE n == Rewritten(k, e)
           m == Proceed(n)
<1>4. k.seen \ {e} \in SUBSET Entry /\ k.todo \in SUBSET Entry /\ e \in k.seen
  BY <1>1 DEF Call, First
<1>5. m \in Call /\ Continues(k, k.todo, k.seen \ {e}, m)
  <2> HIDE DEF m
  <2>1. m = Proceed(n)
    BY DEF m
  <2>2. QED
    BY <1>1, <1>4, <2>1, LessIs, ZenonT(30) DEF Rewritten
<1>6. call' = [call EXCEPT ![c] = m]
  BY <1>3
<1> HIDE DEF m
<1>7. Goes(c, k, m)
  BY <1>1, <1>2, <1>5, <1>6, PutCall
<1>8. RestoredOne(c, k, m)
  BY <1>2, <1>3, <1>4, <1>5, <1>7 DEF RestoredOne
<1>9. QED
  BY <1>8

LEMMA FailsToWrite ==
  ASSUME TypeOK, NEW c \in Callers, WriteFails(c)
  PROVE  \E m : WriteFailed(c, call[c], m)
<1> DEFINE k == call[c]
           m == IF k.op = "rollback" THEN FailedRollback(k) ELSE Idle
<1>1. k \in Call
  BY DEF TypeOK
<1>2. /\ m \in Call
      /\ (k.op = "rollback" /\ Fails(k, m)) \/ (k.op # "rollback" /\ m = Idle)
  BY <1>1, RollbackFails, IdleIs
<1>3. /\ call' = [call EXCEPT ![c] = m] /\ k.step \in {"save", "delete", "restore"}
      /\ UNCHANGED <<rows, history, served, posture>>
      /\ calm' = (calm /\ k.op # "rollback") /\ calm \in BOOLEAN
  BY DEF WriteFails, TypeOK
<1>4. calm' \in BOOLEAN /\ (calm' => calm /\ k.op # "rollback")
  BY <1>3, Zenon
<1> HIDE DEF m
<1>5. WriteFailed(c, k, m)
  BY <1>2, <1>3, <1>4, PutCall DEF WriteFailed, StoreKept
<1>6. QED
  BY <1>5

LEMMA CallSteps ==
  ASSUME TypeOK, NEW c \in Callers, CallStep(c)
  PROVE  Begun(c) \/ \E m : GoesOn(c, call[c], m)
<1>1. \/ Begins(c) \/ ReadOverlay(c) \/ ReadCurrent(c) \/ ReadVersion(c) \/ Insert(c)
      \/ Save(c) \/ DeleteOne(c) \/ RestoreOne(c) \/ WriteFails(c)
  BY DEF CallStep, Begins
<1>2. CASE Begins(c)
  BY <1>2, CallBegins
<1>3. CASE ReadOverlay(c)
  BY <1>3, OverlayReads DEF GoesOn
<1>4. CASE ReadCurrent(c)
  BY <1>4, CurrentReads DEF GoesOn
<1>5. CASE ReadVersion(c)
  BY <1>5, VersionReads DEF GoesOn
<1>6. CASE Insert(c)
  BY <1>6, Inserts DEF GoesOn
<1>7. CASE Save(c)
  BY <1>7, Saves DEF GoesOn
<1>8. CASE DeleteOne(c)
  BY <1>8, DeletesOne DEF GoesOn
<1>9. CASE RestoreOne(c)
  BY <1>9, RestoresOne DEF GoesOn
<1>10. CASE WriteFails(c)
  BY <1>10, FailsToWrite DEF GoesOn
<1>11. QED
  BY <1>1, <1>2, <1>3, <1>4, <1>5, <1>6, <1>7, <1>8, <1>9, <1>10

-----------------------------------------------------------------------------
(* The inductive invariant, first half: what is stored and what is going   *)
(* to be stored was in an overlay snapshot of the history h first.         *)

Audited(h, e) == \E i \in 1 .. Len(h) : h[i].kind = "overlay" /\ e \in h[i].overlay

(* A call k stands where its kind of call can stand, and what it will      *)
(* write is in the snapshot it is about to append, or in one already there.*)
Sound(h, k) ==
  /\ k.op # "rollback" => /\ k.kind = "overlay"
                          /\ k.step \in {"idle", "overlay", "version", "insert", "save"}
  /\ k.op = "rollback" => k.step \in {"current", "version", "insert", "delete", "restore"}
  /\ k.step = "overlay" => k.op = "add"
  /\ k.op \in {"add", "change"} /\ k.step \in {"version", "insert"} => k.todo \subseteq k.payload
  /\ k.op \in {"add", "change"} /\ k.step = "save" => \A e \in k.todo : Audited(h, e)
  /\ k.op = "rollback" => \A e \in k.seen : Audited(h, e)

(* Second half: a call that met no other is the only one under way, and    *)
(* knows the overlay that writing its one row to the store R will leave.   *)
Keyed(R) == \A e, x \in R : e.row = x.row => e = x

Snapshot(R, k, t) ==
  \/ k.op = "add" /\ NewRow(R, t) /\ k.payload = R \cup {t}
  \/ k.op = "change" /\ Replaces(R, t) /\ k.payload = Without(R, t.def) \cup {t}
  \/ k.op = "remove" /\ t \in R /\ k.payload = Without(R, t.def)

Latest(h, P) == Len(h) > 0 /\ h[Len(h)].kind = "overlay" /\ h[Len(h)].overlay = P

Intended(h, R, k) ==
  k.alone /\ k.step # "idle" /\ k.op # "rollback" =>
    \E t \in Entry :
      /\ k.todo = {t}
      /\ \/ k.step = "overlay" /\ NewRow(R, t) /\ k.seen = OfKind(R, Kind[t.def])
         \/ k.step \in {"version", "insert"} /\ Snapshot(R, k, t)
         \/ k.step = "save" /\ Snapshot(R, k, t) /\ Latest(h, k.payload)

Lone == \A c, o \in Callers : Active(c) /\ call[c].alone /\ Active(o) => o = c

Inv ==
  /\ TypeOK
  /\ AuditFirst
  /\ Keyed(rows)
  /\ Lone
  /\ \A c \in Callers : Sound(history, call[c]) /\ Intended(history, rows, call[c])

(* The history only grows, so that what was audited stays audited. *)
Grown ==
  \/ history' = history
  \/ \E x \in HistoryEntry : history' = Append(history, x)

LEMMA StaysAudited ==
  ASSUME history \in Seq(HistoryEntry), Grown, NEW e, Audited(history, e)
  PROVE  Audited(history', e)
<1>1. CASE history' = history
  BY <1>1
<1>2. ASSUME NEW x \in HistoryEntry, history' = Append(history, x)
      PROVE  Audited(history', e)
  BY <1>2, AppendHistory DEF Audited
<1>3. QED
  BY <1>1, <1>2 DEF Grown

LEMMA NowAudited ==
  ASSUME history \in Seq(HistoryEntry), NEW P \in SUBSET Entry, NEW e \in P,
         history' = Append(history, [kind |-> "overlay", overlay |-> P])
  PROVE  Audited(history', e)
<1> DEFINE x == [kind |-> "overlay", overlay |-> P]
<1>1. x \in HistoryEntry /\ x.kind = "overlay" /\ x.overlay = P
  BY DEF HistoryEntry
<1> HIDE DEF x
<1>2. Len(history') = Len(history) + 1 /\ Len(history) \in Nat /\ history'[Len(history) + 1] = x
  BY <1>1, AppendHistory DEF x
<1>3. QED
  BY <1>1, <1>2 DEF Audited

LEMMA StaysSound ==
  ASSUME history \in Seq(HistoryEntry), Grown, NEW k, NEW m, m = k \/ SameBut(m, k),
         Sound(history, k)
  PROVE  Sound(history', m)
<1>1. \A e : Audited(history, e) => Audited(history', e)
  BY StaysAudited
<1>2. /\ m.step = k.step /\ m.op = k.op /\ m.todo = k.todo /\ m.seen = k.seen
      /\ m.kind = k.kind /\ m.payload = k.payload
  BY DEF SameBut
<1>3. QED
  BY <1>1, <1>2 DEF Sound

LEMMA IdleSound ==
  ASSUME NEW h, NEW R
  PROVE  Sound(h, Idle) /\ Intended(h, R, Idle)
  BY IdleIs DEF Sound, Intended

LEMMA OverlayAudited ==
  ASSUME history \in Seq(HistoryEntry), NEW v \in 0 .. Len(history)
  PROVE  \A e \in OverlayAt(history, v) : Audited(history, e)
  BY OverlayIsSnapshot DEF Audited

(* Writing one row keeps the store keyed by row id. *)
LEMMA SavedKeyed ==
  ASSUME NEW R, NEW e, Keyed(R)
  PROVE  Keyed(Saved(R, e)) /\ Keyed({x \in R : x.row # e.row})
  BY DEF Keyed, Saved

-----------------------------------------------------------------------------
(* A call that begins.                                                     *)

LEMMA BegunKeeps ==
  ASSUME Inv, NEW c \in Callers, Begun(c)
  PROVE  Inv'
<1>1. /\ ~Active(c) /\ rows' = rows /\ history' = history /\ served' = served
      /\ posture' = posture /\ calm' \in BOOLEAN /\ call' \in [Callers -> Call]
      /\ TypeOK /\ history \in Seq(HistoryEntry) /\ Grown
  BY DEF Begun, StoreKept, BootKept, Inv, TypeOK, Grown
<1>2. TypeOK'
  BY <1>1 DEF TypeOK
<1>3. AuditFirst' /\ Keyed(rows')
  BY <1>1 DEF Inv, AuditFirst
<1>4. ASSUME NEW o \in Callers \ {c}
      PROVE  /\ Sound(history', call'[o]) /\ Intended(history', rows', call'[o])
             /\ call'[o].alone = FALSE
  <2>1. SameBut(call'[o], call[o]) /\ call'[o].alone = FALSE
    BY DEF Begun, OthersMet
  <2>2. QED
    BY <1>1, <2>1, StaysSound DEF Inv, Intended
<1>5. Sound(history', call'[c])
  <2>1. CASE AddBegun(c)
    BY <2>1 DEF AddBegun, Sound
  <2>2. CASE PolicyBegun(c)
    BY <2>2 DEF PolicyBegun, Sound
  <2>3. CASE RollbackBegun(c)
    <3>1. \A e \in call'[c].target : Audited(history, e)
      BY <1>1, <2>3, OverlayAudited DEF RollbackBegun
    <3>2. QED
      BY <1>1, <2>3, <3>1 DEF RollbackBegun, Sound
  <2>4. QED
    BY <2>1, <2>2, <2>3 DEF Begun
<1>6. Intended(history', rows', call'[c])
  <2>1. CASE AddBegun(c)
    BY <1>1, <2>1 DEF AddBegun, Intended
  <2>2. CASE PolicyBegun(c)
    BY <1>1, <2>2 DEF PolicyBegun, Intended, Snapshot
  <2>3. CASE RollbackBegun(c)
    BY <2>3 DEF RollbackBegun, Intended
  <2>4. QED
    BY <2>1, <2>2, <2>3 DEF Begun
<1>7. Lone'
  <2>1. ASSUME NEW o \in Callers, NEW p \in Callers, Active(o)', call'[o].alone, Active(p)'
        PROVE  p = o
    <3>1. o = c
      BY <1>4, <2>1
    <3>2. ~\E q \in Callers : Active(q)
      BY <2>1, <3>1 DEF Begun
    <3>3. CASE p # c
      <4>1. SameBut(call'[p], call[p])
        BY <3>3 DEF Begun, OthersMet
      <4>2. Active(p)
        BY <2>1, <4>1 DEF Active, SameBut
      <4>3. QED
        BY <3>2, <4>2
    <3>4. QED
      BY <3>1, <3>3
  <2>2. QED
    BY <2>1 DEF Lone
<1>8. QED
  BY <1>2, <1>3, <1>4, <1>5, <1>6, <1>7 DEF Inv

-----------------------------------------------------------------------------
(* A call that goes on: whoever else is under way has met it.              *)

LEMMA GoesKeeps ==
  ASSUME Inv, NEW c \in Callers, NEW k, NEW m, Goes(c, k, m), k.step # "idle", Grown,
         rows' \subseteq Entry, AuditFirst', Keyed(rows'), m = Idle \/ m.alone = k.alone,
         Sound(history', m), Intended(history', rows', m)
  PROVE  Inv'
<1>1. /\ k = call[c] /\ m \in Call /\ call' = [call EXCEPT ![c] = m] /\ m = call'[c]
      /\ served' = served /\ posture' = posture /\ calm' \in BOOLEAN
      /\ TypeOK /\ history \in Seq(HistoryEntry)
  BY DEF Goes, BootKept, Inv, TypeOK
<1>2. call' \in [Callers -> Call] /\ \A p \in Callers \ {c} : call'[p] = call[p]
  BY <1>1 DEF TypeOK
<1>3. history' \in Seq(HistoryEntry)
  BY <1>1, AppendHistory, SMTT(30) DEF Grown
<1>4. TypeOK'
  BY <1>1, <1>2, <1>3 DEF TypeOK
<1>5. Active(c)
  BY <1>1 DEF Active
<1>6. ASSUME NEW p \in Callers \ {c}
      PROVE  /\ Sound(history', call'[p]) /\ Intended(history', rows', call'[p])
             /\ ~(Active(p)' /\ call'[p].alone)
  <2>1. Sound(history, call[p]) /\ call'[p] = call[p]
    BY <1>2 DEF Inv
  <2>2. ~(Active(p) /\ call[p].alone)
    BY <1>5 DEF Inv, Lone
  <2>3. Sound(history', call'[p])
    BY <1>1, <2>1, StaysSound
  <2>4. QED
    BY <2>1, <2>2, <2>3 DEF Intended, Active
<1>7. Lone'
  <2>1. ASSUME NEW o \in Callers, NEW p \in Callers, Active(o)', call'[o].alone, Active(p)'
        PROVE  p = o
    <3>1. o = c
      BY <1>6, <2>1
    <3>2. m.alone = k.alone /\ call[c].alone
      BY <1>1, <2>1, <3>1, IdleIs
    <3>3. ASSUME p # c
          PROVE  FALSE
      BY <1>2, <1>5, <2>1, <3>2, <3>3 DEF Inv, Lone, Active
    <3>4. QED
      BY <3>1, <3>3
  <2>2. QED
    BY <2>1 DEF Lone
<1>8. QED
  BY <1>1, <1>4, <1>6, <1>7 DEF Inv

(* A step that writes nothing. *)
LEMMA ReadsKeep ==
  ASSUME Inv, NEW c \in Callers, NEW k, NEW m, Goes(c, k, m), k.step # "idle", StoreKept,
         m = Idle \/ m.alone = k.alone, Sound(history, m), Intended(history, rows, m)
  PROVE  Inv'
<1>1. /\ rows' = rows /\ history' = history /\ Grown /\ rows \subseteq Entry
      /\ AuditFirst' /\ Keyed(rows')
  BY DEF StoreKept, Grown, Inv, TypeOK, AuditFirst
<1>2. QED
  BY <1>1, GoesKeeps

(* A rollback that continues, fails or ends. *)
Resumes(k, m) ==
  \/ \E T, S : S \subseteq k.seen /\ Continues(k, T, S, m)
  \/ Fails(k, m)
  \/ m = Idle

LEMMA ResumesSound ==
  ASSUME NEW h, NEW R, NEW k, NEW m, k.op = "rollback", Resumes(k, m),
         \A e \in k.seen : Audited(h, e)
  PROVE  Sound(h, m) /\ Intended(h, R, m) /\ (m = Idle \/ m.alone = k.alone)
<1>1. CASE m = Idle
  BY <1>1, IdleSound
<1>2. CASE Fails(k, m)
  BY <1>2 DEF Fails, Unchanged, Sound, Intended
<1>3. ASSUME NEW T, NEW S, S \subseteq k.seen, Continues(k, T, S, m)
      PROVE  Sound(h, m) /\ Intended(h, R, m) /\ m.alone = k.alone
  BY <1>3 DEF Continues, Unchanged, Sound, Intended
<1>4. QED
  BY <1>1, <1>2, <1>3 DEF Resumes

LEMMA GoesOnKeeps ==
  ASSUME Inv, NEW c \in Callers, NEW k, k = call[c], NEW m, GoesOn(c, k, m)
  PROVE  Inv'
<1>1. /\ history \in Seq(HistoryEntry) /\ rows \subseteq Entry /\ k \in Call
      /\ Sound(history, k) /\ Intended(history, rows, k)
  BY DEF Inv, TypeOK
<1>2. CASE OverlayRead(c, k, m)
  <2>1. Sound(history, m)
    BY <1>1, <1>2 DEF OverlayRead, Unchanged, Sound
  <2>2. Intended(history, rows, m)
    <3>1. SUFFICES ASSUME m.alone
                   PROVE  \E t \in Entry : m.todo = {t} /\ Snapshot(rows, m, t)
      BY <1>2 DEF Intended, OverlayRead
    <3>2. PICK t \in Entry : k.todo = {t} /\ NewRow(rows, t) /\ k.seen = OfKind(rows, Kind[t.def])
      BY <1>1, <1>2, <3>1 DEF OverlayRead, Unchanged, Intended, Sound
    <3>3. {x \in rows : Kind[x.def] # Kind[t.def]} \cup k.seen = rows
      BY <3>2 DEF OfKind
    <3>4. m.payload = rows \cup {t}
      BY <1>2, <3>2, <3>3 DEF OverlayRead
    <3>5. m.op = "add" /\ m.todo = {t}
      BY <1>1, <1>2, <3>2 DEF OverlayRead, Unchanged, Sound
    <3>6. QED
      BY <3>2, <3>4, <3>5 DEF Snapshot
  <2>3. QED
    BY <1>2, <2>1, <2>2, ReadsKeep DEF OverlayRead, Unchanged
<1>3. CASE CurrentRead(c, k, m)
  <2>1. Sound(history, m) /\ Intended(history, rows, m)
    BY <1>1, <1>3 DEF CurrentRead, Unchanged, Sound, Intended
  <2>2. QED
    BY <1>3, <2>1, ReadsKeep DEF CurrentRead, Unchanged
<1>4. CASE VersionRead(c, k, m)
  <2>1. Sound(history, m)
    BY <1>1, <1>4 DEF VersionRead, Sound
  <2>2. Intended(history, rows, m)
    BY <1>1, <1>4 DEF VersionRead, Intended, Snapshot
  <2>3. QED
    BY <1>4, <2>1, <2>2, ReadsKeep DEF VersionRead
<1>5. CASE Inserted(c, k, m)
  <2>1. rows' = rows /\ k.step = "insert" /\ Goes(c, k, m) /\ Keyed(rows')
    BY <1>5 DEF Inserted, Inv
  <2> DEFINE x == [kind |-> k.kind, overlay |-> k.payload]
  <2>2. x \in HistoryEntry /\ x.kind = k.kind /\ x.overlay = k.payload
    BY <1>1 DEF Call, HistoryEntry
  <2>3. history' = history \/ history' = Append(history, x)
    BY <1>5 DEF Inserted
  <2>4. Grown
    BY <2>2, <2>3 DEF Grown
  <2>5. \A e : Audited(history, e) => Audited(history', e)
    BY <1>1, <2>4, StaysAudited
  <2>6. AuditFirst'
    BY <2>1, <2>5 DEF Inv, AuditFirst, Audited
  <2>7. Sound(history', m) /\ Intended(history', rows', m) /\ (m = Idle \/ m.alone = k.alone)
    <3>1. CASE m = Idle
      BY <3>1, IdleSound
    <3>2. CASE k.op = "rollback"
      <4>1. Resumes(k, m)
        BY <1>5, <3>2 DEF Inserted, Resumes
      <4>2. \A e \in k.seen : Audited(history', e)
        BY <1>1, <2>5, <3>2 DEF Sound
      <4>3. QED
        BY <3>2, <4>1, <4>2, ResumesSound
    <3>3. CASE k.op # "rollback" /\ m # Idle
      <4>1. /\ history' = Append(history, x) /\ m.step = "save" /\ Unchanged(k, m)
            /\ m.todo = k.todo /\ m.kind = k.kind /\ m.payload = k.payload
        BY <1>5, <3>3 DEF Inserted
      <4>2. k.kind = "overlay" /\ k.payload \in SUBSET Entry
        BY <1>1, <3>3 DEF Sound, Call
      <4>3. x = [kind |-> "overlay", overlay |-> k.payload]
        BY <4>2
      <4>4. \A e \in k.payload : Audited(history', e)
        BY <1>1, <4>1, <4>2, <4>3, NowAudited
      <4>5. Sound(history', m)
        BY <1>1, <2>1, <3>3, <4>1, <4>2, <4>4 DEF Sound, Unchanged
      <4>6. Latest(history', k.payload)
        <5>1. /\ Len(history') = Len(history) + 1 /\ Len(history) \in Nat
              /\ history'[Len(history) + 1] = x
          BY <1>1, <2>2, <4>1, AppendHistory
        <5>2. QED
          BY <2>2, <4>2, <5>1 DEF Latest
      <4>7. Intended(history', rows', m)
        BY <1>1, <2>1, <3>3, <4>1, <4>6 DEF Intended, Unchanged, Snapshot
      <4>8. QED
        BY <4>1, <4>5, <4>7 DEF Unchanged
    <3>4. QED
      BY <3>1, <3>2, <3>3
  <2>8. QED
    BY <1>1, <2>1, <2>4, <2>6, <2>7, GoesKeeps
<1>6. CASE SavedOne(c, k, m)
  <2>1. history' = history /\ k.step = "save" /\ Goes(c, k, m) /\ m = Idle /\ Grown
    BY <1>6 DEF SavedOne, Grown
  <2>2. PICK e \in k.todo : rows' = IF k.op = "remove" THEN {x \in rows : x.row # e.row}
                                    ELSE Saved(rows, e)
    BY <1>6 DEF SavedOne
  <2>3. e \in Entry
    BY <1>1 DEF Call
  <2>4. k.op \in {"add", "change", "remove"}
    BY <1>1, <2>1 DEF Sound, Call
  <2>5. rows' \subseteq Entry /\ Keyed(rows')
    BY <1>1, <2>2, <2>3, SavedKeyed DEF Saved, Inv
  <2>6. \A x \in rows' : x \in rows \/ (k.op # "remove" /\ x = e)
    BY <2>2 DEF Saved
  <2>7. \A x \in rows' : Audited(history', x)
    <3>1. \A x \in rows : Audited(history, x)
      BY DEF Inv, AuditFirst, Audited
    <3>2. k.op # "remove" => Audited(history, e)
      BY <1>1, <2>1, <2>4 DEF Sound
    <3>3. QED
      BY <2>1, <2>6, <3>1, <3>2
  <2>8. AuditFirst'
    BY <2>7 DEF AuditFirst, Audited
  <2>9. QED
    BY <2>1, <2>5, <2>8, IdleSound, GoesKeeps
<1>7. CASE DeletedOne(c, k, m)
  <2>1. /\ history' = history /\ k.step = "delete" /\ Goes(c, k, m)
        /\ rows' \subseteq rows /\ Grown
        /\ Resumes(k, m)
    BY <1>7 DEF DeletedOne, Grown, Resumes
  <2>2. Keyed(rows') /\ rows' \subseteq Entry /\ AuditFirst'
    BY <1>1, <2>1 DEF Keyed, AuditFirst, Inv
  <2>3. k.op = "rollback" /\ \A e \in k.seen : Audited(history', e)
    BY <1>1, <2>1 DEF Sound
  <2>4. Sound(history', m) /\ Intended(history', rows', m) /\ (m = Idle \/ m.alone = k.alone)
    BY <2>1, <2>3, ResumesSound
  <2>5. QED
    BY <2>1, <2>2, <2>4, GoesKeeps
<1>8. CASE RestoredOne(c, k, m)
  <2>1. history' = history /\ k.step = "restore" /\ Goes(c, k, m) /\ Grown
    BY <1>8 DEF RestoredOne, Grown
  <2>2. PICK e \in k.seen : rows' = Saved(rows, e) /\ Resumes(k, m)
    BY <1>8 DEF RestoredOne, Resumes
  <2>3. k.op = "rollback" /\ (\A x \in k.seen : Audited(history', x)) /\ e \in Entry
    BY <1>1, <2>1 DEF Sound, Call
  <2>4. Keyed(rows') /\ rows' \subseteq Entry
    BY <1>1, <2>2, <2>3, SavedKeyed DEF Saved, Inv
  <2>5. AuditFirst'
    <3>1. \A x \in rows : Audited(history', x)
      BY <2>1 DEF Inv, AuditFirst, Audited
    <3>2. \A x \in rows' : Audited(history', x)
      BY <2>2, <2>3, <3>1 DEF Saved
    <3>3. QED
      BY <3>2 DEF AuditFirst, Audited
  <2>6. Sound(history', m) /\ Intended(history', rows', m) /\ (m = Idle \/ m.alone = k.alone)
    BY <2>2, <2>3, ResumesSound
  <2>7. QED
    BY <2>1, <2>4, <2>5, <2>6, GoesKeeps
<1>9. CASE WriteFailed(c, k, m)
  <2>1. Goes(c, k, m) /\ StoreKept /\ k.step # "idle"
    BY <1>9 DEF WriteFailed
  <2>2. Sound(history, m) /\ Intended(history, rows, m) /\ (m = Idle \/ m.alone = k.alone)
    <3>1. CASE m = Idle
      BY <3>1, IdleSound
    <3>2. CASE k.op = "rollback" /\ Fails(k, m)
      <4>1. \A e \in k.seen : Audited(history, e)
        BY <1>1, <3>2 DEF Sound
      <4>2. QED
        BY <3>2, <4>1, ResumesSound DEF Resumes
    <3>3. QED
      BY <1>9, <3>1, <3>2 DEF WriteFailed
  <2>3. QED
    BY <2>1, <2>2, ReadsKeep
<1>10. QED
  BY <1>2, <1>3, <1>4, <1>5, <1>6, <1>7, <1>8, <1>9 DEF GoesOn

-----------------------------------------------------------------------------
(* A restart takes every call with it and leaves the store as it is.       *)

LEMMA RestartKeeps ==
  ASSUME Inv, Restart
  PROVE  Inv'
<1>1. /\ rows' = rows /\ history' = history /\ calm' \in BOOLEAN
      /\ served' \subseteq Defs /\ posture' \in PosturesOf(rows)
      /\ call' = [c \in Callers |-> Idle] /\ TypeOK
  BY DEF Restart, Inv, TypeOK
<1>2. posture' \in Values
  <2>1. \A e \in OfKind(rows, "setting") : e.val \in Values
    BY <1>1 DEF TypeOK, OfKind, Entry
  <2>2. QED
    BY <1>1, <2>1 DEF PosturesOf
<1>3. call' \in [Callers -> Call]
  BY <1>1, IdleIs
<1>4. TypeOK'
  BY <1>1, <1>2, <1>3 DEF TypeOK
<1>5. \A c \in Callers : call'[c] = Idle
  BY <1>1
<1>6. Lone'
  BY <1>5, IdleIs DEF Lone, Active
<1>7. AuditFirst' /\ Keyed(rows')
  BY <1>1 DEF Inv, AuditFirst
<1>8. QED
  BY <1>4, <1>5, <1>6, <1>7, IdleSound DEF Inv

LEMMA StartsWell ==
  ASSUME Init
  PROVE  Inv
<1>1. TypeOK
  BY IdleIs DEF Init, TypeOK
<1>2. \A c \in Callers : call[c] = Idle
  BY DEF Init
<1>3. Lone
  BY <1>2, IdleIs DEF Lone, Active
<1>4. rows = {}
  BY DEF Init
<1>5. QED
  BY <1>1, <1>2, <1>3, <1>4, IdleSound DEF Inv, AuditFirst, Keyed

LEMMA StepKeeps ==
  ASSUME Inv, [Next]_vars
  PROVE  Inv'
<1>1. CASE Restart
  BY <1>1, RestartKeeps
<1>2. ASSUME NEW c \in Callers, CallStep(c)
      PROVE  Inv'
  <2>1. Begun(c) \/ \E m : GoesOn(c, call[c], m)
    BY <1>2, CallSteps DEF Inv
  <2>2. QED
    BY <2>1, BegunKeeps, GoesOnKeeps
<1>3. CASE UNCHANGED vars
  BY <1>3 DEF vars, Inv, TypeOK, AuditFirst, Lone, Active
<1>4. QED
  BY <1>1, <1>2, <1>3 DEF Next

LEMMA AlwaysInv == Spec => []Inv
  BY StartsWell, StepKeeps, PTL DEF Spec

-----------------------------------------------------------------------------
(* The store, the history, the registry and the calls keep their types.    *)
THEOREM HistoryTypeCorrect == Spec => []TypeOK
<1>1. Inv => TypeOK
  BY DEF Inv
<1>2. QED
  BY <1>1, AlwaysInv, PTL

(***************************************************************************)
(* No row without an audit: whatever is stored is described by an overlay  *)
(* snapshot of the history, for any number of overlapping operations and   *)
(* rollbacks, failed writes and restarts.                                  *)
(***************************************************************************)
THEOREM AuditFirstCorrect == Spec => []AuditFirst
<1>1. Inv => AuditFirst
  BY DEF Inv
<1>2. QED
  BY <1>1, AlwaysInv, PTL

(* Writing the one row of a call leaves what its snapshot describes. *)
LEMMA SnapshotReached ==
  ASSUME NEW R, NEW k, NEW t, Keyed(R), NoTwins(R), Snapshot(R, k, t)
  PROVE  k.payload = IF k.op = "remove" THEN {x \in R : x.row # t.row} ELSE Saved(R, t)
<1>1. CASE k.op = "add" /\ NewRow(R, t) /\ k.payload = R \cup {t}
  <2>1. {x \in R : x.row # t.row} = R
    BY <1>1 DEF NewRow
  <2>2. QED
    BY <1>1, <2>1 DEF Saved
<1>2. CASE k.op = "change" /\ Replaces(R, t) /\ k.payload = Without(R, t.def) \cup {t}
  <2>1. Without(R, t.def) = {x \in R : x.row # t.row}
    <3>1. CASE Declaring(R, t.def) = {} /\ NewRow(R, t)
      BY <3>1 DEF Without, NewRow
    <3>2. CASE \E e \in Declaring(R, t.def) : e.row = t.row
      <4>1. PICK e \in R : e.def = t.def /\ e.row = t.row
        BY <3>2 DEF Declaring
      <4>2. \A x \in R : x.def = t.def <=> x.row = t.row
        BY <4>1 DEF NoTwins, Keyed
      <4>3. QED
        BY <4>2 DEF Without, Declaring
    <3>3. QED
      BY <1>2, <3>1, <3>2 DEF Replaces
  <2>2. QED
    BY <1>2, <2>1 DEF Saved
<1>3. CASE k.op = "remove" /\ t \in R /\ k.payload = Without(R, t.def)
  <2>1. \A x \in R : x.def = t.def <=> x.row = t.row
    BY <1>3 DEF NoTwins, Keyed
  <2>2. QED
    BY <1>3, <2>1 DEF Without, Declaring
<1>4. QED
  BY <1>1, <1>2, <1>3 DEF Snapshot

LEMMA SerialStep ==
  ASSUME Inv, [Next]_vars, NEW c \in Callers, call[c].step = "save", call[c].alone,
         rows' # rows, NoTwins(rows)
  PROVE  rows' = OverlayAt(history, Len(history))
<1>1. history \in Seq(HistoryEntry) /\ Keyed(rows) /\ Active(c)
  BY DEF Inv, TypeOK, Active
<1>2. PICK o \in Callers : CallStep(o)
  BY DEF Next, Restart, vars
<1>3. PICK m : GoesOn(o, call[o], m)
  <2>1. ~Begun(o)
    BY DEF Begun, StoreKept
  <2>2. QED
    BY <1>2, <2>1, CallSteps DEF Inv
<1> DEFINE k == call[o]
<1>4. SavedOne(o, k, m) \/ DeletedOne(o, k, m) \/ RestoredOne(o, k, m)
  BY <1>3 DEF GoesOn, OverlayRead, CurrentRead, VersionRead, Inserted, WriteFailed, StoreKept
<1>5. k.step # "idle"
  BY <1>4 DEF SavedOne, DeletedOne, RestoredOne
<1>6. o = c
  BY <1>1, <1>5 DEF Inv, Lone, Active
<1>7. SavedOne(o, k, m)
  BY <1>4, <1>6 DEF DeletedOne, RestoredOne
<1>8. k.op # "rollback"
  BY <1>6 DEF Inv, Sound
<1>9. PICK t \in Entry : k.todo = {t} /\ Snapshot(rows, k, t) /\ Latest(history, k.payload)
  BY <1>6, <1>8 DEF Inv, Intended
<1>10. rows' = IF k.op = "remove" THEN {x \in rows : x.row # t.row} ELSE Saved(rows, t)
  BY <1>7, <1>9 DEF SavedOne
<1>11. rows' = k.payload
  BY <1>1, <1>9, <1>10, SnapshotReached
<1>12. OverlayAt(history, Len(history)) = k.payload
  BY <1>1, <1>9, LastOverlay DEF Latest
<1>13. QED
  BY <1>11, <1>12

(***************************************************************************)
(* The history is the truth: a call that met no other one and wrote its    *)
(* row leaves stored exactly the overlay of the latest snapshot.           *)
(***************************************************************************)
THEOREM SerialCallCorrect == Spec => SerialCallRecorded
<1>1. Inv /\ [Next]_vars =>
        [\A c \in Callers :
           (call[c].step = "save" /\ call[c].alone /\ rows' # rows /\ NoTwins(rows))
             => rows' = OverlayAt(history, Len(history))]_vars
  BY SerialStep
<1>2. QED
  BY <1>1, AlwaysInv, PTL DEF Spec, SerialCallRecorded

=============================================================================
