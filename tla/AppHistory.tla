---------------------------- MODULE AppHistory ----------------------------
(***************************************************************************)
(* The definition overlay of an app and its history: the framework's own   *)
(* operations that add tables, columns, operations, views and policy rules *)
(* and change the policy, each of which appends the overlay it is about to *)
(* reach to app_history and then writes one row; the destructive rollback, *)
(* which appends a backup, deletes and rewrites rows one by one and then   *)
(* appends the target; and the loader that builds the served registry from *)
(* the stored rows when the runtime boots.                                 *)
(*                                                                         *)
(* A definition (a table id, a column key, a rule id...) is a member of    *)
(* Defs; an entry is a stored row of one of the six definition tables,     *)
(* with the id of the row, the definition it declares and a value, which   *)
(* stands for all other fields.  Every await of a handler ends a step, and *)
(* calls interleave at the ends of steps.  A restart may come at any time  *)
(* and takes the calls under way with it.                                  *)
(***************************************************************************)
EXTENDS Naturals, Sequences, FiniteSets

CONSTANTS
  Defs,        \* the definitions the overlay may hold
  Kind,        \* the definition table of each definition
  On,          \* what a column, an operation or a view is declared on
  Base,        \* the definitions AppConfig declares: always served
  Rows,        \* row ids
  Values,      \* what update_policy_rule and set_default_posture can change
  BaseValue,   \* the posture of AppConfig, and the one value of what has no other
  Callers,     \* the calls that may be under way together
  MaxHistory,  \* bound: no call begins with this many entries in the history,
  MaxOverlap   \* and none meets another one with this many

Kinds == {"table", "column", "operation", "view", "rule", "setting"}
PolicyKinds == {"rule", "setting"}

ASSUME ConstantsAssumption ==
  /\ Base = "AppConfig"
  /\ Kind \in [Defs -> Kinds]
  /\ On \in [Defs -> Defs \cup {Base}]
  /\ BaseValue \in Values
  /\ MaxHistory \in Nat
  /\ MaxOverlap \in Nat

(* Where a column or a view is declared: on a table, on an operation, of   *)
(* the overlay or of AppConfig, which is none of the definitions itself.   *)
ASSUME DeclaredOnAssumption ==
  /\ Base \notin Defs
  /\ \A d \in Defs : On[d] # Base =>
        /\ Kind[d] = "column" => Kind[On[d]] = "table"
        /\ Kind[d] = "view" => Kind[On[d]] = "operation"

VARIABLES
  rows,     \* the stored entries
  history,  \* app_history: the version of an entry is its index
  served,   \* the definitions of the registry, as of the last boot
  posture,  \* the default posture of the evaluator, as of the last boot
  call,     \* the framework operation each caller has under way
  calm      \* so far no calls overlapped, no rollback was cut short, and no
            \* call began while the registry served what a rollback removed

vars == <<rows, history, served, posture, call, calm>>

Entry == [row : Rows, def : Defs, val : Values]
HistoryEntry == [kind : {"overlay", "backup", "failed"}, overlay : SUBSET Entry]

(***************************************************************************)
(* step    where the handler is: "overlay" about to read the other         *)
(*         definition tables, "version" and "insert" inside                *)
(*         history.append, "save" about to write its one row, "delete" and *)
(*         "restore" inside the rollback's try block                       *)
(* op      what it was asked                                               *)
(* todo    the entries it is going to save or, for a deletion, to delete   *)
(* seen    the entries it read when it checked for duplicates, and in a    *)
(*         rollback those that are to be restored or rewritten             *)
(* kind, payload, version   the history entry it appends                   *)
(* target  the overlay a rollback returns to                               *)
(* alone   no other call was under way since it began                      *)
(***************************************************************************)
Steps == {"idle", "overlay", "current", "version", "insert", "save", "delete", "restore"}
Call == [step : Steps, op : {"add", "change", "remove", "rollback"},
         todo : SUBSET Entry, seen : SUBSET Entry,
         kind : {"overlay", "backup", "failed"}, payload : SUBSET Entry,
         version : Nat, target : SUBSET Entry, alone : BOOLEAN]

Idle == [step |-> "idle", op |-> "add", todo |-> {}, seen |-> {}, kind |-> "overlay",
         payload |-> {}, version |-> 0, target |-> {}, alone |-> FALSE]

TypeOK ==
  /\ rows \subseteq Entry
  /\ history \in Seq(HistoryEntry)
  /\ served \subseteq Defs
  /\ posture \in Values
  /\ call \in [Callers -> Call]
  /\ calm \in BOOLEAN

DefsOf(E) == {e.def : e \in E}
Declaring(E, d) == {e \in E : e.def = d}
OfKind(E, k) == {e \in E : Kind[e.def] = k}

(* What the rows mean, leaving out which row says it. *)
Content(E) == {<<e.def, e.val>> : e \in E}

Active(c) == call[c].step # "idle"

Fresh(r) ==
  /\ \A e \in rows : e.row # r
  /\ \A i \in 1 .. Len(history) : \A e \in history[i].overlay : e.row # r
  /\ \A c \in Callers : \A e \in call[c].todo : e.row # r

(***************************************************************************)
(* The loader: a column needs its table and a view its operation; what is  *)
(* stored for a table or an operation is registered as it is.  The posture *)
(* is that of a stored setting, else that of AppConfig.                    *)
(***************************************************************************)
ColumnLoads(E, d) == On[d] \in DefsOf(E) \cup {Base}
ViewLoads(E, d) == On[d] \in DefsOf(E) \cup {Base}
Loads(E, d) ==
  /\ d \in DefsOf(E)
  /\ Kind[d] = "column" => ColumnLoads(E, d)
  /\ Kind[d] = "view" => ViewLoads(E, d)

PosturesOf(E) ==
  LET settings == OfKind(E, "setting")
  IN  IF settings = {} THEN {BaseValue} ELSE {e.val : e \in settings}

Serving(d) == d = Base \/ d \in served

(* Nothing is served that is no longer stored, as it is after a rollback. *)
RegistryCurrent == served \subseteq DefsOf(rows)

(* The overlay of version v: the last overlay snapshot up to it. *)
OverlayAt(h, v) ==
  LET snapshots == {i \in 1 .. v : h[i].kind = "overlay"}
  IN  IF snapshots = {} THEN {}
      ELSE h[CHOOSE i \in snapshots : \A j \in snapshots : j <= i].overlay

-----------------------------------------------------------------------------
Init ==
  /\ rows = {}
  /\ history = <<>>
  /\ served = {}
  /\ posture = BaseValue
  /\ call = [c \in Callers |-> Idle]
  /\ calm = TRUE

(* A call begins: whoever is under way is no longer alone, and neither is it. *)
Begin(c, fields) ==
  LET overlaps == \E o \in Callers : Active(o)
  IN  /\ ~Active(c)
      /\ Len(history) < IF overlaps THEN MaxOverlap ELSE MaxHistory
      /\ call' = [o \in Callers |->
                    IF o = c THEN [fields EXCEPT !.alone = ~overlaps]
                    ELSE [call[o] EXCEPT !.alone = FALSE]]
      /\ calm' = (calm /\ ~overlaps /\ RegistryCurrent)
      /\ UNCHANGED <<rows, history, served, posture>>

(***************************************************************************)
(* The operations that add a definition ask the registry first, then read  *)
(* the definition's own table for a duplicate, and take a new row id.      *)
(***************************************************************************)
AddEntry(c, d, values) ==
  /\ d \notin DefsOf(rows)
  /\ \E r \in Rows, v \in values :
       /\ Fresh(r)
       /\ Begin(c, [Idle EXCEPT !.step = "overlay", !.op = "add",
                                !.todo = {[row |-> r, def |-> d, val |-> v]},
                                !.seen = OfKind(rows, Kind[d])])

AddTable(c, d) ==
  Kind[d] = "table" /\ d \notin served /\ AddEntry(c, d, {BaseValue})

AddTableColumn(c, d) ==
  Kind[d] = "column" /\ Serving(On[d]) /\ d \notin served /\ AddEntry(c, d, {BaseValue})

(* It does not ask whether an operation of that id is served. *)
AddOperation(c, d) ==
  Kind[d] = "operation" /\ Serving(On[d]) /\ AddEntry(c, d, {BaseValue})

AddView(c, d) ==
  Kind[d] = "view" /\ d \notin served /\ Serving(On[d]) /\ AddEntry(c, d, {BaseValue})

AddPolicyRule(c, d) == Kind[d] = "rule" /\ AddEntry(c, d, Values)

\* Mutant: the snapshot is of what was read, without the new entry.
ReadOverlayWithoutEntry(c) ==
  /\ call[c].step = "overlay"
  /\ call' = [call EXCEPT ![c].step = "version", ![c].payload = rows]
  /\ UNCHANGED <<rows, history, served, posture, calm>>

\* Mutant: the snapshot is of the entry's own table only.
ReadOverlayOwnTable(c) ==
  /\ call[c].step = "overlay"
  /\ call' = [call EXCEPT ![c].step = "version", ![c].payload = call[c].todo \cup call[c].seen]
  /\ UNCHANGED <<rows, history, served, posture, calm>>

(***************************************************************************)
(* The overlay the snapshot will describe.  add_table and add_table_column *)
(* use what they read of their own table at the duplicate check, the       *)
(* others read everything again.                                           *)
(***************************************************************************)
ReadOverlay(c) ==
  /\ call[c].step = "overlay"
  /\ LET kinds == {Kind[e.def] : e \in call[c].todo}
         kept  == {e \in rows : Kind[e.def] \notin kinds} \cup call[c].seen
     IN  call' = [call EXCEPT
            ![c].step = "version",
            ![c].payload = call[c].todo
                             \cup (IF kinds \subseteq {"table", "column"} THEN kept ELSE rows)]
  /\ UNCHANGED <<rows, history, served, posture, calm>>

(***************************************************************************)
(* update_policy_rule and delete_policy_rule take the whole overlay in one *)
(* read.  Of two rows of one rule they find either (the first by row id),  *)
(* and describe the overlay by rule, not by row.                           *)
(***************************************************************************)
UpdatePolicyRule(c, d) ==
  /\ Kind[d] = "rule"
  /\ \E e \in Declaring(rows, d) : \E v \in Values \ {e.val} :
       LET entry == [e EXCEPT !.val = v]
       IN  Begin(c, [Idle EXCEPT !.step = "version", !.op = "change", !.todo = {entry},
                       !.payload = (rows \ Declaring(rows, d)) \cup {entry}])

\* Mutant: the snapshot still has the rule.
DeletePolicyRuleUnrecorded(c, d) ==
  /\ Kind[d] = "rule"
  /\ \E e \in Declaring(rows, d) :
       Begin(c, [Idle EXCEPT !.step = "version", !.op = "remove", !.todo = {e}, !.payload = rows])

DeletePolicyRule(c, d) ==
  /\ Kind[d] = "rule"
  /\ \E e \in Declaring(rows, d) :
       Begin(c, [Idle EXCEPT !.step = "version", !.op = "remove", !.todo = {e},
                             !.payload = rows \ Declaring(rows, d)])

(* set_default_posture keeps the row of a stored setting, or takes a new one. *)
SetDefaultPosture(c, d) ==
  /\ Kind[d] = "setting"
  /\ \E v \in Values, r \in Rows :
       /\ \/ /\ Declaring(rows, d) = {}
             /\ v # posture
             /\ Fresh(r)
          \/ \E e \in Declaring(rows, d) : v # e.val /\ r = e.row
       /\ LET entry == [row |-> r, def |-> d, val |-> v]
          IN  Begin(c, [Idle EXCEPT !.step = "version", !.op = "change", !.todo = {entry},
                          !.payload = (rows \ Declaring(rows, d)) \cup {entry}])

-----------------------------------------------------------------------------
(* history.append reads the latest version ... *)
ReadVersion(c) ==
  /\ call[c].step = "version"
  /\ call' = [call EXCEPT ![c].step = "insert", ![c].version = Len(history) + 1]
  /\ UNCHANGED <<rows, history, served, posture, calm>>

Appending(c) ==
  history' = Append(history, [kind |-> call[c].kind, overlay |-> call[c].payload])

\* Mutant: the failure is appended with a kind the history does not know.
FailedRollbackUnknown(x) ==
  [x EXCEPT !.step = "version", !.kind = "rollback", !.payload = {}, !.todo = {}, !.seen = {}]

(* A failure inside the rollback's try block: the failure is to be recorded. *)
FailedRollback(x) ==
  [x EXCEPT !.step = "version", !.kind = "failed", !.payload = {}, !.todo = {}, !.seen = {}]

(* What the rollback does next: delete, then restore, then append the target. *)
Proceed(x) ==
  CASE x.todo # {} -> [x EXCEPT !.step = "delete"]
    [] x.todo = {} /\ x.seen # {} -> [x EXCEPT !.step = "restore"]
    [] OTHER -> [x EXCEPT !.step = "version", !.kind = "overlay", !.payload = x.target]

AfterAppend(x) ==
  CASE x.op # "rollback" -> [x EXCEPT !.step = "save"]
    [] x.op = "rollback" /\ x.kind = "backup" -> Proceed(x)
    [] OTHER -> Idle

(***************************************************************************)
(* ... and inserts the next one, unless another call took it in between:   *)
(* UNIQUE(app_id, version).  A rollback that loses the race for its target *)
(* snapshot records the failure, and everyone else ends with an error.     *)
(***************************************************************************)
Insert(c) ==
  /\ call[c].step = "insert"
  /\ IF call[c].version = Len(history) + 1
     THEN /\ Appending(c)
          /\ call' = [call EXCEPT ![c] = AfterAppend(@)]
     ELSE /\ UNCHANGED history
          /\ call' = [call EXCEPT ![c] =
                        IF @.op = "rollback" /\ @.kind = "overlay" THEN FailedRollback(@) ELSE Idle]
  /\ UNCHANGED <<rows, served, posture, calm>>

(* saveRow replaces by row id; deleteRow fails when the row is gone. *)
Saved(E, e) == {x \in E : x.row # e.row} \cup {e}

Save(c) ==
  /\ call[c].step = "save"
  /\ \E e \in call[c].todo :
       rows' = IF call[c].op = "remove" THEN {x \in rows : x.row # e.row} ELSE Saved(rows, e)
  /\ call' = [call EXCEPT ![c] = Idle]
  /\ UNCHANGED <<history, served, posture, calm>>

-----------------------------------------------------------------------------
(* One entry for each definition, as a Map built from the entries keeps. *)
OneEach(E) ==
  {F \in SUBSET E : DefsOf(F) = DefsOf(E) /\ Cardinality(F) = Cardinality(DefsOf(E))}

Removed(cur, tgt) == DefsOf(cur) \ DefsOf(tgt)
Restored(cur, tgt) == DefsOf(tgt) \ DefsOf(cur)

\* Mutant: settings are not compared.
UpdatedRulesOnly(cur, tgt) ==
  {e.def : e \in {x \in cur : /\ Kind[x.def] = "rule"
                              /\ \E y \in tgt : y.def = x.def /\ y.val # x.val}}

Updated(cur, tgt) ==
  {e.def : e \in {x \in cur : /\ Kind[x.def] \in PolicyKinds
                              /\ \E y \in tgt : y.def = x.def /\ y.val # x.val}}

(* Only rules and settings can be restored; anything else is refused. *)
Supported(cur, tgt) == \A d \in Restored(cur, tgt) : Kind[d] \in PolicyKinds

(* Columns of a removed table are not listed as removed, and go with the table. *)
GoesWithTable(removed, e) == Kind[e.def] = "column" /\ On[e.def] \in removed
Listed(removed, e) == e.def \in removed /\ ~GoesWithTable(removed, e)

\* Mutant: the columns of a removed table stay.
DoomedListed(removed, e) == Listed(removed, e)

Doomed(removed, e) == e.def \in removed \/ GoesWithTable(removed, e)

(***************************************************************************)
(* definition.rollback.execute to version v: the validation reads the      *)
(* overlay and the history and finds what is removed, updated and          *)
(* restored; `todo' holds entries that stand for what is removed, `seen'   *)
(* the target entries that are to be written.                              *)
(***************************************************************************)
Rollback(c, v) ==
  /\ v <= Len(history)
  /\ LET target == OverlayAt(history, v)
     IN  \E cur \in OneEach(rows), tgt \in OneEach(target) :
           /\ Supported(cur, tgt)
           /\ Begin(c, [Idle EXCEPT
                !.step = "current", !.op = "rollback", !.kind = "backup", !.target = target,
                !.todo = {e \in cur : Listed(Removed(cur, tgt), e)},
                !.seen = {e \in tgt : e.def \in Updated(cur, tgt) \cup Restored(cur, tgt)}])

(* The overlay is read once more: the rows to delete are taken from it. *)
ReadCurrent(c) ==
  /\ call[c].step = "current"
  /\ LET removed == DefsOf(call[c].todo)
     IN  call' = [call EXCEPT ![c].step = "version", ![c].payload = rows,
                              ![c].todo = {e \in rows : Doomed(removed, e)}]
  /\ UNCHANGED <<rows, history, served, posture, calm>>

(* Rows go table by table, in this order, and rules are written before settings. *)
Order == [k \in Kinds |->
            CASE k = "table" -> 1 [] k = "column" -> 2 [] k = "operation" -> 3
              [] k = "view" -> 4 [] k = "rule" -> 5 [] k = "setting" -> 6]
First(E) == {e \in E : \A o \in E : Order[Kind[e.def]] <= Order[Kind[o.def]]}

(* One entry less to delete, or to write. *)
Deleted(x, e) == [x EXCEPT !.todo = @ \ {e}]
Rewritten(x, e) == [x EXCEPT !.seen = @ \ {e}]

DeleteOne(c) ==
  /\ call[c].step = "delete"
  /\ \E e \in First(call[c].todo) :
       IF \E x \in rows : x.row = e.row
       THEN /\ rows' = {x \in rows : x.row # e.row}
            /\ call' = [call EXCEPT ![c] = Proceed(Deleted(@, e))]
       ELSE /\ call' = [call EXCEPT ![c] = FailedRollback(@)]
            /\ UNCHANGED rows
  /\ UNCHANGED <<history, served, posture, calm>>

RestoreOne(c) ==
  /\ call[c].step = "restore"
  /\ \E e \in First(call[c].seen) :
       /\ rows' = Saved(rows, e)
       /\ call' = [call EXCEPT ![c] = Proceed(Rewritten(@, e))]
  /\ UNCHANGED <<history, served, posture, calm>>

-----------------------------------------------------------------------------
(* A row cannot be written: a call ends, a rollback goes to its catch block. *)
WriteFails(c) ==
  /\ call[c].step \in {"save", "delete", "restore"}
  /\ call' = [call EXCEPT ![c] = IF @.op = "rollback" THEN FailedRollback(@) ELSE Idle]
  /\ calm' = (calm /\ call[c].op # "rollback")
  /\ UNCHANGED <<rows, history, served, posture>>

(* The runtime stops, perhaps in the middle of a call, and boots again. *)
Restart ==
  /\ call' = [c \in Callers |-> Idle]
  /\ served' = {d \in Defs : Loads(rows, d)}
  /\ posture' \in PosturesOf(rows)
  /\ calm' = (calm /\ \A c \in Callers : ~(Active(c) /\ call[c].op = "rollback"))
  /\ UNCHANGED <<rows, history>>

CallStep(c) ==
  \/ \E d \in Defs : \/ AddTable(c, d)
                    \/ AddTableColumn(c, d)
                    \/ AddOperation(c, d)
                    \/ AddView(c, d)
                    \/ AddPolicyRule(c, d)
                    \/ UpdatePolicyRule(c, d)
                    \/ DeletePolicyRule(c, d)
                    \/ SetDefaultPosture(c, d)
  \/ \E v \in 0 .. MaxHistory : Rollback(c, v)
  \/ ReadOverlay(c)
  \/ ReadCurrent(c)
  \/ ReadVersion(c)
  \/ Insert(c)
  \/ Save(c)
  \/ DeleteOne(c)
  \/ RestoreOne(c)
  \/ WriteFails(c)

Next == Restart \/ \E c \in Callers : CallStep(c)

Spec == Init /\ [][Next]_vars

-----------------------------------------------------------------------------
(***************************************************************************)
(* No row without an audit: whatever is stored, and whatever a call is     *)
(* about to store, is described by an overlay snapshot of the history,     *)
(* through every overlap, failure, restart and rollback.  It is why the    *)
(* handlers append first and write afterwards.                             *)
(***************************************************************************)
AuditFirst ==
  \A e \in rows : \E i \in 1 .. Len(history) :
     history[i].kind = "overlay" /\ e \in history[i].overlay

(* No definition is stored in two rows. *)
NoTwins(E) == \A e, x \in E : e.def = x.def => e = x

(***************************************************************************)
(* The history is the truth: a call that met no other call and wrote its   *)
(* row leaves stored exactly the overlay of the latest snapshot, which is  *)
(* its own, whatever failed or was cut short before it.                    *)
(***************************************************************************)
SerialCallRecorded ==
  [][\A c \in Callers :
        (call[c].step = "save" /\ call[c].alone /\ rows' # rows /\ NoTwins(rows))
          => rows' = OverlayAt(history, Len(history))]_vars

(* No definition has had two row ids in the history or in the store. *)
EverStored == rows \cup UNION {history[i].overlay : i \in 1 .. Len(history)}
OneRowEach == \A e, x \in EverStored : e.def = x.def => e.row = x.row

(***************************************************************************)
(* A rollback that met no other call and says it is done has reached its   *)
(* target: what is stored declares exactly what the target overlay         *)
(* declares, with its values - also when it finishes what an earlier       *)
(* rollback left half done.  It holds as long as no definition was deleted *)
(* and declared again under another row id.                                *)
(***************************************************************************)
RollbackReachesTarget ==
  [][\A c \in Callers :
        (/\ call[c].op = "rollback" /\ call[c].kind = "overlay" /\ call[c].step = "insert"
         /\ call[c].alone /\ history' # history /\ OneRowEach)
          => Content(rows) = Content(call[c].target)]_vars

(***************************************************************************)
(* Nothing comes or goes unrecorded: each write of a row leads to an       *)
(* overlay of the history, its call's snapshot or the target of the        *)
(* rollback.  It brings in nothing that this overlay lacks and takes out   *)
(* no definition that it has, whoever else writes, fails or rolls back in  *)
(* between.  For a rollback it takes again that no definition was deleted  *)
(* and declared again.                                                     *)
(***************************************************************************)
Recorded(T) == \E i \in 1 .. Len(history) : history[i].kind = "overlay" /\ history[i].overlay = T
LeadsTo(k) == IF k.op = "rollback" THEN k.target ELSE k.payload

WritesRecorded ==
  [][\A c \in Callers :
        (rows' # rows /\ call'[c] # call[c] /\ (call[c].op = "rollback" => OneRowEach)) =>
          LET T == LeadsTo(call[c])
          IN  /\ Recorded(T) \/ (call[c].op = "rollback" /\ T = {})
              /\ rows' \subseteq rows \cup T
              /\ DefsOf(rows) \cap DefsOf(T) \subseteq DefsOf(rows')]_vars

(***************************************************************************)
(* What is stored boots: a column's table and a view's operation are       *)
(* stored with it, so the loader skips neither.  It holds while calls come *)
(* one at a time, no rollback is under way or was cut short, and no call   *)
(* began on a registry from before a rollback.                             *)
(***************************************************************************)
OverlayLoads ==
  (calm /\ \A c \in Callers : Active(c) => call[c].op # "rollback")
    => \A d \in DefsOf(rows) : Loads(rows, d)
=============================================================================
