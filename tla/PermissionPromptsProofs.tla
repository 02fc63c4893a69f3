---------------------- MODULE PermissionPromptsProofs ----------------------
(***************************************************************************)
(* Theorems of PermissionPrompts, for any calls, any kinds of calls and    *)
(* change sets of any length: whose answer a call obeys, that its effects  *)
(* stay behind the gate of ApprovalGate, and that the Permission Center    *)
(* tells what happened, and tells it for good.                             *)
(***************************************************************************)
EXTENDS PermissionPrompts, TLAPS

USE ConstantsAssumption

-----------------------------------------------------------------------------
(***************************************************************************)
(* Ledgers.  The events of a prompt come in ranks, each of them at most    *)
(* once: that is why a ledger has at most four, and why an event that ends *)
(* a call is the only one of its kind.                                     *)
(***************************************************************************)
In(l, e) == \E i \in DOMAIN l : l[i] = e

Rank(e) == IF e = "requested" THEN 1
           ELSE IF e \in {"allowed", "denied"} THEN 2
           ELSE IF e = "authorized" THEN 3
           ELSE 4

Ordered(l) == \A i, j \in DOMAIN l : i < j => Rank(l[i]) < Rank(l[j])

Extends(l, m) == DOMAIN l \subseteq DOMAIN m /\ \A i \in DOMAIN l : m[i] = l[i]

LEMMA EmptyLedger ==
  <<>> \in Seq(Events) /\ Ordered(<<>>) /\ \A e : ~In(<<>>, e)
  BY DEF Ordered, In

LEMMA ExtendsItself ==
  ASSUME NEW l
  PROVE  Extends(l, l)
  BY DEF Extends

LEMMA AppendEvent ==
  ASSUME NEW l \in Seq(Events), NEW e \in Events
  PROVE  /\ Append(l, e) \in Seq(Events)
         /\ Extends(l, Append(l, e))
         /\ \A x : In(Append(l, e), x) <=> In(l, x) \/ x = e
         /\ (Ordered(l) /\ \A x : In(l, x) => Rank(x) < Rank(e)) => Ordered(Append(l, e))
<1> DEFINE m == Append(l, e)
<1>1. /\ m \in Seq(Events) /\ Len(m) = Len(l) + 1
      /\ \A i \in 1 .. Len(l) : m[i] = l[i]
      /\ m[Len(l) + 1] = e
      /\ Len(l) \in Nat /\ DOMAIN l = 1 .. Len(l) /\ DOMAIN m = 1 .. (Len(l) + 1)
  OBVIOUS
<1> HIDE DEF m
<1>2. Extends(l, m)
  BY <1>1 DEF Extends
<1>3. \A x : In(m, x) <=> In(l, x) \/ x = e
  BY <1>1 DEF In
<1>4. ASSUME Ordered(l), \A x : In(l, x) => Rank(x) < Rank(e)
      PROVE  Ordered(m)
  <2>1. SUFFICES ASSUME NEW i \in DOMAIN m, NEW j \in DOMAIN m, i < j
                 PROVE  Rank(m[i]) < Rank(m[j])
    BY DEF Ordered
  <2>2. CASE j \in DOMAIN l
    BY <1>1, <1>4, <2>1, <2>2 DEF Ordered
  <2>3. CASE j = Len(l) + 1
    <3>1. i \in DOMAIN l
      BY <1>1, <2>1, <2>3
    <3>2. In(l, l[i])
      BY <3>1 DEF In
    <3>3. QED
      BY <1>1, <1>4, <2>3, <3>1, <3>2
  <2>4. QED
    BY <1>1, <2>1, <2>2, <2>3
<1>5. QED
  BY <1>1, <1>2, <1>3, <1>4 DEF m

LEMMA Append2Event ==
  ASSUME NEW l \in Seq(Events), NEW e \in Events, NEW f \in Events
  PROVE  l \o <<e, f>> = Append(Append(l, e), f) /\ l \o <<e>> = Append(l, e) /\ l \o <<>> = l
  OBVIOUS

(* What a best-effort append may do to a ledger. *)
LEMMA RecordsOne ==
  ASSUME TypeOK, NEW c \in Calls, NEW e \in Events, Records(c, <<e>>)
  PROVE  \/ ledger' = [ledger EXCEPT ![c] = Append(@, e)] /\ lost' = lost
         \/ ledger' = ledger /\ lost' = lost \cup {c}
<1>1. PICK kept \in Kept(<<e>>) :
        /\ ledger' = [ledger EXCEPT ![c] = @ \o kept]
        /\ lost' = IF kept = <<e>> THEN lost ELSE lost \cup {c}
  BY DEF Records
<1>2. kept = <<e>> \/ kept = <<>>
  BY DEF Kept
<1>3. ledger[c] \in Seq(Events) /\ ledger \in [Calls -> Seq(Events)]
  BY DEF TypeOK
<1>4. CASE kept = <<e>>
  BY <1>1, <1>3, <1>4, Append2Event
<1>5. CASE kept = <<>>
  <2>1. [ledger EXCEPT ![c] = @ \o kept] = ledger
    BY <1>3, <1>5, Append2Event
  <2>2. kept # <<e>>
    BY <1>5
  <2>3. QED
    BY <1>1, <2>1, <2>2
<1>6. QED
  BY <1>2, <1>4, <1>5

LEMMA RecordsTwo ==
  ASSUME TypeOK, NEW c \in Calls, NEW e \in Events, NEW f \in Events, Records(c, <<e, f>>)
  PROVE  \/ ledger' = [ledger EXCEPT ![c] = Append(Append(@, e), f)] /\ lost' = lost
         \/ /\ lost' = lost \cup {c}
            /\ \/ ledger' = ledger
               \/ ledger' = [ledger EXCEPT ![c] = Append(@, e)]
               \/ ledger' = [ledger EXCEPT ![c] = Append(@, f)]
<1>1. PICK kept \in Kept(<<e, f>>) :
        /\ ledger' = [ledger EXCEPT ![c] = @ \o kept]
        /\ lost' = IF kept = <<e, f>> THEN lost ELSE lost \cup {c}
  BY DEF Records
<1>2. kept \in {<<e, f>>, <<>>, <<e>>, <<f>>}
  BY DEF Kept
<1>3. ledger[c] \in Seq(Events) /\ ledger \in [Calls -> Seq(Events)]
  BY DEF TypeOK
<1>4. CASE kept = <<e, f>>
  BY <1>1, <1>3, <1>4, Append2Event
<1>5. CASE kept = <<>>
  <2>1. [ledger EXCEPT ![c] = @ \o kept] = ledger
    BY <1>3, <1>5, Append2Event
  <2>2. kept # <<e, f>>
    BY <1>5
  <2>3. QED
    BY <1>1, <2>1, <2>2
<1>6. ASSUME NEW g \in {e, f}, kept = <<g>>
      PROVE  ledger' = [ledger EXCEPT ![c] = Append(@, g)] /\ lost' = lost \cup {c}
  <2>1. kept # <<e, f>>
    BY <1>6
  <2>2. QED
    BY <1>1, <1>3, <1>6, <2>1, Append2Event
<1>7. QED
  BY <1>2, <1>4, <1>5, <1>6

-----------------------------------------------------------------------------
(* What the Permission Center says, in terms of the events of a prompt.    *)

LEMMA ShortLedger ==
  ASSUME NEW l \in Seq(Events), Ordered(l)
  PROVE  Len(l) \in Nat /\ Len(l) <= 4 /\ DOMAIN l = 1 .. Len(l)
<1>1. Len(l) \in Nat /\ DOMAIN l = 1 .. Len(l)
  OBVIOUS
<1>2. SUFFICES ASSUME Len(l) > 4 PROVE FALSE
  BY <1>1
<1> DEFINE r(i) == Rank(l[i])
<1>3. \A i \in 1 .. 5 : r(i) \in 1 .. 4
  BY DEF Rank
<1>4. 1 \in DOMAIN l /\ 2 \in DOMAIN l /\ 3 \in DOMAIN l /\ 4 \in DOMAIN l /\ 5 \in DOMAIN l
  BY <1>1, <1>2
<1>5. r(1) < r(2) /\ r(2) < r(3) /\ r(3) < r(4) /\ r(4) < r(5)
  BY <1>4 DEF Ordered
<1>6. r(1) \in 1 .. 4 /\ r(2) \in 1 .. 4 /\ r(3) \in 1 .. 4 /\ r(4) \in 1 .. 4 /\ r(5) \in 1 .. 4
  BY <1>3
<1>7. QED
  <2> HIDE DEF r
  <2>1. QED
    BY <1>5, <1>6

LEMMA FirstAndLast ==
  ASSUME NEW S \in SUBSET (1 .. 4), S # {}
  PROVE  First(S) \in S /\ Last(S) \in S
<1>0. \A j \in S : j = 1 \/ j = 2 \/ j = 3 \/ j = 4
  OBVIOUS
<1>1. \E i \in S : \A j \in S : i <= j
  <2>1. CASE 1 \in S
    BY <1>0, <2>1
  <2>2. CASE 1 \notin S /\ 2 \in S
    BY <1>0, <2>2
  <2>3. CASE 1 \notin S /\ 2 \notin S /\ 3 \in S
    BY <1>0, <2>3
  <2>4. CASE S = {4}
    BY <1>0, <2>4
  <2>5. QED
    BY <1>0, <2>1, <2>2, <2>3, <2>4
<1>2. \E i \in S : \A j \in S : j <= i
  <2>1. CASE 4 \in S
    BY <1>0, <2>1
  <2>2. CASE 4 \notin S /\ 3 \in S
    BY <1>0, <2>2
  <2>3. CASE 4 \notin S /\ 3 \notin S /\ 2 \in S
    BY <1>0, <2>3
  <2>4. CASE S = {1}
    BY <1>0, <2>4
  <2>5. QED
    BY <1>0, <2>1, <2>2, <2>3, <2>4
<1>3. QED
  BY <1>1, <1>2 DEF First, Last

Ends == {"completed", "failed", "expired"}

(* The events that end a call: there is at most one, and the status is it. *)
LEMMA StatusIs ==
  ASSUME TypeOK, NEW c \in Calls, Ordered(ledger[c])
  PROVE  \/ /\ ledger[c] = <<>>
            /\ Status(c) = "none"
         \/ /\ Status(c) \in Ends
            /\ In(ledger[c], Status(c))
         \/ /\ \A e \in Ends : ~In(ledger[c], e)
            /\ Status(c) \in Events \ (Ends \cup {"requested"})
            /\ In(ledger[c], Status(c))
         \/ /\ Status(c) = "pending"
            /\ \A e : In(ledger[c], e) => e = "requested"
<1> DEFINE l == ledger[c]
<1>1. l \in Seq(Events)
  BY DEF TypeOK
<1>2. Len(l) \in Nat /\ Len(l) <= 4 /\ DOMAIN l = 1 .. Len(l) /\ \A i \in DOMAIN l : l[i] \in Events
  BY <1>1, ShortLedger
<1>3. Settling(c) \in SUBSET (1 .. 4) /\ Said(c) \in SUBSET (1 .. 4)
  BY <1>2 DEF Settling, Said
<1>4. CASE l = <<>>
  BY <1>4 DEF Status
<1>5. CASE l # <<>> /\ Settling(c) # {}
  <2>1. First(Settling(c)) \in Settling(c)
    BY <1>3, <1>5, FirstAndLast
  <2>2. Status(c) = l[First(Settling(c))]
    BY <1>5 DEF Status
  <2>3. QED
    BY <2>1, <2>2 DEF Settling, Final, Ends, In
<1>6. CASE l # <<>> /\ Settling(c) = {} /\ Said(c) # {}
  <2>1. Last(Said(c)) \in Said(c)
    BY <1>3, <1>6, FirstAndLast
  <2>2. Status(c) = l[Last(Said(c))]
    BY <1>6 DEF Status
  <2>3. \A e \in Ends : ~In(l, e)
    BY <1>6 DEF Settling, Final, Ends, In
  <2>4. Status(c) \in Events /\ Status(c) # "requested" /\ In(l, Status(c))
    BY <1>2, <2>1, <2>2 DEF Said, In
  <2>5. QED
    BY <2>3, <2>4
<1>7. CASE l # <<>> /\ Settling(c) = {} /\ Said(c) = {}
  BY <1>7 DEF Status, Said, In
<1>8. QED
  BY <1>4, <1>5, <1>6, <1>7

(* An end of a call stays its end. *)
LEMMA EndStays ==
  ASSUME TypeOK, TypeOK', NEW c \in Calls, Ordered(ledger[c]), Ordered(ledger[c])',
         Extends(ledger[c], ledger'[c]), Status(c) \in Ends
  PROVE  Status(c)' = Status(c)
<1>1. In(ledger[c], Status(c))
  BY StatusIs DEF Ends, Events
<1>2. PICK i \in DOMAIN ledger[c] : ledger[c][i] = Status(c)
  BY <1>1 DEF In
<1>3. i \in DOMAIN ledger'[c] /\ ledger'[c][i] = Status(c)
  BY <1>2 DEF Extends
<1>4. i \in Settling(c)'
  BY <1>3 DEF Settling, Final, Ends
<1>5. \A j \in Settling(c)' : j = i
  <2>1. TAKE j \in Settling(c)'
  <2>2. j \in DOMAIN ledger'[c] /\ Rank(ledger'[c][j]) = 4 /\ Rank(ledger'[c][i]) = 4
    BY <1>3, <2>1 DEF Settling, Final, Ends, Rank
  <2>3. DOMAIN ledger'[c] \subseteq Nat
    <3>1. ledger'[c] \in Seq(Events)
      BY DEF TypeOK
    <3>2. QED
      BY <3>1
  <2>4. ~(i < j) /\ ~(j < i)
    BY <1>3, <2>2 DEF Ordered
  <2>5. QED
    BY <1>3, <2>2, <2>3, <2>4
<1>6. Settling(c)' = {i}
  BY <1>4, <1>5
<1>7. First(Settling(c))' = i
  <2>1. i \in Nat
    BY <1>3, SMTT(30) DEF TypeOK
  <2>2. First({i}) = i
    BY <2>1 DEF First
  <2>3. QED
    BY <1>6, <2>2
<1>8. ledger'[c] # <<>>
  BY <1>3
<1>9. QED
  BY <1>3, <1>6, <1>7, <1>8 DEF Status

-----------------------------------------------------------------------------
(* What the steps do to a call and to its ledger.                          *)

LEMMA InEvents ==
  ASSUME TypeOK, NEW c \in Calls
  PROVE  \A e : In(ledger[c], e) => e \in Events
  BY DEF TypeOK, In

LEMMA GoesEffect ==
  ASSUME TypeOK, NEW c \in Calls, NEW s \in Steps, Goes(c, s)
  PROVE  /\ call' \in [Calls -> Call]
         /\ call'[c].step = s /\ call'[c].mode = call[c].mode /\ call'[c].done = call[c].done
         /\ \A d \in Calls : d # c => call'[d] = call[d]
<1> DEFINE k == [call[c] EXCEPT !.step = s]
<1>1. call[c] \in Call /\ call \in [Calls -> Call]
  BY DEF TypeOK
<1>2. k \in Call /\ k.step = s /\ k.mode = call[c].mode /\ k.done = call[c].done
  BY <1>1 DEF Call
<1>3. call' = [call EXCEPT ![c] = k]
  BY DEF Goes
<1>4. QED
  <2> HIDE DEF k
  <2>1. QED
    BY <1>1, <1>2, <1>3

(* What an append of the events E to the ledger of c leaves behind it. *)
Recorded(c, E) ==
  /\ ledger' \in [Calls -> Seq(Events)]
  /\ lost' \subseteq Calls
  /\ \A d \in Calls : d # c => ledger'[d] = ledger[d] /\ (d \in lost' <=> d \in lost)
  /\ Extends(ledger[c], ledger'[c])
  /\ \A x : In(ledger'[c], x) => In(ledger[c], x) \/ x \in E
  /\ \A x : In(ledger[c], x) => In(ledger'[c], x)
  /\ c \in lost => c \in lost'
  /\ c \notin lost' => \A x \in E : In(ledger'[c], x)
  /\ (Ordered(ledger[c]) /\ \A x : In(ledger[c], x) => \A e \in E : Rank(x) < Rank(e))
       => Ordered(ledger'[c])

LEMMA AppendRecorded ==
  ASSUME TypeOK, NEW c \in Calls, NEW e \in Events,
         ledger' = [ledger EXCEPT ![c] = Append(@, e)], lost' = lost
  PROVE  Recorded(c, {e})
<1>1. ledger[c] \in Seq(Events) /\ ledger \in [Calls -> Seq(Events)] /\ lost \subseteq Calls
  BY DEF TypeOK
<1> DEFINE l == ledger[c]
           m == Append(ledger[c], e)
<1>2. /\ m \in Seq(Events) /\ Extends(l, m)
      /\ \A x : In(m, x) <=> In(l, x) \/ x = e
      /\ (Ordered(l) /\ \A x : In(l, x) => Rank(x) < Rank(e)) => Ordered(m)
  BY <1>1, AppendEvent
<1>3. ledger' = [ledger EXCEPT ![c] = m]
  OBVIOUS
<1>4. ledger' \in [Calls -> Seq(Events)] /\ ledger'[c] = m
      /\ \A d \in Calls : d # c => ledger'[d] = ledger[d]
  <2> HIDE DEF m
  <2>1. QED
    BY <1>1, <1>2, <1>3
<1>5. QED
  <2> HIDE DEF m
  <2>1. QED
    BY <1>1, <1>2, <1>4 DEF Recorded

LEMMA RecordsRecorded ==
  ASSUME TypeOK, NEW c \in Calls, NEW e \in Events, Records(c, <<e>>)
  PROVE  Recorded(c, {e})
<1>1. CASE ledger' = [ledger EXCEPT ![c] = Append(@, e)] /\ lost' = lost
  BY <1>1, AppendRecorded
<1>2. CASE ledger' = ledger /\ lost' = lost \cup {c}
  BY <1>2, ExtendsItself DEF Recorded, TypeOK
<1>3. QED
  BY <1>1, <1>2, RecordsOne

LEMMA TwoRecorded ==
  ASSUME TypeOK, NEW c \in Calls, Records(c, <<"denied", "failed">>)
  PROVE  Recorded(c, {"denied", "failed"})
<1> DEFINE l == ledger[c]
           m == Append(l, "denied")
           n == Append(l, "failed")
           o == Append(m, "failed")
<1>0. "denied" \in Events /\ "failed" \in Events
  BY DEF Events
<1>1. l \in Seq(Events) /\ ledger \in [Calls -> Seq(Events)] /\ lost \subseteq Calls
  BY DEF TypeOK
<1>2. /\ m \in Seq(Events) /\ Extends(l, m)
      /\ \A x : In(m, x) <=> In(l, x) \/ x = "denied"
      /\ (Ordered(l) /\ \A x : In(l, x) => Rank(x) < Rank("denied")) => Ordered(m)
  BY <1>0, <1>1, AppendEvent
<1>3. /\ n \in Seq(Events) /\ Extends(l, n)
      /\ \A x : In(n, x) <=> In(l, x) \/ x = "failed"
      /\ (Ordered(l) /\ \A x : In(l, x) => Rank(x) < Rank("failed")) => Ordered(n)
  BY <1>0, <1>1, AppendEvent
<1>4. /\ o \in Seq(Events) /\ Extends(m, o)
      /\ \A x : In(o, x) <=> In(m, x) \/ x = "failed"
      /\ (Ordered(m) /\ \A x : In(m, x) => Rank(x) < Rank("failed")) => Ordered(o)
  BY <1>0, <1>2, AppendEvent
<1>5. Rank("denied") < Rank("failed")
  BY DEF Rank
<1>6. Extends(l, o)
  BY <1>2, <1>4 DEF Extends
<1>7. \/ ledger' = [ledger EXCEPT ![c] = o] /\ lost' = lost
      \/ /\ lost' = lost \cup {c}
         /\ \/ ledger' = ledger
            \/ ledger' = [ledger EXCEPT ![c] = m]
            \/ ledger' = [ledger EXCEPT ![c] = n]
  BY <1>0, RecordsTwo
<1> HIDE DEF l, m, n, o
<1>8. l = ledger[c]
  BY DEF l
<1>9. CASE ledger' = [ledger EXCEPT ![c] = o] /\ lost' = lost
  BY <1>1, <1>2, <1>4, <1>5, <1>6, <1>8, <1>9 DEF Recorded
<1>10. CASE lost' = lost \cup {c} /\ ledger' = ledger
  BY <1>1, <1>10, ExtendsItself DEF Recorded
<1>11. CASE lost' = lost \cup {c} /\ ledger' = [ledger EXCEPT ![c] = m]
  BY <1>1, <1>2, <1>8, <1>11 DEF Recorded
<1>12. CASE lost' = lost \cup {c} /\ ledger' = [ledger EXCEPT ![c] = n]
  BY <1>1, <1>3, <1>8, <1>12 DEF Recorded
<1>13. QED
  BY <1>7, <1>9, <1>10, <1>11, <1>12

LEMMA TerminalRecorded ==
  ASSUME TypeOK, NEW c \in Calls, NEW e \in Events, RecordsTerminal(c, e), c \notin terminal
  PROVE  Recorded(c, {e}) /\ terminal' = terminal \cup {c} /\ live' = live \ {c}
  BY RecordsRecorded DEF RecordsTerminal

-----------------------------------------------------------------------------
(***************************************************************************)
(* The invariant.  A slot points to a call that has no answer yet and      *)
(* waits, or to a deploy that failed as it asked; effects come after the   *)
(* answer; and the events of a call fit the step it has come to.           *)
(***************************************************************************)
Asleep == {"idle", "recording"}
Alive == {"allowed", "children", "applying", "deploying", "applied"}

Asked(c) ==
  /\ call[c].step \in Asleep =>
       /\ answer[c] = "none"
       /\ c \notin live \cup terminal
       /\ c \notin {changeSetSlot, deployPrompt, deployResolver}
  /\ c \in live => At(c, "waiting") /\ c \notin terminal
  /\ c \in terminal => call[c].step \in Ended \cup {"waiting"}
  /\ changeSetSlot = c => c \in live /\ answer[c] = "none"
  /\ deployPrompt = c => call[c].mode = "deploy"
  /\ deployResolver = c =>
       deployPrompt = c /\ call[c].step \in {"waiting", "failed"} /\ answer[c] = "none"
  /\ call[c].step \in {"recording", "children", "applying"} \/ c \in live \cup terminal
       => call[c].mode # "deploy"
  /\ At(c, "deploying") => call[c].mode = "deploy"

Effective(c) ==
  /\ call[c].step \in {"idle", "recording", "waiting", "allowed", "denied"} => call[c].done = 0
  /\ At(c, "applying") => call[c].done < Children
  /\ call[c].step \in Alive => answer[c] = "allow"

Told(c) ==
  /\ Ordered(ledger[c])
  /\ At(c, "idle") \/ call[c].mode = "deploy" => \A e : ~In(ledger[c], e)
  /\ At(c, "recording") \/ c \in live => \A e : In(ledger[c], e) => e = "requested"
  /\ In(ledger[c], "completed") => At(c, "applied") /\ call[c].done = Children
  /\ In(ledger[c], "failed") => call[c].step \in {"failed", "denied"}
  /\ In(ledger[c], "expired") => call[c].done = 0 /\ call[c].step \in {"denied", "gone", "waiting"}
  /\ In(ledger[c], "denied") => At(c, "denied") /\ answer[c] = "deny"
  /\ In(ledger[c], "allowed") =>
       answer[c] = "allow" /\ call[c].step \notin Asleep \cup {"waiting", "denied"}
  /\ In(ledger[c], "authorized") =>
       answer[c] = "allow" /\ call[c].step \notin Asleep \cup {"waiting", "allowed", "denied"}

Complete(c) ==
  c \notin lost /\ call[c].mode # "deploy" =>
    /\ call[c].done > 0 \/ call[c].step \in Alive => In(ledger[c], "allowed")
    /\ At(c, "applied") => In(ledger[c], "completed")

Good(c) == Asked(c) /\ Effective(c) /\ Told(c) /\ Complete(c)

Inv == TypeOK /\ \A c \in Calls : Good(c)

(* A call that a step leaves alone. *)
Same(d) ==
  /\ call'[d] = call[d] /\ ledger'[d] = ledger[d] /\ answer'[d] = answer[d]
  /\ d \in live' <=> d \in live
  /\ d \in terminal' <=> d \in terminal
  /\ d \in lost' <=> d \in lost
  /\ changeSetSlot' = d => changeSetSlot = d
  /\ deployPrompt' = d => deployPrompt = d
  /\ deployResolver' = d => deployResolver = d /\ deployPrompt' = deployPrompt

LEMMA SameStaysGood ==
  ASSUME NEW d \in Calls, Good(d), Same(d)
  PROVE  Good(d)'
<1>1. Asked(d)'
  BY DEF Good, Asked, Same, At
<1>2. Effective(d)' /\ Told(d)' /\ Complete(d)'
  BY DEF Good, Effective, Told, Complete, Same, At
<1>3. QED
  BY <1>1, <1>2 DEF Good

LEMMA InvInit == Init => Inv
<1> SUFFICES ASSUME Init PROVE Inv
  OBVIOUS
<1>1. TypeOK
  BY EmptyLedger DEF Init, TypeOK, Call, Steps, Events
<1>2. ASSUME NEW c \in Calls PROVE Good(c)
  BY EmptyLedger DEF Init, Good, Asked, Effective, Told, Complete, At, Asleep, Alive
<1>3. QED
  BY <1>1, <1>2 DEF Inv

-----------------------------------------------------------------------------
(* The invariant is kept, step by step.                                    *)

LEMMA RequestKeeps ==
  ASSUME Inv, NEW c \in Calls, NEW mode \in Modes, Request(c, mode)
  PROVE  Inv'
<1> USE DEF Inv
<1>1. Recorded(c, {"requested"})
  BY AppendRecorded DEF Request, Events
<1> DEFINE k == [call[c] EXCEPT !.step = "recording", !.mode = mode]
<1>2. /\ k \in Call /\ k.step = "recording" /\ k.mode = mode /\ k.mode # "deploy" /\ k.done = call[c].done
  <2>1. call[c] \in Call /\ mode \in {"wait", "defer"}
    BY DEF TypeOK, Request
  <2>2. k \in Call /\ k.step = "recording" /\ k.mode = mode /\ k.done = call[c].done
    BY <2>1 DEF Call, Steps
  <2>3. QED
    BY <2>1, <2>2
<1>3. call' = [call EXCEPT ![c] = k]
  BY DEF Request
<1> HIDE DEF k
<1>4. /\ call' \in [Calls -> Call] /\ call'[c] = k
      /\ \A d \in Calls : d # c => call'[d] = call[d]
  BY <1>2, <1>3 DEF TypeOK
<1>5. TypeOK'
  BY <1>1, <1>4 DEF Request, Recorded, TypeOK, slots
<1>6. ASSUME NEW d \in Calls, d # c PROVE Good(d)'
  <2>1. Same(d)
    BY <1>1, <1>4, <1>6 DEF Same, Request, Recorded, slots
  <2>2. QED
    BY <2>1, SameStaysGood
<1>7. Good(c)'
  <2>1. Good(c) /\ At(c, "idle")
    BY DEF Request
  <2>2. Asked(c)' /\ Effective(c)'
    BY <1>2, <1>4, <2>1 DEF Request, Good, Asked, Effective, At, Asleep, Alive, Ended, slots
  <2>3. Told(c)' /\ Complete(c)'
    BY <1>1, <1>2, <1>4, <2>1 DEF Request, Recorded, Good, Asked, Effective, Told, Complete, At, Asleep, Alive
  <2>4. QED
    BY <2>2, <2>3 DEF Good
<1>8. QED
  BY <1>5, <1>6, <1>7

LEMMA RequestFailsKeeps ==
  ASSUME Inv, NEW c \in Calls, RequestFails(c)
  PROVE  Inv'
<1> USE DEF Inv
<1>1. /\ call' \in [Calls -> Call]
      /\ call'[c].step = "failed" /\ call'[c].mode = call[c].mode /\ call'[c].done = call[c].done
      /\ \A d \in Calls : d # c => call'[d] = call[d]
  BY GoesEffect DEF RequestFails, Steps
<1>2. TypeOK'
  BY <1>1 DEF RequestFails, TypeOK, slots, record
<1>3. ASSUME NEW d \in Calls, d # c PROVE Good(d)'
  <2>1. Same(d)
    BY <1>1, <1>3 DEF Same, RequestFails, slots, record
  <2>2. QED
    BY <2>1, SameStaysGood
<1>4. Good(c)'
  <2>1. Good(c) /\ At(c, "idle")
    BY DEF RequestFails
  <2>2. Asked(c)' /\ Effective(c)'
    BY <1>1, <2>1 DEF RequestFails, Good, Asked, Effective, At, Asleep, Alive, Ended, slots
  <2>3. Told(c)' /\ Complete(c)'
    BY <1>1, <2>1 DEF RequestFails, Good, Effective, Told, Complete, At, Asleep, Alive, record
  <2>4. QED
    BY <2>2, <2>3 DEF Good
<1>5. QED
  BY <1>2, <1>3, <1>4

LEMMA PromptKeeps ==
  ASSUME Inv, NEW c \in Calls, Prompt(c)
  PROVE  Inv'
<1> USE DEF Inv
<1>1. /\ call' \in [Calls -> Call]
      /\ call'[c].step = "waiting" /\ call'[c].mode = call[c].mode /\ call'[c].done = call[c].done
      /\ \A d \in Calls : d # c => call'[d] = call[d]
  BY GoesEffect DEF Prompt, Steps
<1>2. TypeOK'
  BY <1>1 DEF Prompt, TypeOK, record
<1>3. ASSUME NEW d \in Calls, d # c PROVE Good(d)'
  <2>1. Same(d)
    BY <1>1, <1>3 DEF Same, Prompt, record
  <2>2. QED
    BY <2>1, SameStaysGood
<1>4. Good(c)'
  <2>1. Good(c) /\ At(c, "recording")
    BY DEF Prompt
  <2>2. Asked(c)' /\ Effective(c)'
    BY <1>1, <2>1 DEF Prompt, Good, Asked, Effective, At, Asleep, Alive, Ended
  <2>3. Told(c)' /\ Complete(c)'
    BY <1>1, <2>1 DEF Prompt, Good, Asked, Effective, Told, Complete, At, Asleep, Alive, record
  <2>4. QED
    BY <2>2, <2>3 DEF Good
<1>5. QED
  BY <1>2, <1>3, <1>4

LEMMA PromptFailsKeeps ==
  ASSUME Inv, NEW c \in Calls, PromptFails(c)
  PROVE  Inv'
<1> USE DEF Inv
<1>1. /\ call' \in [Calls -> Call]
      /\ call'[c].step = "failed" /\ call'[c].mode = call[c].mode /\ call'[c].done = call[c].done
      /\ \A d \in Calls : d # c => call'[d] = call[d]
  BY GoesEffect DEF PromptFails, Steps
<1>2. Good(c) /\ At(c, "recording") /\ c \notin terminal
  BY DEF PromptFails, Good, Asked, At, Asleep
<1>3. Recorded(c, {"failed"}) /\ terminal' = terminal \cup {c} /\ live' = live \ {c}
  BY <1>2, TerminalRecorded DEF PromptFails, Events
<1>4. TypeOK'
  BY <1>1, <1>3 DEF PromptFails, TypeOK, Recorded
<1>5. ASSUME NEW d \in Calls, d # c PROVE Good(d)'
  <2>1. Same(d)
    BY <1>1, <1>3, <1>5 DEF Same, PromptFails, Recorded
  <2>2. QED
    BY <2>1, SameStaysGood
<1>6. Good(c)'
  <2>1. Asked(c)' /\ Effective(c)'
    BY <1>1, <1>2, <1>3 DEF PromptFails, Good, Asked, Effective, At, Asleep, Alive, Ended
  <2>2. Told(c)' /\ Complete(c)'
    BY <1>1, <1>2, <1>3 DEF PromptFails, Recorded, Good, Asked, Effective, Told, Complete, At, Asleep, Alive, Rank
  <2>3. QED
    BY <2>1, <2>2 DEF Good
<1>7. QED
  BY <1>4, <1>5, <1>6

LEMMA SaysEffect ==
  ASSUME TypeOK, NEW c \in Calls, NEW d \in {"allow", "deny"}, Says(c, d)
  PROVE  /\ answer' \in [Calls -> {"none", "allow", "deny"}]
         /\ answer'[c] = IF answer[c] = "none" THEN d ELSE answer[c]
         /\ \A b \in Calls : b # c => answer'[b] = answer[b]
  BY DEF TypeOK, Says

LEMMA RespondKeeps ==
  ASSUME Inv, NEW c \in Calls, NEW d \in {"allow", "deny"}, Respond(c, d)
  PROVE  Inv'
<1> USE DEF Inv
<1>0. Answered(d) = IF d = "deny" THEN "denied" ELSE "allowed"
  BY DEF Answered
<1>1. /\ call' \in [Calls -> Call]
      /\ call'[c].step = Answered(d) /\ call'[c].mode = call[c].mode /\ call'[c].done = call[c].done
      /\ \A b \in Calls : b # c => call'[b] = call[b]
  BY <1>0, GoesEffect DEF Respond, Steps
<1>2. /\ answer' \in [Calls -> {"none", "allow", "deny"}]
      /\ answer'[c] = IF answer[c] = "none" THEN d ELSE answer[c]
      /\ \A b \in Calls : b # c => answer'[b] = answer[b]
  BY SaysEffect DEF Respond
<1>3. Good(c) /\ At(c, "waiting") /\ c \in live /\ answer[c] = "none" /\ c \notin terminal
  BY DEF Respond, Good, Asked
<1>4. \/ d = "allow" /\ Recorded(c, {"allowed"}) /\ terminal' = terminal
      \/ d = "deny" /\ Recorded(c, {"denied"}) /\ terminal' = terminal
      \/ d = "deny" /\ Recorded(c, {"denied", "failed"}) /\ terminal' = terminal \cup {c}
  <2>1. CASE d = "allow"
    BY <2>1, RecordsRecorded DEF Respond, Events
  <2>2. CASE d = "deny" /\ c \in deferred
    BY <2>2, TwoRecorded DEF Respond
  <2>3. CASE d = "deny" /\ c \notin deferred
    BY <2>3, RecordsRecorded DEF Respond, Events
  <2>4. QED
    BY <2>1, <2>2, <2>3
<1>5. /\ live' = live \ {c} /\ changeSetSlot' = None /\ deferred' = deferred \ {c}
      /\ UNCHANGED <<deployPrompt, deployResolver, writer, superseded>>
  BY DEF Respond
<1>6. TypeOK'
  BY <1>1, <1>2, <1>4, <1>5 DEF TypeOK, Recorded
<1>7. ASSUME NEW b \in Calls, b # c PROVE Good(b)'
  <2>1. Same(b)
    BY <1>1, <1>2, <1>4, <1>5, <1>7 DEF Same, Recorded
  <2>2. QED
    BY <2>1, SameStaysGood
<1>8. Good(c)'
  <2>1. Asked(c)' /\ Effective(c)'
    BY <1>0, <1>1, <1>2, <1>3, <1>4, <1>5 DEF Good, Asked, Effective, At, Asleep, Alive, Ended
  <2>2. Told(c)' /\ Complete(c)'
    <3>1. CASE d = "allow"
      BY <1>0, <1>1, <1>2, <1>3, <1>4, <1>5, <3>1
      DEF Recorded, Good, Asked, Effective, Told, Complete, At, Asleep, Alive, Rank
    <3>2. CASE d = "deny"
      <4>1. call'[c].step = "denied" /\ call'[c].mode # "deploy" /\ call'[c].done = 0
            /\ c \notin live' /\ answer'[c] = "deny"
        BY <1>0, <1>1, <1>2, <1>3, <1>5, <3>2 DEF Good, Asked, Effective, At
      <4>2. Ordered(ledger[c]) /\ \A x : In(ledger[c], x) => x = "requested"
        BY <1>3 DEF Good, Told
      <4>3. \A e \in {"denied", "failed"} : Rank("requested") < Rank(e)
        BY DEF Rank
      <4>4. Ordered(ledger'[c]) /\ \A x : In(ledger'[c], x) => x \in {"requested", "denied", "failed"}
        BY <1>4, <3>2, <4>2, <4>3 DEF Recorded
      <4>5. QED
        BY <4>1, <4>4 DEF Told, Complete, At, Asleep, Alive
    <3>3. QED
      BY <3>1, <3>2
  <2>3. QED
    BY <2>1, <2>2 DEF Good
<1>9. QED
  BY <1>6, <1>7, <1>8

LEMMA RespondTooLateKeeps ==
  ASSUME Inv, NEW c \in Calls, NEW d \in {"allow", "deny"}, RespondTooLate(c, d)
  PROVE  Inv'
<1> USE DEF Inv
<1>1. /\ answer' \in [Calls -> {"none", "allow", "deny"}]
      /\ answer'[c] = IF answer[c] = "none" THEN d ELSE answer[c]
      /\ \A b \in Calls : b # c => answer'[b] = answer[b]
  BY SaysEffect DEF RespondTooLate
<1>2. TypeOK'
  BY <1>1 DEF TypeOK, RespondTooLate, slots, record
<1>3. ASSUME NEW b \in Calls, b # c PROVE Good(b)'
  <2>1. Same(b)
    BY <1>1, <1>3 DEF Same, RespondTooLate, slots, record
  <2>2. QED
    BY <2>1, SameStaysGood
<1>4. Good(c)'
  <2>1. Good(c) /\ call[c].step \in {"waiting", "denied"} /\ answer[c] = "none"
        /\ changeSetSlot # c /\ deployPrompt # c
    BY DEF RespondTooLate, At
  <2>2. Asked(c)' /\ Effective(c)'
    BY <2>1 DEF RespondTooLate, Good, Asked, Effective, At, Asleep, Alive, slots
  <2>3. Told(c)' /\ Complete(c)'
    BY <2>1 DEF RespondTooLate, Good, Told, Complete, At, record
  <2>4. QED
    BY <2>2, <2>3 DEF Good
<1>5. QED
  BY <1>2, <1>3, <1>4

LEMMA TakesGateKeeps ==
  ASSUME Inv, NEW c \in Calls, NEW step \in {"waiting", "failed"}, TakesGate(c, step)
  PROVE  Inv'
<1> USE DEF Inv
<1> DEFINE k == [call[c] EXCEPT !.step = step, !.mode = "deploy"]
<1>1. k \in Call /\ k.step = step /\ k.mode = "deploy" /\ k.done = call[c].done
  <2>1. call[c] \in Call
    BY DEF TypeOK
  <2>2. QED
    BY <2>1 DEF Call, Steps
<1>2. call' = [call EXCEPT ![c] = k]
  BY DEF TakesGate
<1> HIDE DEF k
<1>3. /\ call' \in [Calls -> Call] /\ call'[c] = k
      /\ \A d \in Calls : d # c => call'[d] = call[d]
  BY <1>1, <1>2 DEF TypeOK
<1>4. TypeOK'
  BY <1>3 DEF TakesGate, TypeOK, record
<1>5. ASSUME NEW d \in Calls, d # c PROVE Good(d)'
  <2>1. Same(d)
    BY <1>3, <1>5 DEF Same, TakesGate, record
  <2>2. QED
    BY <2>1, SameStaysGood
<1>6. Good(c)'
  <2>1. Good(c) /\ At(c, "idle")
    BY DEF TakesGate
  <2>2. Asked(c)' /\ Effective(c)'
    BY <1>1, <1>3, <2>1 DEF TakesGate, Good, Asked, Effective, At, Asleep, Alive, Ended
  <2>3. Told(c)' /\ Complete(c)'
    BY <1>1, <1>3, <2>1 DEF TakesGate, Good, Asked, Told, Complete, At, Asleep, record
  <2>4. QED
    BY <2>2, <2>3 DEF Good
<1>7. QED
  BY <1>4, <1>5, <1>6

(* The deploy that has the resolver is answered, by its prompt or by the    *)
(* confirm tool: it goes on when it waits, and when it failed it stays so.  *)
LEMMA DeployAnsweredKeeps ==
  ASSUME Inv, NEW q \in Calls, deployResolver = q, NEW d \in {"allow", "deny"},
         Says(q, d), ResolveConfirm(d), deployPrompt' \in {None, deployPrompt},
         UNCHANGED <<changeSetSlot, live, deferred, terminal, writer, record, superseded>>
  PROVE  Inv'
<1> USE DEF Inv
<1> DEFINE k == IF At(q, "waiting") THEN [call[q] EXCEPT !.step = Answered(d)] ELSE call[q]
<1>1. /\ k \in Call /\ k.mode = call[q].mode /\ k.done = call[q].done
      /\ At(q, "waiting") => k.step = (IF d = "deny" THEN "denied" ELSE "allowed")
      /\ ~At(q, "waiting") => k.step = call[q].step
  <2>1. call[q] \in Call
    BY DEF TypeOK
  <2>2. QED
    BY <2>1 DEF Call, Steps, Answered
<1>2. call' = [c \in Calls |-> IF c = q THEN k ELSE call[c]] /\ deployResolver' = None
  BY DEF ResolveConfirm
<1> HIDE DEF k
<1>3. /\ call' \in [Calls -> Call] /\ call'[q] = k
      /\ \A b \in Calls : b # q => call'[b] = call[b]
  BY <1>1, <1>2 DEF TypeOK
<1>4. /\ answer' \in [Calls -> {"none", "allow", "deny"}]
      /\ answer'[q] = IF answer[q] = "none" THEN d ELSE answer[q]
      /\ \A b \in Calls : b # q => answer'[b] = answer[b]
  BY SaysEffect
<1>5. TypeOK'
  BY <1>2, <1>3, <1>4 DEF TypeOK, record
<1>6. ASSUME NEW b \in Calls, b # q PROVE Good(b)'
  <2>1. Same(b)
    BY <1>2, <1>3, <1>4, <1>6 DEF Same, record
  <2>2. QED
    BY <2>1, SameStaysGood
<1>7. Good(q)'
  <2>1. Good(q) /\ call[q].step \in {"waiting", "failed"} /\ answer[q] = "none"
        /\ call[q].mode = "deploy" /\ q \notin live \cup terminal /\ changeSetSlot # q
    BY DEF Good, Asked
  <2>2. Asked(q)' /\ Effective(q)'
    <3>1. /\ call'[q].step \in {"denied", "allowed", "failed"} /\ call'[q].mode = "deploy"
          /\ call'[q].done = call[q].done
          /\ call'[q].step = "allowed" => answer'[q] = "allow"
      BY <1>1, <1>3, <1>4, <2>1 DEF At
    <3>2. call'[q].step # "failed" => call[q].done = 0
      BY <1>1, <1>3, <2>1 DEF Good, Effective, At
    <3>3. q \notin live' \cup terminal' /\ changeSetSlot' # q /\ deployResolver' # q
      BY <1>2, <2>1
    <3>4. Asked(q)'
      BY <2>1, <3>1, <3>3 DEF Good, Asked, At, Asleep, Ended
    <3>5. Effective(q)'
      BY <3>1, <3>2 DEF Effective, At, Alive
    <3>6. QED
      BY <3>4, <3>5
  <2>3. Told(q)' /\ Complete(q)'
    BY <1>1, <1>3, <2>1 DEF Good, Asked, Told, Complete, At, Asleep, record
  <2>4. QED
    BY <2>2, <2>3 DEF Good
<1>8. QED
  BY <1>5, <1>6, <1>7

LEMMA ConfirmKeeps ==
  ASSUME Inv, NEW d \in {"allow", "deny"}, Confirm(d)
  PROVE  Inv'
<1>1. deployResolver \in Calls
  BY DEF Inv, TypeOK, Confirm
<1>2. QED
  BY <1>1, DeployAnsweredKeeps DEF Confirm

LEMMA RespondDeployKeeps ==
  ASSUME Inv, NEW c \in Calls, NEW d \in {"allow", "deny"}, RespondDeploy(c, d)
  PROVE  Inv'
<1> USE DEF Inv
<1>1. deployResolver = None \/ deployResolver = c
  BY DEF Good, Asked, TypeOK, RespondDeploy, IsDeployPrompt
<1>2. CASE deployResolver = c
  BY <1>2, DeployAnsweredKeeps DEF RespondDeploy
<1>3. CASE deployResolver = None
  <2>1. call' = call /\ deployResolver' = None
    BY <1>3 DEF RespondDeploy, ResolveConfirm, TypeOK
  <2>2. /\ answer' \in [Calls -> {"none", "allow", "deny"}]
        /\ answer'[c] = IF answer[c] = "none" THEN d ELSE answer[c]
        /\ \A b \in Calls : b # c => answer'[b] = answer[b]
    BY SaysEffect DEF RespondDeploy
  <2>3. TypeOK'
    BY <2>1, <2>2 DEF RespondDeploy, TypeOK, record
  <2>4. ASSUME NEW b \in Calls, b # c PROVE Good(b)'
    <3>1. Same(b)
      BY <2>1, <2>2, <2>4 DEF Same, RespondDeploy, record
    <3>2. QED
      BY <3>1, SameStaysGood
  <2>5. Good(c)'
    <3>1. Good(c) /\ call[c].mode = "deploy" /\ call[c].step \notin Asleep /\ c \notin live
          /\ changeSetSlot # c
      BY DEF RespondDeploy, IsDeployPrompt, Good, Asked
    <3>2. Asked(c)' /\ Effective(c)'
      BY <2>1, <2>2, <3>1 DEF RespondDeploy, Good, Asked, Effective, At, Asleep, Alive
    <3>3. Told(c)' /\ Complete(c)'
      BY <2>1, <2>2, <3>1 DEF RespondDeploy, Good, Told, Complete, At, record
    <3>4. QED
      BY <3>2, <3>3 DEF Good
  <2>6. QED
    BY <2>3, <2>4, <2>5
<1>4. QED
  BY <1>1, <1>2, <1>3

LEMMA SpawnDeployKeeps ==
  ASSUME Inv, NEW c \in Calls, SpawnDeploy(c)
  PROVE  Inv'
<1> USE DEF Inv
<1> DEFINE k == [call[c] EXCEPT !.step = "deploying", !.done = 1]
<1>1. k \in Call /\ k.step = "deploying" /\ k.mode = call[c].mode /\ k.done = 1
  <2>1. call[c] \in Call /\ 1 \in 0 .. Children
    BY DEF TypeOK
  <2>2. QED
    BY <2>1 DEF Call, Steps
<1>2. call' = [call EXCEPT ![c] = k]
  BY DEF SpawnDeploy
<1> HIDE DEF k
<1>3. /\ call' \in [Calls -> Call] /\ call'[c] = k
      /\ \A d \in Calls : d # c => call'[d] = call[d]
  BY <1>1, <1>2 DEF TypeOK
<1>4. TypeOK'
  BY <1>3 DEF SpawnDeploy, TypeOK, slots, record
<1>5. ASSUME NEW d \in Calls, d # c PROVE Good(d)'
  <2>1. Same(d)
    BY <1>3, <1>5 DEF Same, SpawnDeploy, slots, record
  <2>2. QED
    BY <2>1, SameStaysGood
<1>6. Good(c)'
  <2>1. Good(c) /\ At(c, "allowed") /\ call[c].mode = "deploy"
    BY DEF SpawnDeploy
  <2>2. Asked(c)' /\ Effective(c)'
    BY <1>1, <1>3, <2>1 DEF SpawnDeploy, Good, Asked, Effective, At, Asleep, Alive, Ended, slots
  <2>3. Told(c)' /\ Complete(c)'
    BY <1>1, <1>3, <2>1 DEF SpawnDeploy, Good, Asked, Told, Complete, At, Asleep, record
  <2>4. QED
    BY <2>2, <2>3 DEF Good
<1>7. QED
  BY <1>4, <1>5, <1>6

LEMMA SpawnDeployFailsKeeps ==
  ASSUME Inv, NEW c \in Calls, SpawnDeployFails(c)
  PROVE  Inv'
<1> USE DEF Inv
<1>1. /\ call' \in [Calls -> Call]
      /\ call'[c].step = "failed" /\ call'[c].mode = call[c].mode /\ call'[c].done = call[c].done
      /\ \A d \in Calls : d # c => call'[d] = call[d]
  BY GoesEffect DEF SpawnDeployFails, Steps
<1>2. TypeOK'
  BY <1>1 DEF SpawnDeployFails, TypeOK, slots, record
<1>3. ASSUME NEW d \in Calls, d # c PROVE Good(d)'
  <2>1. Same(d)
    BY <1>1, <1>3 DEF Same, SpawnDeployFails, slots, record
  <2>2. QED
    BY <2>1, SameStaysGood
<1>4. Good(c)'
  <2>1. Good(c) /\ At(c, "allowed") /\ call[c].mode = "deploy"
    BY DEF SpawnDeployFails
  <2>2. Asked(c)' /\ Effective(c)'
    BY <1>1, <2>1 DEF SpawnDeployFails, Good, Asked, Effective, At, Asleep, Alive, Ended, slots
  <2>3. Told(c)' /\ Complete(c)'
    BY <1>1, <2>1 DEF SpawnDeployFails, Good, Asked, Told, Complete, At, Asleep, Alive, record
  <2>4. QED
    BY <2>2, <2>3 DEF Good
<1>5. QED
  BY <1>2, <1>3, <1>4

LEMMA DeployEndsKeeps ==
  ASSUME Inv, NEW c \in Calls, DeployEnds(c)
  PROVE  Inv'
<1> USE DEF Inv
<1>0. PICK s \in {"applied", "failed"} : Goes(c, s)
  BY DEF DeployEnds
<1>1. /\ call' \in [Calls -> Call]
      /\ call'[c].step = s /\ call'[c].mode = call[c].mode /\ call'[c].done = call[c].done
      /\ \A d \in Calls : d # c => call'[d] = call[d]
  BY <1>0, GoesEffect DEF Steps
<1>2. TypeOK'
  BY <1>1 DEF DeployEnds, TypeOK, slots, record
<1>3. ASSUME NEW d \in Calls, d # c PROVE Good(d)'
  <2>1. Same(d)
    BY <1>1, <1>3 DEF Same, DeployEnds, slots, record
  <2>2. QED
    BY <2>1, SameStaysGood
<1>4. Good(c)'
  <2>1. Good(c) /\ At(c, "deploying")
    BY DEF DeployEnds
  <2>2. Asked(c)' /\ Effective(c)'
    BY <1>1, <2>1 DEF DeployEnds, Good, Asked, Effective, At, Asleep, Alive, Ended, slots
  <2>3. Told(c)' /\ Complete(c)'
    BY <1>1, <2>1 DEF DeployEnds, Good, Asked, Told, Complete, At, Asleep, Alive, record
  <2>4. QED
    BY <2>2, <2>3 DEF Good
<1>5. QED
  BY <1>2, <1>3, <1>4

LEMMA AuthorizeKeeps ==
  ASSUME Inv, NEW c \in Calls, Authorize(c)
  PROVE  Inv'
<1> USE DEF Inv
<1>1. /\ call' \in [Calls -> Call]
      /\ call'[c].step = "children" /\ call'[c].mode = call[c].mode /\ call'[c].done = call[c].done
      /\ \A d \in Calls : d # c => call'[d] = call[d]
  BY GoesEffect DEF Authorize, Steps
<1>2. Recorded(c, {"authorized"})
  BY RecordsRecorded DEF Authorize, Events
<1>3. TypeOK'
  BY <1>1, <1>2 DEF Authorize, TypeOK, Recorded, slots
<1>4. ASSUME NEW d \in Calls, d # c PROVE Good(d)'
  <2>1. Same(d)
    BY <1>1, <1>2, <1>4 DEF Same, Authorize, Recorded, slots
  <2>2. QED
    BY <2>1, SameStaysGood
<1>5. Good(c)'
  <2>1. Good(c) /\ At(c, "allowed") /\ call[c].mode # "deploy"
    BY DEF Authorize, MayExecute
  <2>2. Asked(c)' /\ Effective(c)'
    BY <1>1, <2>1 DEF Authorize, Good, Asked, Effective, At, Asleep, Alive, Ended, slots
  <2>3. \A x : In(ledger[c], x) => x \in {"requested", "allowed"}
    BY <2>1, InEvents DEF Good, Told, At, Events, Asleep
  <2>4. \A x : In(ledger[c], x) => Rank(x) < Rank("authorized")
    BY <2>3 DEF Rank
  <2>5. Ordered(ledger'[c]) /\ \A x : In(ledger'[c], x) => x \in {"requested", "allowed", "authorized"}
    BY <1>2, <2>1, <2>3, <2>4 DEF Recorded, Good, Told
  <2>6. answer'[c] = "allow"
    BY <2>1 DEF Authorize, Good, Effective, At, Alive
  <2>7. Told(c)'
    BY <1>1, <2>1, <2>5, <2>6 DEF Authorize, Told, At, Asleep, Good, Asked
  <2>8. Complete(c)'
    BY <1>1, <1>2, <2>1 DEF Recorded, Complete, Good, At, Alive
  <2>9. QED
    BY <2>2, <2>7, <2>8 DEF Good
<1>6. QED
  BY <1>3, <1>4, <1>5

LEMMA ChildAppliedKeeps ==
  ASSUME Inv, NEW c \in Calls, ChildApplied(c)
  PROVE  Inv'
<1> USE DEF Inv
<1> DEFINE k == [call[c] EXCEPT !.step = "children", !.done = @ + 1]
<1>0. Good(c) /\ At(c, "applying") /\ call[c].done < Children
  BY DEF ChildApplied, Good, Effective
<1>1. k \in Call /\ k.step = "children" /\ k.mode = call[c].mode /\ k.done = call[c].done + 1
  <2>1. call[c] \in Call /\ call[c].done + 1 \in 0 .. Children
    BY <1>0 DEF TypeOK, Call
  <2>2. QED
    BY <2>1 DEF Call, Steps
<1>2. call' = [call EXCEPT ![c] = k]
  BY DEF ChildApplied
<1> HIDE DEF k
<1>3. /\ call' \in [Calls -> Call] /\ call'[c] = k
      /\ \A d \in Calls : d # c => call'[d] = call[d]
  BY <1>1, <1>2 DEF TypeOK
<1>4. TypeOK'
  BY <1>3 DEF ChildApplied, TypeOK, slots, record
<1>5. ASSUME NEW d \in Calls, d # c PROVE Good(d)'
  <2>1. Same(d)
    BY <1>3, <1>5 DEF Same, ChildApplied, slots, record
  <2>2. QED
    BY <2>1, SameStaysGood
<1>6. Good(c)'
  <2>1. Asked(c)' /\ Effective(c)'
    BY <1>0, <1>1, <1>3 DEF ChildApplied, Good, Asked, Effective, At, Asleep, Alive, Ended, slots
  <2>2. Told(c)' /\ Complete(c)'
    BY <1>0, <1>1, <1>3 DEF ChildApplied, Good, Asked, Told, Complete, At, Asleep, Alive, record
  <2>3. QED
    BY <2>1, <2>2 DEF Good
<1>7. QED
  BY <1>4, <1>5, <1>6

(* The execution of a change set ends, and the ledger is told. *)
LEMMA SetEndsKeeps ==
  ASSUME Inv, NEW c \in Calls, call[c].step \in {"children", "applying"},
         NEW s \in {"applied", "failed"}, NEW e \in {"completed", "failed"},
         s = "applied" => call[c].done = Children,
         s = "applied" <=> e = "completed",
         Goes(c, s), RecordsTerminal(c, e), writer' \in {None, Other, writer},
         UNCHANGED <<slots, deferred, answer, superseded>>
  PROVE  Inv'
<1> USE DEF Inv
<1>1. /\ call' \in [Calls -> Call]
      /\ call'[c].step = s /\ call'[c].mode = call[c].mode /\ call'[c].done = call[c].done
      /\ \A d \in Calls : d # c => call'[d] = call[d]
  BY GoesEffect DEF Steps
<1>2. Good(c) /\ c \notin terminal /\ c \notin live /\ call[c].mode # "deploy"
  BY DEF Good, Asked, At, Ended
<1>3. Recorded(c, {e}) /\ terminal' = terminal \cup {c} /\ live' = live \ {c}
  BY <1>2, TerminalRecorded DEF Events
<1>4. TypeOK'
  BY <1>1, <1>3 DEF TypeOK, Recorded, slots
<1>5. ASSUME NEW d \in Calls, d # c PROVE Good(d)'
  <2>1. Same(d)
    BY <1>1, <1>3, <1>5 DEF Same, Recorded, slots
  <2>2. QED
    BY <2>1, SameStaysGood
<1>6. Good(c)'
  <2>1. Asked(c)' /\ Effective(c)'
    BY <1>1, <1>2, <1>3 DEF Good, Asked, Effective, At, Asleep, Alive, Ended, slots
  <2>2. \A x : In(ledger[c], x) => x \in {"requested", "allowed", "authorized"}
    BY <1>2, InEvents DEF Good, Told, At, Events
  <2>3. \A x : In(ledger[c], x) => Rank(x) < Rank(e)
    BY <2>2 DEF Rank
  <2>4. /\ Ordered(ledger'[c])
        /\ \A x : In(ledger'[c], x) => x \in {"requested", "allowed", "authorized", e}
    BY <1>2, <1>3, <2>2, <2>3 DEF Recorded, Good, Told
  <2>5. answer'[c] = "allow"
    BY <1>2 DEF Good, Effective, Alive
  <2>6. Told(c)'
    <3>1. CASE s = "applied" /\ e = "completed"
      BY <1>1, <1>2, <1>3, <2>4, <2>5, <3>1 DEF Told, At, Asleep
    <3>2. CASE s = "failed" /\ e = "failed"
      BY <1>1, <1>2, <1>3, <2>4, <2>5, <3>2 DEF Told, At, Asleep
    <3>3. QED
      BY <3>1, <3>2
  <2>7. Complete(c)'
    BY <1>1, <1>2, <1>3 DEF Recorded, Complete, Good, At, Alive
  <2>8. QED
    BY <2>1, <2>6, <2>7 DEF Good
<1>7. QED
  BY <1>4, <1>5, <1>6

LEMMA ChildFailsKeeps ==
  ASSUME Inv, NEW c \in Calls, ChildFails(c)
  PROVE  Inv'
  BY SetEndsKeeps DEF ChildFails, At

LEMMA CompletesKeeps ==
  ASSUME Inv, NEW c \in Calls, Completes(c)
  PROVE  Inv'
<1>1. call[c].done = Children
  BY DEF Inv, TypeOK, Call, Completes, Remaining
<1>2. QED
  BY <1>1, SetEndsKeeps DEF Completes, At

(* A step of a call that leaves all but itself and the writer alone. *)
LEMMA QuietKeeps ==
  ASSUME Inv, NEW c \in Calls, NEW s \in Steps,
         \/ At(c, "children") /\ call[c].done < Children /\ s = "applying"
         \/ At(c, "children") /\ s = "failed",
         Goes(c, s), writer' \in Calls \cup {None, Other},
         UNCHANGED <<slots, live, deferred, terminal, record, answer, superseded>>
  PROVE  Inv'
<1> USE DEF Inv
<1>1. /\ call' \in [Calls -> Call]
      /\ call'[c].step = s /\ call'[c].mode = call[c].mode /\ call'[c].done = call[c].done
      /\ \A d \in Calls : d # c => call'[d] = call[d]
  BY GoesEffect
<1>2. TypeOK'
  BY <1>1 DEF TypeOK, slots, record
<1>3. ASSUME NEW d \in Calls, d # c PROVE Good(d)'
  <2>1. Same(d)
    BY <1>1, <1>3 DEF Same, slots, record
  <2>2. QED
    BY <2>1, SameStaysGood
<1>4. Good(c)'
  <2>1. Asked(c)' /\ Effective(c)'
    BY <1>1 DEF Good, Asked, Effective, At, Asleep, Alive, Ended, slots
  <2>2. Told(c)' /\ Complete(c)'
    BY <1>1 DEF Good, Asked, Told, Complete, At, Asleep, Alive, record
  <2>3. QED
    BY <2>1, <2>2 DEF Good
<1>5. QED
  BY <1>2, <1>3, <1>4

LEMMA BeginChildKeeps ==
  ASSUME Inv, NEW c \in Calls, BeginChild(c)
  PROVE  Inv'
<1>1. CASE writer' = c /\ Goes(c, "applying") /\ UNCHANGED <<record, terminal, live>>
  <2>1. At(c, "children") /\ call[c].done < Children
    BY DEF BeginChild, Remaining
  <2>2. UNCHANGED <<slots, live, deferred, terminal, record, answer, superseded>>
    BY <1>1 DEF BeginChild
  <2>3. QED
    BY <1>1, <2>1, <2>2, QuietKeeps DEF Steps
<1>2. CASE Goes(c, "failed") /\ RecordsTerminal(c, "failed") /\ UNCHANGED writer
  BY <1>2, SetEndsKeeps DEF BeginChild, At
<1>3. QED
  BY <1>1, <1>2 DEF BeginChild

LEMMA FinalReadFailsKeeps ==
  ASSUME Inv, NEW c \in Calls, FinalReadFails(c)
  PROVE  Inv'
<1>1. CASE call[c].mode = "defer"
  BY <1>1, SetEndsKeeps DEF FinalReadFails, At
<1>2. CASE call[c].mode # "defer"
  <2>1. At(c, "children") /\ Goes(c, "failed") /\ writer' = writer
        /\ UNCHANGED <<slots, live, deferred, terminal, record, answer, superseded>>
    BY <1>2 DEF FinalReadFails
  <2>2. writer \in Calls \cup {None, Other}
    BY DEF Inv, TypeOK
  <2>3. QED
    BY <2>1, <2>2, QuietKeeps DEF Steps
<1>3. QED
  BY <1>1, <1>2

LEMMA OtherMutationKeeps ==
  ASSUME Inv, OtherMutation
  PROVE  Inv'
<1>1. TypeOK'
  BY DEF Inv, TypeOK, OtherMutation, slots, record
<1>2. ASSUME NEW d \in Calls PROVE Good(d)'
  <2>1. Same(d)
    BY DEF Same, OtherMutation, slots, record
  <2>2. QED
    BY <2>1, SameStaysGood DEF Inv
<1>3. QED
  BY <1>1, <1>2 DEF Inv

LEMMA CloseKeeps ==
  ASSUME Inv, Close
  PROVE  Inv'
<1> USE DEF Inv
<1>1. PICK missed \in SUBSET (live \ terminal) :
        /\ ledger' = [c \in Calls |-> IF c \in live \ (terminal \cup missed)
                                      THEN Append(ledger[c], "expired") ELSE ledger[c]]
        /\ lost' = lost \cup missed
  BY DEF Close
<1>2. /\ terminal' = terminal \cup live /\ live' = {} /\ changeSetSlot' = None
      /\ deferred' = deferred \ Refused
      /\ UNCHANGED <<deployPrompt, deployResolver, writer, answer, superseded>>
  BY DEF Close, Good, Asked, Refused, TypeOK
<1>3. /\ call' \in [Calls -> Call]
      /\ \A c \in Calls : /\ call'[c].mode = call[c].mode /\ call'[c].done = call[c].done
                          /\ c \notin live => call'[c] = call[c]
                          /\ c \in live => call'[c].step \in {"waiting", "denied"}
  <2> DEFINE k(c) == [call[c] EXCEPT !.step = "denied"]
  <2>1. ASSUME NEW c \in Calls
        PROVE  k(c) \in Call /\ k(c).step = "denied" /\ k(c).mode = call[c].mode
               /\ k(c).done = call[c].done /\ call[c] \in Call
    <3>1. call[c] \in Call
      BY DEF TypeOK
    <3>2. QED
      BY <3>1 DEF Call, Steps
  <2>2. call' = [c \in Calls |-> IF c \in Refused THEN k(c) ELSE call[c]]
    BY DEF Close
  <2>3. Refused \subseteq live
    BY DEF Refused
  <2>4. \A c \in live : At(c, "waiting")
    BY DEF Good, Asked, TypeOK
  <2> HIDE DEF k
  <2>5. QED
    BY <2>1, <2>2, <2>3, <2>4 DEF At
<1>4. /\ ledger' \in [Calls -> Seq(Events)]
      /\ \A c \in Calls :
           \/ ledger'[c] = ledger[c] /\ (c \notin live \/ c \in lost')
           \/ /\ c \in live /\ Extends(ledger[c], ledger'[c])
              /\ \A x : In(ledger'[c], x) <=> In(ledger[c], x) \/ x = "expired"
              /\ (Ordered(ledger[c]) /\ \A x : In(ledger[c], x) => Rank(x) < Rank("expired"))
                   => Ordered(ledger'[c])
  <2> DEFINE m(c) == Append(ledger[c], "expired")
  <2>1. \A c \in Calls : ledger[c] \in Seq(Events)
    BY DEF TypeOK
  <2>2. ASSUME NEW c \in Calls
        PROVE  /\ m(c) \in Seq(Events) /\ Extends(ledger[c], m(c))
               /\ \A x : In(m(c), x) <=> In(ledger[c], x) \/ x = "expired"
               /\ (Ordered(ledger[c]) /\ \A x : In(ledger[c], x) => Rank(x) < Rank("expired"))
                    => Ordered(m(c))
    BY <2>1, AppendEvent DEF Events
  <2>3. ledger' = [c \in Calls |-> IF c \in live \ (terminal \cup missed) THEN m(c) ELSE ledger[c]]
    BY <1>1
  <2>4. \A c \in live : c \notin terminal
    BY DEF Good, Asked, TypeOK
  <2> HIDE DEF m
  <2>5. ledger' \in [Calls -> Seq(Events)]
    BY <2>1, <2>2, <2>3
  <2>6. ASSUME NEW c \in Calls
        PROVE  \/ ledger'[c] = ledger[c] /\ (c \notin live \/ c \in lost')
               \/ c \in live /\ ledger'[c] = m(c)
    BY <1>1, <2>3, <2>4
  <2>7. QED
    BY <2>2, <2>5, <2>6
<1>5. TypeOK'
  BY <1>1, <1>2, <1>3, <1>4 DEF TypeOK
<1>6. ASSUME NEW c \in Calls PROVE Good(c)'
  <2>1. CASE c \notin live
    <3>1. c \notin missed
      BY <1>1, <2>1
    <3>2. Same(c)
      BY <1>1, <1>2, <1>3, <1>4, <2>1, <3>1 DEF Same
    <3>3. QED
      BY <3>2, SameStaysGood
  <2>2. CASE c \in live
    <3>1. Good(c) /\ At(c, "waiting") /\ call[c].mode # "deploy" /\ c \notin terminal /\ call[c].done = 0
          /\ \A x : In(ledger[c], x) => x = "requested"
      BY <2>2 DEF Good, Asked, Told, Effective, At
    <3>2. Asked(c)' /\ Effective(c)'
      BY <1>2, <1>3, <2>2, <3>1 DEF Good, Asked, Effective, At, Asleep, Alive, Ended
    <3>3. Rank("requested") < Rank("expired")
      BY DEF Rank
    <3>4. Ordered(ledger'[c]) /\ \A x : In(ledger'[c], x) => x \in {"requested", "expired"}
      BY <1>4, <2>2, <3>1, <3>3 DEF Good, Told
    <3>5. Told(c)'
      BY <1>2, <1>3, <2>2, <3>1, <3>4 DEF Told, At, Asleep
    <3>6. Complete(c)'
      BY <1>3, <2>2, <3>1 DEF Complete, At, Alive
    <3>7. QED
      BY <3>2, <3>5, <3>6 DEF Good
  <2>3. QED
    BY <2>1, <2>2
<1>7. QED
  BY <1>5, <1>6

LEMMA CrashKeeps ==
  ASSUME Inv, Crash
  PROVE  Inv'
<1> USE DEF Inv
<1>1. /\ changeSetSlot' = None /\ deployPrompt' = None /\ deployResolver' = None
      /\ live' = {} /\ deferred' = {} /\ terminal' = {} /\ writer' = None
      /\ ledger' = ledger /\ lost' = lost /\ answer' = answer /\ superseded' = superseded
  BY DEF Crash, record
<1>2. /\ call' \in [Calls -> Call]
      /\ \A c \in Calls : /\ call'[c].mode = call[c].mode /\ call'[c].done = call[c].done
                          /\ At(c, "idle") \/ call[c].step \in Ended => call'[c] = call[c]
                          /\ ~At(c, "idle") /\ call[c].step \notin Ended => call'[c].step = "gone"
  <2> DEFINE k(c) == [call[c] EXCEPT !.step = "gone"]
  <2>1. ASSUME NEW c \in Calls
        PROVE  k(c) \in Call /\ k(c).step = "gone" /\ k(c).mode = call[c].mode
               /\ k(c).done = call[c].done /\ call[c] \in Call
    <3>1. call[c] \in Call
      BY DEF TypeOK
    <3>2. QED
      BY <3>1 DEF Call, Steps
  <2>2. call' = [c \in Calls |-> IF At(c, "idle") \/ call[c].step \in Ended THEN call[c] ELSE k(c)]
    BY DEF Crash
  <2> HIDE DEF k
  <2>3. QED
    BY <2>1, <2>2
<1>3. TypeOK'
  BY <1>1, <1>2 DEF TypeOK
<1>4. ASSUME NEW c \in Calls PROVE Good(c)'
  <2>1. Good(c)
    OBVIOUS
  <2>2. Asked(c)' /\ Effective(c)'
    BY <1>1, <1>2, <2>1 DEF Good, Asked, Effective, At, Asleep, Alive, Ended
  <2>3. Told(c)'
    BY <1>1, <1>2, <2>1 DEF Good, Told, At, Asleep, Ended
  <2>4. Complete(c)'
    BY <1>1, <1>2, <2>1 DEF Good, Complete, At, Alive, Ended
  <2>5. QED
    BY <2>2, <2>3, <2>4 DEF Good
<1>5. QED
  BY <1>3, <1>4

LEMMA InvStep == Inv /\ [Next]_vars => Inv'
<1> SUFFICES ASSUME Inv, [Next]_vars PROVE Inv'
  OBVIOUS
<1>1. ASSUME NEW c \in Calls, Begins(c) PROVE Inv'
  BY <1>1, RequestKeeps, RequestFailsKeeps, TakesGateKeeps DEF Begins, StartDeploy, StartDeployFails
<1>2. ASSUME NEW c \in Calls, CallStep(c) PROVE Inv'
  BY <1>2, PromptKeeps, PromptFailsKeeps, AuthorizeKeeps, BeginChildKeeps, ChildAppliedKeeps,
     ChildFailsKeeps, CompletesKeeps, FinalReadFailsKeeps, SpawnDeployKeeps,
     SpawnDeployFailsKeeps, DeployEndsKeeps
  DEF CallStep
<1>3. ASSUME NEW c \in Calls, Answers(c) PROVE Inv'
  BY <1>3, RespondKeeps, RespondDeployKeeps DEF Answers
<1>4. ASSUME UNCHANGED vars PROVE Inv'
  <2>1. TypeOK'
    BY <1>4 DEF Inv, TypeOK, vars
  <2>2. ASSUME NEW d \in Calls PROVE Good(d)'
    <3>1. Same(d)
      BY <1>4 DEF Same, vars
    <3>2. QED
      BY <3>1, SameStaysGood DEF Inv
  <2>3. QED
    BY <2>1, <2>2 DEF Inv
<1>5. QED
  BY <1>1, <1>2, <1>3, <1>4, RespondTooLateKeeps, ConfirmKeeps, OtherMutationKeeps, CloseKeeps,
     CrashKeeps DEF Next

LEMMA InvHolds == Spec => []Inv
  BY InvInit, InvStep, PTL DEF Spec

-----------------------------------------------------------------------------
(***************************************************************************)
(* Typing: a change set counts no more changes than it has.                *)
(***************************************************************************)
THEOREM PromptsTypeCorrect == Spec => []TypeOK
<1>1. Inv => TypeOK
  BY DEF Inv
<1>2. QED
  BY <1>1, InvHolds, PTL

(***************************************************************************)
(* Whatever prompts take each other's slot and whenever answers come: a    *)
(* call that executes has the yes of its own Builder.                      *)
(***************************************************************************)
THEOREM OwnAnswerCorrect == Spec => []OwnAnswer
<1>1. Inv => OwnAnswer
  BY DEF Inv, Good, Effective, Alive, OwnAnswer
<1>2. QED
  BY <1>1, InvHolds, PTL

LEMMA InvHonest == Inv => StatusHonest
<1> SUFFICES ASSUME Inv, NEW c \in Calls
    PROVE  /\ Status(c) = "completed" => At(c, "applied") /\ call[c].done = Children
           /\ Status(c) = "failed" => ~At(c, "applied")
           /\ Status(c) \in {"denied", "expired"} => call[c].done = 0 /\ ~At(c, "applying")
           /\ Status(c) \in {"allowed", "authorized", "completed"} => answer[c] = "allow"
           /\ Status(c) = "denied" => answer[c] = "deny"
           /\ c \notin lost /\ call[c].mode # "deploy" =>
                /\ Status(c) = "pending" => call[c].done = 0
                /\ At(c, "applied") => Status(c) = "completed"
  BY DEF StatusHonest
<1>1. TypeOK /\ Good(c) /\ Ordered(ledger[c]) /\ call[c].done \in Nat
  BY DEF Inv, Good, Told, TypeOK, Call
<1>2. Status(c) \in Events => In(ledger[c], Status(c))
  BY <1>1, StatusIs, EmptyLedger DEF Events, Ends
<1>3. Status(c) = "none" => \A e : ~In(ledger[c], e)
  BY <1>1, StatusIs, EmptyLedger DEF Events, Ends
<1>4. Status(c) = "pending" => \A e : In(ledger[c], e) => e = "requested"
  BY <1>1, StatusIs, EmptyLedger DEF Events, Ends
<1>5. In(ledger[c], "completed") => Status(c) \in Ends
  BY <1>1, StatusIs, EmptyLedger DEF Events, Ends
<1>6. /\ Status(c) = "completed" => At(c, "applied") /\ call[c].done = Children
      /\ Status(c) = "failed" => ~At(c, "applied")
  BY <1>1, <1>2 DEF Good, Told, At, Events
<1>7. Status(c) \in {"denied", "expired"} => call[c].done = 0 /\ ~At(c, "applying")
  BY <1>1, <1>2 DEF Good, Told, Effective, At, Events
<1>8. /\ Status(c) \in {"allowed", "authorized", "completed"} => answer[c] = "allow"
      /\ Status(c) = "denied" => answer[c] = "deny"
  BY <1>1, <1>2 DEF Good, Told, Effective, At, Alive, Events
<1>9. ASSUME c \notin lost, call[c].mode # "deploy"
      PROVE  /\ Status(c) = "pending" => call[c].done = 0
             /\ At(c, "applied") => Status(c) = "completed"
  <2>1. Status(c) = "pending" => call[c].done = 0
    BY <1>1, <1>4, <1>9 DEF Good, Complete
  <2>2. ASSUME At(c, "applied") PROVE Status(c) = "completed"
    <3>1. In(ledger[c], "completed")
      BY <1>1, <1>9, <2>2 DEF Good, Complete
    <3>2. ~In(ledger[c], "failed") /\ ~In(ledger[c], "expired")
      BY <1>1, <2>2 DEF Good, Told, At
    <3>3. QED
      BY <1>2, <1>5, <3>1, <3>2 DEF Ends, Events
  <2>3. QED
    BY <2>1, <2>2
<1>10. QED
  BY <1>6, <1>7, <1>8, <1>9

(***************************************************************************)
(* The Permission Center tells what happened, in spite of lost events,     *)
(* superseded prompts, close() and crashes.                                *)
(***************************************************************************)
THEOREM StatusHonestCorrect == Spec => []StatusHonest
  BY InvHonest, InvHolds, PTL

-----------------------------------------------------------------------------
(* Ledgers only grow, and the ledger of a denied call does not.            *)

Grows(d) ==
  /\ Extends(ledger[d], ledger'[d])
  /\ At(d, "denied") => ledger'[d] = ledger[d]

LEMMA RecordedGrows ==
  ASSUME NEW c \in Calls, NEW E, Recorded(c, E), ~At(c, "denied")
  PROVE  \A d \in Calls : Grows(d)
  BY ExtendsItself DEF Recorded, Grows

LEMMA UnrecordedGrows ==
  ASSUME ledger' = ledger
  PROVE  \A d \in Calls : Grows(d)
  BY ExtendsItself DEF Grows

LEMMA TerminalGrows ==
  ASSUME TypeOK, NEW c \in Calls, NEW e \in Events, RecordsTerminal(c, e), ~At(c, "denied")
  PROVE  \A d \in Calls : Grows(d)
<1>1. CASE c \in terminal
  BY <1>1, UnrecordedGrows DEF RecordsTerminal, record
<1>2. CASE c \notin terminal
  BY <1>2, TerminalRecorded, RecordedGrows
<1>3. QED
  BY <1>1, <1>2

LEMMA LedgersGrow ==
  ASSUME Inv, [Next]_vars
  PROVE  \A d \in Calls : Grows(d)
<1>0. TypeOK
  BY DEF Inv
<1>1. ASSUME NEW c \in Calls, Begins(c) PROVE \A d \in Calls : Grows(d)
  <2>1. ASSUME NEW mode \in Modes, Request(c, mode) PROVE \A d \in Calls : Grows(d)
    <3>1. Recorded(c, {"requested"})
      BY <1>0, <2>1, AppendRecorded DEF Request, Events
    <3>2. QED
      BY <2>1, <3>1, RecordedGrows DEF Request, At
  <2>2. QED
    BY <1>1, <2>1, UnrecordedGrows
    DEF Begins, RequestFails, StartDeploy, StartDeployFails, TakesGate, record
<1>2. ASSUME NEW c \in Calls, CallStep(c) PROVE \A d \in Calls : Grows(d)
  <2>1. CASE Prompt(c) \/ ChildApplied(c) \/ SpawnDeploy(c) \/ SpawnDeployFails(c) \/ DeployEnds(c)
    BY <2>1, UnrecordedGrows
    DEF Prompt, ChildApplied, SpawnDeploy, SpawnDeployFails, DeployEnds, record
  <2>2. CASE Authorize(c)
    <3>1. Recorded(c, {"authorized"})
      BY <1>0, <2>2, RecordsRecorded DEF Authorize, Events
    <3>2. QED
      BY <2>2, <3>1, RecordedGrows DEF Authorize, MayExecute, At
  <2>3. CASE PromptFails(c) \/ ChildFails(c) \/ Completes(c)
    BY <1>0, <2>3, TerminalGrows DEF PromptFails, ChildFails, Completes, Events, At
  <2>4. CASE BeginChild(c)
    BY <1>0, <2>4, TerminalGrows, UnrecordedGrows DEF BeginChild, Events, At, record
  <2>5. CASE FinalReadFails(c)
    BY <1>0, <2>5, TerminalGrows, UnrecordedGrows DEF FinalReadFails, Events, At, record
  <2>6. QED
    BY <1>2, <2>1, <2>2, <2>3, <2>4, <2>5 DEF CallStep
<1>3. ASSUME NEW c \in Calls, NEW a \in {"allow", "deny"}, Respond(c, a)
      PROVE  \A d \in Calls : Grows(d)
  <2>1. \E E : Recorded(c, E)
    BY <1>0, <1>3, RecordsRecorded, TwoRecorded DEF Respond, Events
  <2>2. QED
    BY <1>3, <2>1, RecordedGrows DEF Respond, At
<1>4. ASSUME NEW c \in Calls, NEW a \in {"allow", "deny"}, RespondDeploy(c, a) \/ RespondTooLate(c, a)
      PROVE  \A d \in Calls : Grows(d)
  BY <1>4, UnrecordedGrows DEF RespondDeploy, RespondTooLate, record
<1>5. ASSUME NEW a \in {"allow", "deny"}, Confirm(a) PROVE \A d \in Calls : Grows(d)
  BY <1>5, UnrecordedGrows DEF Confirm, record
<1>6. CASE OtherMutation \/ Crash \/ UNCHANGED vars
  BY <1>6, UnrecordedGrows DEF OtherMutation, Crash, vars, record
<1>7. CASE Close
  <2>1. TAKE d \in Calls
  <2>2. d \in live => ~At(d, "denied")
    BY DEF Inv, Good, Asked, At
  <2>3. ledger[d] \in Seq(Events)
    BY <1>0 DEF TypeOK
  <2>4. \/ ledger'[d] = ledger[d]
        \/ d \in live /\ ledger'[d] = Append(ledger[d], "expired")
    BY <1>7 DEF Close
  <2>5. QED
    BY <2>2, <2>3, <2>4, AppendEvent, ExtendsItself DEF Grows, Events
<1>8. QED
  BY <1>1, <1>2, <1>3, <1>4, <1>5, <1>6, <1>7 DEF Next, Answers

-----------------------------------------------------------------------------
(***************************************************************************)
(* How calls move from step to step: one at a time, except in a crash, and *)
(* with a change counted only where one is executed.                       *)
(***************************************************************************)
Still(d) == call'[d].step = call[d].step /\ call'[d].done = call[d].done

Edges == {<<"idle", "recording">>, <<"idle", "failed">>, <<"recording", "waiting">>,
          <<"recording", "failed">>, <<"idle", "waiting">>, <<"waiting", "allowed">>,
          <<"waiting", "denied">>, <<"allowed", "children">>, <<"allowed", "failed">>,
          <<"children", "applying">>, <<"children", "failed">>, <<"children", "applied">>,
          <<"applying", "failed">>, <<"deploying", "applied">>, <<"deploying", "failed">>}

Walks(c) == <<call[c].step, call'[c].step>> \in Edges /\ call'[c].done = call[c].done

Works(c) ==
  /\ call[c].step \in {"allowed", "applying"} /\ call'[c].step \in {"children", "deploying"}
  /\ call[c].done < Children
  /\ call'[c].done = call[c].done + 1

Dies(c) ==
  IF At(c, "idle") \/ call[c].step \in Ended THEN Still(c)
  ELSE call'[c].step = "gone" /\ call'[c].done = call[c].done

Moves ==
  \/ \A c \in Calls : Still(c)
  \/ \E c \in Calls : (Walks(c) \/ Works(c)) /\ \A d \in Calls : d # c => Still(d)
  \/ \A c \in Calls : Dies(c)

LEMMA GoesWalks ==
  ASSUME TypeOK, NEW c \in Calls, NEW s \in Steps, Goes(c, s), <<call[c].step, s>> \in Edges
  PROVE  Moves
<1>1. /\ call'[c].step = s /\ call'[c].done = call[c].done
      /\ \A d \in Calls : d # c => call'[d] = call[d]
  BY GoesEffect
<1>2. Walks(c) /\ \A d \in Calls : d # c => Still(d)
  BY <1>1 DEF Walks, Still
<1>3. QED
  BY <1>2 DEF Moves

LEMMA BeginsMove ==
  ASSUME Inv, NEW c \in Calls, Begins(c)
  PROVE  Moves
<1>0. TypeOK /\ call[c] \in Call
  BY DEF Inv, TypeOK
<1>1. CASE RequestFails(c)
  BY <1>0, <1>1, GoesWalks DEF RequestFails, At, Edges, Steps
<1>2. ASSUME NEW s \in {"recording", "waiting", "failed"}, NEW m,
             At(c, "idle"), call' = [call EXCEPT ![c].step = s, ![c].mode = m]
      PROVE  Moves
  <2> DEFINE k == [call[c] EXCEPT !.step = s, !.mode = m]
  <2>1. k.step = s /\ k.done = call[c].done
    BY <1>0 DEF Call
  <2>2. call' = [call EXCEPT ![c] = k]
    BY <1>2
  <2> HIDE DEF k
  <2>3. call'[c] = k /\ \A d \in Calls : d # c => call'[d] = call[d]
    BY <1>0, <2>2 DEF TypeOK
  <2>4. Walks(c) /\ \A d \in Calls : d # c => Still(d)
    BY <1>2, <2>1, <2>3 DEF Walks, Still, Edges, At
  <2>5. QED
    BY <2>4 DEF Moves
<1>3. CASE StartDeploy(c) \/ StartDeployFails(c)
  BY <1>2, <1>3 DEF StartDeploy, StartDeployFails, TakesGate
<1>4. ASSUME NEW mode \in Modes, Request(c, mode) PROVE Moves
  BY <1>2, <1>4 DEF Request
<1>5. QED
  BY <1>1, <1>3, <1>4 DEF Begins

LEMMA CallStepMoves ==
  ASSUME Inv, NEW c \in Calls, CallStep(c)
  PROVE  Moves
<1>0. TypeOK /\ Good(c) /\ call[c] \in Call
  BY DEF Inv, TypeOK
<1>1. CASE Prompt(c) \/ PromptFails(c)
  BY <1>0, <1>1, GoesWalks DEF Prompt, PromptFails, At, Edges, Steps
<1>2. CASE Authorize(c) \/ BeginChild(c) \/ ChildFails(c)
  BY <1>0, <1>2, GoesWalks DEF Authorize, MayExecute, BeginChild, ChildFails, At, Edges, Steps
<1>3. CASE Completes(c) \/ FinalReadFails(c) \/ SpawnDeployFails(c) \/ DeployEnds(c)
  BY <1>0, <1>3, GoesWalks
  DEF Completes, FinalReadFails, SpawnDeployFails, DeployEnds, At, Edges, Steps
<1>4. CASE ChildApplied(c)
  <2> DEFINE k == [call[c] EXCEPT !.step = "children", !.done = @ + 1]
  <2>1. k.step = "children" /\ k.done = call[c].done + 1
    BY <1>0 DEF Call
  <2>2. call' = [call EXCEPT ![c] = k]
    BY <1>4 DEF ChildApplied
  <2> HIDE DEF k
  <2>3. call'[c] = k /\ \A d \in Calls : d # c => call'[d] = call[d]
    BY <1>0, <2>2 DEF TypeOK
  <2>4. Works(c) /\ \A d \in Calls : d # c => Still(d)
    BY <1>0, <1>4, <2>1, <2>3 DEF Works, Still, ChildApplied, At, Good, Effective
  <2>5. QED
    BY <2>4 DEF Moves
<1>5. CASE SpawnDeploy(c)
  <2> DEFINE k == [call[c] EXCEPT !.step = "deploying", !.done = 1]
  <2>1. k.step = "deploying" /\ k.done = 1
    BY <1>0 DEF Call
  <2>2. call' = [call EXCEPT ![c] = k]
    BY <1>5 DEF SpawnDeploy
  <2> HIDE DEF k
  <2>3. call'[c] = k /\ \A d \in Calls : d # c => call'[d] = call[d]
    BY <1>0, <2>2 DEF TypeOK
  <2>4. call[c].done = 0 /\ At(c, "allowed")
    BY <1>0, <1>5 DEF SpawnDeploy, At, Good, Effective
  <2>5. Works(c) /\ \A d \in Calls : d # c => Still(d)
    BY <2>1, <2>3, <2>4 DEF Works, Still, At
  <2>6. QED
    BY <2>5 DEF Moves
<1>6. QED
  BY <1>1, <1>2, <1>3, <1>4, <1>5 DEF CallStep

LEMMA ConfirmMoves ==
  ASSUME Inv, NEW a \in {"allow", "deny"}, ResolveConfirm(a)
  PROVE  Moves
<1>0. TypeOK
  BY DEF Inv
<1>1. CASE deployResolver \notin Calls \/ ~At(deployResolver, "waiting")
  <2>1. \A c \in Calls : call'[c] = call[c]
    BY <1>1 DEF ResolveConfirm
  <2>2. QED
    BY <2>1 DEF Moves, Still
<1>2. CASE deployResolver \in Calls /\ At(deployResolver, "waiting")
  <2> DEFINE q == deployResolver
             k == [call[q] EXCEPT !.step = Answered(a)]
  <2>1. k.step \in {"denied", "allowed"} /\ k.done = call[q].done
    BY <1>0, <1>2 DEF TypeOK, Call, Answered
  <2>2. call' = [c \in Calls |-> IF c = q THEN k ELSE call[c]]
    BY <1>2 DEF ResolveConfirm
  <2> HIDE DEF k
  <2>3. call'[q] = k /\ \A d \in Calls : d # q => call'[d] = call[d]
    BY <1>2, <2>2
  <2>4. Walks(q) /\ \A d \in Calls : d # q => Still(d)
    BY <1>2, <2>1, <2>3 DEF Walks, Still, Edges, At
  <2>5. QED
    BY <1>2, <2>4 DEF Moves
<1>3. QED
  BY <1>1, <1>2

LEMMA CloseMoves ==
  ASSUME Inv, Close
  PROVE  Moves
<1>0. TypeOK
  BY DEF Inv
<1>1. CASE Refused = {}
  <2>1. \A c \in Calls : call'[c] = call[c]
    BY <1>1 DEF Close
  <2>2. QED
    BY <2>1 DEF Moves, Still
<1>2. CASE Refused # {}
  <2> DEFINE q == changeSetSlot
             k == [call[q] EXCEPT !.step = "denied"]
  <2>1. Refused = {q} /\ q \in Calls /\ q \in live
    BY <1>0, <1>2 DEF Refused, TypeOK
  <2>2. k.step = "denied" /\ k.done = call[q].done
    BY <1>0, <2>1 DEF TypeOK, Call
  <2>3. call' = [c \in Calls |-> IF c = q THEN k ELSE call[c]]
    BY <2>1 DEF Close
  <2> HIDE DEF k
  <2>4. call'[q] = k /\ \A d \in Calls : d # q => call'[d] = call[d]
    BY <2>1, <2>3
  <2>5. At(q, "waiting")
    BY <2>1 DEF Inv, Good, Asked
  <2>6. Walks(q) /\ \A d \in Calls : d # q => Still(d)
    BY <2>2, <2>4, <2>5 DEF Walks, Still, Edges, At
  <2>7. QED
    BY <2>1, <2>6 DEF Moves
<1>3. QED
  BY <1>1, <1>2

LEMMA CrashMoves ==
  ASSUME Inv, Crash
  PROVE  Moves
<1>1. SUFFICES ASSUME NEW c \in Calls PROVE Dies(c)
  BY DEF Moves
<1> DEFINE k == [call[c] EXCEPT !.step = "gone"]
<1>2. k.step = "gone" /\ k.done = call[c].done
  BY DEF Inv, TypeOK, Call
<1>3. call'[c] = IF At(c, "idle") \/ call[c].step \in Ended THEN call[c] ELSE k
  BY DEF Crash
<1> HIDE DEF k
<1>4. QED
  BY <1>2, <1>3 DEF Dies, Still

LEMMA StepMoves ==
  ASSUME Inv, [Next]_vars
  PROVE  Moves
<1>0. TypeOK
  BY DEF Inv
<1>1. ASSUME NEW c \in Calls, NEW a \in {"allow", "deny"}, Respond(c, a) PROVE Moves
  BY <1>0, <1>1, GoesWalks DEF Respond, Answered, At, Edges, Steps
<1>2. ASSUME NEW c \in Calls, NEW a \in {"allow", "deny"}, RespondDeploy(c, a) PROVE Moves
  BY <1>2, ConfirmMoves DEF RespondDeploy
<1>3. ASSUME NEW a \in {"allow", "deny"}, Confirm(a) PROVE Moves
  BY <1>3, ConfirmMoves DEF Confirm
<1>4. ASSUME call' = call PROVE Moves
  BY <1>4 DEF Moves, Still
<1>5. QED
  BY <1>1, <1>2, <1>3, <1>4, BeginsMove, CallStepMoves, CloseMoves, CrashMoves
  DEF Next, Answers, RespondTooLate, OtherMutation, vars

-----------------------------------------------------------------------------
LEMMA FinalStep ==
  ASSUME Inv, [Next]_vars, NEW c \in Calls, Status(c) \in Final
  PROVE  Status(c)' = Status(c) /\ call'[c].done = call[c].done
<1>1. Inv' /\ TypeOK /\ TypeOK' /\ Good(c) /\ Good(c)' /\ Ordered(ledger[c]) /\ Ordered(ledger[c])'
  BY InvStep DEF Inv, Good, Told
<1>2. Grows(c) /\ Moves
  BY LedgersGrow, StepMoves
<1>3. In(ledger[c], Status(c))
  BY <1>1, StatusIs DEF Final, Ends, Events
<1>4. Status(c) = "denied" => At(c, "denied")
  BY <1>1, <1>3 DEF Good, Told
<1>5. Status(c)' = Status(c)
  <2>1. CASE Status(c) = "denied"
    <3>1. ledger'[c] = ledger[c]
      BY <1>2, <1>4, <2>1 DEF Grows
    <3>2. QED
      BY <3>1 DEF Status, Settling, Said
  <2>2. CASE Status(c) \in Ends
    BY <1>1, <1>2, <2>2, EndStays DEF Grows
  <2>3. QED
    BY <2>1, <2>2 DEF Final, Ends
<1>6. call[c].step \in Ended \cup {"waiting"}
  BY <1>1, <1>3 DEF Good, Told, At, Final, Ended
<1>7. ~Works(c)
  BY <1>6 DEF Works, Ended
<1>8. call'[c].done = call[c].done
  BY <1>2, <1>7 DEF Moves, Still, Walks, Dies
<1>9. QED
  BY <1>5, <1>8

(***************************************************************************)
(* What the Permission Center calls over stays so, and has no effects any  *)
(* more: an ended call is not revived by a late answer or a late event.    *)
(***************************************************************************)
THEOREM FinalStatusCorrect == Spec => FinalStatus
<1>1. Inv /\ [Next]_vars =>
        [\A c \in Calls : Status(c) \in Final =>
           Status(c)' = Status(c) /\ call'[c].done = call[c].done]_vars
  BY FinalStep
<1>2. QED
  BY <1>1, InvHolds, PTL DEF Spec, FinalStatus

-----------------------------------------------------------------------------
(***************************************************************************)
(* The gate.  Every move of a call is a step of ApprovalGate, or none.     *)
(***************************************************************************)
LEMMA StageIs ==
  ASSUME NEW c \in Calls
  PROVE  Stage[c] = CASE call[c].step \in {"idle", "recording"} -> "none"
                      [] At(c, "waiting")                       -> "asked"
                      [] At(c, "denied")                        -> "refused"
                      [] call[c].step \in Ended \ {"denied"}    -> "ended"
                      [] OTHER                                  -> "granted"
  BY DEF Stage

LEMMA StageOf ==
  ASSUME NEW c \in Calls, call[c].step \in Steps
  PROVE  /\ call[c].step \in {"idle", "recording"} => Stage[c] = "none"
         /\ call[c].step = "waiting" => Stage[c] = "asked"
         /\ call[c].step = "denied" => Stage[c] = "refused"
         /\ call[c].step \in {"applied", "failed", "gone"} => Stage[c] = "ended"
         /\ call[c].step \in {"allowed", "children", "applying", "deploying"} => Stage[c] = "granted"
<1>1. CASE call[c].step \in {"idle", "recording"}
  BY <1>1, StageIs DEF At, Ended
<1>2. CASE call[c].step = "waiting"
  BY <1>2, StageIs DEF At, Ended
<1>3. CASE call[c].step = "denied"
  BY <1>3, StageIs DEF At, Ended
<1>4. CASE call[c].step \in {"applied", "failed", "gone"}
  BY <1>4, StageIs DEF At, Ended
<1>5. CASE call[c].step \in {"allowed", "children", "applying", "deploying"}
  BY <1>5, StageIs DEF At, Ended
<1>6. QED
  BY <1>1, <1>2, <1>3, <1>4, <1>5 DEF Steps

LEMMA StillStage ==
  ASSUME TypeOK, TypeOK', NEW d \in Calls, Still(d)
  PROVE  Stage'[d] = Stage[d] /\ Effects'[d] = Effects[d]
<1>1. call[d].step \in Steps /\ call'[d].step = call[d].step
  BY DEF TypeOK, Call, Still
<1>2. Stage'[d] = Stage[d]
  BY <1>1 DEF Stage, At
<1>3. QED
  BY <1>2 DEF Effects, Still

(* The stages of a call that walks follow each other at the gate. *)
LEMMA WalkAdvances ==
  ASSUME TypeOK, TypeOK', NEW c \in Calls, Walks(c)
  PROVE  Stage'[c] = Stage[c] \/ Stage'[c] \in Granted!After[Stage[c]]
<1> DEFINE s == call[c].step
           t == call'[c].step
<1>1. s \in Steps /\ t \in Steps /\ <<s, t>> \in Edges
  BY DEF TypeOK, Call, Walks
<1>2. /\ s \in {"idle", "recording"} => Stage[c] = "none"
      /\ s = "waiting" => Stage[c] = "asked"
      /\ s \in {"allowed", "children", "applying", "deploying"} => Stage[c] = "granted"
  BY <1>1, StageOf
<1>3. /\ t = "recording" => Stage'[c] = "none"
      /\ t = "waiting" => Stage'[c] = "asked"
      /\ t = "denied" => Stage'[c] = "refused"
      /\ t \in {"applied", "failed"} => Stage'[c] = "ended"
      /\ t \in {"allowed", "children", "applying"} => Stage'[c] = "granted"
  <2>1. CASE t = "recording"
    BY <2>1 DEF Stage, At, Ended
  <2>2. CASE t = "waiting"
    BY <2>2 DEF Stage, At, Ended
  <2>3. CASE t = "denied"
    BY <2>3 DEF Stage, At, Ended
  <2>4. CASE t \in {"applied", "failed"}
    BY <2>4 DEF Stage, At, Ended
  <2>5. CASE t \in {"allowed", "children", "applying"}
    BY <2>5 DEF Stage, At, Ended
  <2>6. QED
    BY <2>1, <2>2, <2>3, <2>4, <2>5
<1> HIDE DEF s, t
<1>4. \/ s \in {"idle", "recording"} /\ t \in {"recording", "waiting", "failed"}
      \/ s = "waiting" /\ t \in {"allowed", "denied"}
      \/ /\ s \in {"allowed", "children", "applying", "deploying"}
         /\ t \in {"children", "applying", "failed", "applied"}
  BY <1>1 DEF Edges
<1>5. /\ Granted!After["none"] = {"asked", "ended"}
      /\ Granted!After["asked"] = {"granted", "refused", "ended"}
      /\ Granted!After["granted"] = {"ended"}
  BY DEF Granted!After
<1>6. QED
  BY <1>2, <1>3, <1>4, <1>5

LEMMA GateStep ==
  ASSUME Inv, [Next]_vars
  PROVE  [Granted!GNext]_(Granted!gvars)
<1>0. TypeOK /\ TypeOK' /\ Moves
  BY InvStep, StepMoves DEF Inv
<1>1. /\ DOMAIN Stage = Calls /\ Stage = [c \in Calls |-> Stage[c]]
      /\ Stage' = [c \in Calls |-> Stage'[c]] /\ Effects' = [c \in Calls |-> Effects'[c]]
      /\ Effects = [c \in Calls |-> Effects[c]]
  BY DEF Stage, Effects
<1>2. CASE \A c \in Calls : Still(c)
  <2>1. \A c \in Calls : Stage'[c] = Stage[c] /\ Effects'[c] = Effects[c]
    BY <1>0, <1>2, StillStage
  <2>2. Stage' = Stage /\ Effects' = Effects
    BY <1>1, <2>1
  <2>3. QED
    BY <2>2 DEF Granted!gvars
<1>3. ASSUME NEW c \in Calls, Walks(c), \A d \in Calls : d # c => Still(d)
      PROVE  [Granted!GNext]_(Granted!gvars)
  <2>1. \A d \in Calls : d # c => Stage'[d] = Stage[d] /\ Effects'[d] = Effects[d]
    BY <1>0, <1>3, StillStage
  <2>2. Effects'[c] = Effects[c]
    BY <1>3 DEF Effects, Walks
  <2>3. Effects' = Effects
    BY <1>1, <2>1, <2>2
  <2>4. Stage' = [Stage EXCEPT ![c] = Stage'[c]]
    BY <1>1, <2>1
  <2>5. CASE Stage'[c] = Stage[c]
    <3>1. Stage' = Stage
      BY <1>1, <2>1, <2>5
    <3>2. QED
      BY <2>3, <3>1 DEF Granted!gvars
  <2>6. CASE Stage'[c] \in Granted!After[Stage[c]]
    <3>1. Granted!Advance(c)
      BY <2>3, <2>4, <2>6 DEF Granted!Advance
    <3>2. QED
      BY <3>1 DEF Granted!GNext
  <2>7. QED
    BY <1>0, <1>3, <2>5, <2>6, WalkAdvances
<1>4. ASSUME NEW c \in Calls, Works(c), \A d \in Calls : d # c => Still(d)
      PROVE  [Granted!GNext]_(Granted!gvars)
  <2>1. \A d \in Calls : d # c => Stage'[d] = Stage[d] /\ Effects'[d] = Effects[d]
    BY <1>0, <1>4, StillStage
  <2>2. Effects'[c] = Effects[c] + 1 /\ Effects[c] < Children
    BY <1>4 DEF Effects, Works
  <2>3. Stage[c] = "granted" /\ Stage'[c] = "granted"
    BY <1>4 DEF Works, Stage, At, Ended
  <2>4. Stage' = Stage
    BY <1>1, <2>1, <2>3
  <2>5. Effects' = [Effects EXCEPT ![c] = @ + 1]
    BY <1>1, <2>1, <2>2
  <2>6. Granted!Perform(c)
    BY <2>2, <2>3, <2>4, <2>5 DEF Granted!Perform
  <2>7. QED
    BY <2>6 DEF Granted!GNext
<1>5. CASE \A c \in Calls : Dies(c)
  <2> DEFINE gone == {c \in Calls : ~(At(c, "idle") \/ call[c].step \in Ended)}
  <2>1. \A c \in Calls \ gone : Stage'[c] = Stage[c] /\ Effects'[c] = Effects[c]
    BY <1>0, <1>5, StillStage DEF Dies
  <2>2. \A c \in gone : Stage'[c] = "ended" /\ Effects'[c] = Effects[c]
    BY <1>5 DEF Dies, Stage, Effects, At, Ended
  <2>3. Stage' = [c \in Calls |-> IF c \in gone THEN "ended" ELSE Stage[c]]
    BY <1>1, <2>1, <2>2
  <2>4. Effects' = Effects
    BY <1>1, <2>1, <2>2
  <2>5. gone \in SUBSET Calls
    OBVIOUS
  <2> HIDE DEF gone
  <2>6. Granted!GiveUp
    BY <2>3, <2>4, <2>5 DEF Granted!GiveUp
  <2>7. QED
    BY <2>6 DEF Granted!GNext
<1>6. QED
  BY <1>0, <1>2, <1>3, <1>4, <1>5 DEF Moves

(***************************************************************************)
(* The prompts implement the gate: whoever answers, closes or crashes, a   *)
(* call has effects only between its Builder's yes and its end.            *)
(***************************************************************************)
THEOREM ConsentCorrect == Spec => Consent
<1>1. Init => Granted!GInit
  <2> SUFFICES ASSUME Init PROVE Granted!GInit
    OBVIOUS
  <2>1. \A c \in Calls : call[c].step = "idle" /\ call[c].done = 0
    BY DEF Init
  <2>2. \A c \in Calls : Stage[c] = "none" /\ Effects[c] = 0
    BY <2>1, StageOf DEF Steps, Effects
  <2>3. Stage = [c \in Calls |-> Stage[c]] /\ Effects = [c \in Calls |-> Effects[c]]
    BY DEF Stage, Effects
  <2>4. QED
    BY <2>2, <2>3 DEF Granted!GInit
<1>2. Inv /\ [Next]_vars => [Granted!GNext]_(Granted!gvars)
  BY GateStep
<1>3. QED
  BY <1>1, <1>2, InvHolds, PTL DEF Spec, Consent, Granted!Gate

=============================================================================
