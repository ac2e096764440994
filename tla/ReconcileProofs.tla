--------------------------- MODULE ReconcileProofs ---------------------------
(***************************************************************************)
(* What replacing a decision and finishing a Run guarantee while something *)
(* is wanted: a DELETE never uncovers an object, and a successful Run      *)
(* leaves the objects that every plan wants in force.                      *)
(*                                                                         *)
(* ReplaceInv relates the three copies of a ban (alert, ledger row,        *)
(* journal entry) while an operation replaces it: what was asked to be     *)
(* deleted is named by a verified operation, whose own alert stays active  *)
(* and lasts at least as long.  EnforceInv adds that the expiries the      *)
(* ledger and the Run go by are never later than the real ones, and that a *)
(* Run without an error accounts for every wanted object.                  *)
(***************************************************************************)
EXTENDS ReconcileInvariant

-----------------------------------------------------------------------------
(* Alerts, ledger and journal.                                             *)

Completed(t) == t \in Token /\ ops[t].status = "completed"

\* Every alert on the server and every request on its way was journalled
\* first, with the same content: BeginOperation comes before the call.
AlertsJournalled ==
    /\ \A a \in Alert :
        LET t == alerts[a].token IN
        IF alerts[a].state = "unused" THEN t = NoToken
        ELSE /\ t \in Token
             /\ ops[t].status # "free"
             /\ alerts[a].items = ops[t].items
             /\ alerts[a].feed = ops[t].feed
    /\ \A r \in posts :
        /\ ops[r.token].status # "free"
        /\ r.items = ops[r.token].items
        /\ r.feed = ops[r.token].feed

\* A row of the ledger is an item of a recorded operation, and stands for the
\* alert that carries its token.
LedgerJournalled ==
    \A a \in Alert, o \in Object : status[a][o] # "none" =>
        /\ alerts[a].token \in Token
        /\ Recorded(alerts[a].token)
        /\ o \in ops[alerts[a].token].items

\* What the Run has in hand: the alert it reads is the operation's, the
\* operation is as far as the call assumes, and the decision it expires is
\* one that the operation replaced.
HandMatches ==
    /\ pc \in {"get", "record"} => alerts[got].token = cur
    /\ Creating => ops[cur].status \in Unverified
    /\ Finishing => ops[cur].status = "verified"
    /\ Expiring /\ phase # "remove" =>
        /\ exp[2] \in Replaced(cur)
        /\ exp[1] = ops[cur].old[exp[2]]

\* What a step never takes back: the content of an alert, the content of a
\* journalled operation, and its completion.
Keeps ==
    /\ \A a \in Alert : alerts[a].token \in Token =>
            SameContent(a) /\ alerts'[a].state # "unused"
    /\ \A t \in Token : ops[t].status # "free" =>
            /\ ops'[t].status # "free"
            /\ ops'[t].feed = ops[t].feed
            /\ ops'[t].items = ops[t].items
            /\ ops'[t].old = ops[t].old
            /\ t # cur => ops'[t].status = ops[t].status
            /\ Recorded(t) => Recorded(t)'
            /\ ops[t].status = "completed" => ops'[t].status = "completed"

\* No step takes any of these back.
LEMMA KeepsStep ==
    ASSUME AlertsJournalled, ServerEffect(Requested), StoreEffect
    PROVE  Keeps
<1>1. ASSUME NEW a \in Alert, alerts[a].token \in Token
      PROVE  SameContent(a) /\ alerts'[a].state # "unused"
  <2>1. alerts[a].state # "unused"
    BY <1>1, LapiAssumption, Zenon DEF AlertsJournalled
  <2> QED BY <2>1, Zenon DEF ServerEffect, Created, SameContent
<1>2. ASSUME NEW t \in Token, ops[t].status # "free"
      PROVE  /\ ops'[t].status # "free"
             /\ ops'[t].feed = ops[t].feed
             /\ ops'[t].items = ops[t].items
             /\ ops'[t].old = ops[t].old
             /\ t # cur => ops'[t].status = ops[t].status
             /\ Recorded(t) => Recorded(t)'
             /\ ops[t].status = "completed" => ops'[t].status = "completed"
  BY <1>2, Zenon DEF StoreEffect, Begun, Moved, Recorded, Unverified
<1> QED BY <1>1, <1>2, Zenon DEF Keeps

\* The content of whatever may reach the server is journalled.
LEMMA RequestsJournalled ==
    ASSUME TypeOK, ControlOK, AlertsJournalled, HandMatches
    PROVE  \A r \in Requested :
                /\ r.token \in Token
                /\ ops[r.token].status # "free"
                /\ r.items = ops[r.token].items
                /\ r.feed = ops[r.token].feed
<1>1. \A r \in posts : r.token \in Token
  BY Zenon DEF TypeOK, LapiTypeOK, Request
<1>2. pc = "create" => cur \in Token /\ ops[cur].status # "free"
  BY Zenon DEF ControlOK, HandMatches, Creating, Unverified
<1> QED BY <1>1, <1>2 DEF AlertsJournalled, Requested, CreateRequest

\* Alerts and requests stay journalled.
LEMMA AlertsJournalledStep ==
    ASSUME TypeOK, ControlOK, AlertsJournalled, HandMatches,
           ServerEffect(Requested), StoreEffect
    PROVE  AlertsJournalled'
<1>1. Keeps
  BY KeepsStep, Zenon
<1>2. \A r \in Requested :
        /\ r.token \in Token
        /\ ops'[r.token].status # "free"
        /\ r.items = ops'[r.token].items
        /\ r.feed = ops'[r.token].feed
  BY <1>1, RequestsJournalled, Zenon DEF Keeps
<1>3. ASSUME NEW a \in Alert
      PROVE  IF alerts'[a].state = "unused" THEN alerts'[a].token = NoToken
             ELSE /\ alerts'[a].token \in Token
                  /\ ops'[alerts'[a].token].status # "free"
                  /\ alerts'[a].items = ops'[alerts'[a].token].items
                  /\ alerts'[a].feed = ops'[alerts'[a].token].feed
  <2>1. CASE alerts'[a] = alerts[a]
    BY <1>1, <2>1 DEF AlertsJournalled, Keeps
  <2>2. CASE alerts[a].state = "ours"
             /\ alerts'[a].state \in {"foreign", "gone"} /\ SameContent(a)
    BY <1>1, <2>2 DEF AlertsJournalled, Keeps, SameContent
  <2>3. ASSUME NEW r \in Requested, Created(r, a)
        PROVE  /\ alerts'[a].state = "ours"
               /\ alerts'[a].token \in Token
               /\ ops'[alerts'[a].token].status # "free"
               /\ alerts'[a].items = ops'[alerts'[a].token].items
               /\ alerts'[a].feed = ops'[alerts'[a].token].feed
    BY <1>2, <2>3 DEF Created
  <2> QED BY <2>1, <2>2, <2>3, Zenon DEF ServerEffect
<1>4. ASSUME NEW r \in posts'
      PROVE  /\ ops'[r.token].status # "free"
             /\ r.items = ops'[r.token].items
             /\ r.feed = ops'[r.token].feed
  <2>1. PICK q \in Requested : SameRequest(q, r)
    BY Zenon DEF ServerEffect, Carried
  <2> QED BY <1>2, <2>1, Zenon DEF SameRequest
<1> QED BY <1>3, <1>4, Zenon DEF AlertsJournalled

\* The ledger stays journalled.
LEMMA LedgerJournalledStep ==
    ASSUME TypeOK, ControlOK, AlertsJournalled, LedgerJournalled, HandMatches,
           ServerEffect(Requested), StoreEffect
    PROVE  LedgerJournalled'
<1>1. Keeps
  BY KeepsStep, Zenon
<1>2. ASSUME NEW a \in Alert, NEW o \in Object, status'[a][o] # "none"
      PROVE  /\ alerts'[a].token \in Token
             /\ Recorded(alerts[a].token)'
             /\ o \in ops'[alerts'[a].token].items
  <2>1. CASE status[a][o] # "none"
    <3>1. PICK t \in Token : t = alerts[a].token /\ Recorded(t)
                             /\ o \in ops[t].items
      BY <2>1, Zenon DEF LedgerJournalled
    <3>2. alerts'[a].token = t /\ Recorded(t)' /\ o \in ops'[t].items
      BY <1>1, <3>1, Zenon DEF Keeps, Recorded, SameContent
    <3> QED BY <3>1, <3>2, Zenon DEF Recorded
  <2>2. CASE status[a][o] = "none"
    <3>1. /\ pc = "record" /\ ops'[cur].status = "verified"
          /\ o \in ops[cur].items /\ a = got
          /\ ops[cur].status \in Unverified
      BY <1>2, <2>2, Zenon DEF StoreEffect, Live
    <3>2. cur \in Token /\ alerts[a].token = cur
      BY <3>1, Zenon DEF ControlOK, HandMatches
    <3>3. alerts'[a].token = cur /\ o \in ops'[cur].items
      BY <1>1, <3>1, <3>2, Zenon DEF Keeps, SameContent, Unverified
    <3> QED BY <3>1, <3>2, <3>3, Zenon DEF Recorded
  <2> QED BY <2>1, <2>2, Zenon
<1> QED BY <1>2, Zenon DEF LedgerJournalled

-----------------------------------------------------------------------------
(* Replacements.                                                           *)

\* The decisions a Run has planned to replace, to mark or to remove belong to
\* completed operations: planning starts when no operation is open.
PlanSettled ==
    phase \in {"batch", "remove"} =>
        \A o \in Object : todo[o] \in {"renew", "refresh", "remove"} =>
            act[o] \in Alert /\ Completed(alerts[act[o]].token)

\* So do the decisions that an open operation replaces.
OldSettled ==
    \A t \in Token : ops[t].status \in Open =>
        \A o \in Replaced(t) : Completed(alerts[ops[t].old[o]].token)

\* So do the decisions that a DELETE is on its way for: the alert of an open
\* operation is never the target of one.
DoomedSettled ==
    \A d \in Doomed : Completed(alerts[d[1]].token)

\* A verified operation has its own decision active in the ledger for each
\* one it replaces, and that one is no longer active.
ReplacementActive ==
    \A t \in Token : ops[t].status = "verified" =>
        \A o \in Replaced(t) :
            /\ status[ops[t].old[o]][o] \in {"expiring", "expired"}
            /\ \E b \in Alert : status[b][o] = "active" /\ alerts[b].token = t

\* The decisions of an open operation's alert last at least as long as the
\* ones they replace, for as long as those are in force.
ReplacementLasts ==
    /\ \A a \in Alert, o \in Object : until[a][o] <= clock + Duration
    /\ \A t \in Token, c \in Alert :
        ops[t].status \in Open /\ alerts[c].token = t =>
            \A o \in Replaced(t) :
                \/ until[ops[t].old[o]][o] <= clock
                \/ until[c][o] >= until[ops[t].old[o]][o]

\* The decision an item replaces is one of some alert.
LEMMA OldIsAlert ==
    ASSUME TypeOK, NEW t \in Token, NEW o \in Replaced(t)
    PROVE  o \in Object /\ o \in ops[t].items /\ ops[t].old[o] \in Alert
  BY DEF TypeOK, StoreTypeOK, Operation, Replaced

\* A completed operation's alert keeps its token and stays completed.
LEMMA CompletedStays ==
    ASSUME Keeps, NEW a \in Alert, Completed(alerts[a].token)
    PROVE  alerts'[a].token = alerts[a].token /\ Completed(alerts[a].token)'
<1>1. PICK t \in Token : t = alerts[a].token /\ ops[t].status = "completed"
  BY Zenon DEF Completed
<1>2. alerts'[a].token = t /\ ops'[t].status = "completed"
  BY <1>1, Zenon DEF Keeps, SameContent
<1> QED BY <1>1, <1>2, Zenon DEF Completed

\* An operation that is open after a step was begun by it or was open before.
LEMMA OpenBefore ==
    ASSUME StoreEffect, NEW t \in Token, ops'[t].status \in Open
    PROVE  \/ Begun(t)
           \/ /\ ops[t].status \in Open
              /\ ops'[t].items = ops[t].items
              /\ ops'[t].old = ops[t].old
              /\ Replaced(t)' = Replaced(t)
  BY DEF StoreEffect, Moved, Open, Unverified, Replaced

\* Open operations go on replacing settled decisions only.
LEMMA OldSettledStep ==
    ASSUME TypeOK, TypeOK', ControlOK, PlanSettled, OldSettled, Keeps,
           StoreEffect
    PROVE  OldSettled'
<1>1. ASSUME NEW t \in Token, ops'[t].status \in Open, NEW o \in Replaced(t)'
      PROVE  Completed(alerts[ops[t].old[o]].token)'
  <2>1. PICK a \in Alert : a = ops'[t].old[o] /\ o \in Object
                           /\ o \in ops'[t].items
    BY <1>1 DEF TypeOK, StoreTypeOK, Operation, Replaced
  <2>2. Completed(alerts[a].token)
    <3>1. CASE Begun(t)
      <4>1. phase = "batch" /\ todo[o] = "refresh" /\ a = act[o]
        BY <2>1, <3>1 DEF Begun, ControlOK, Alert, NoAlert
      <4> QED BY <2>1, <4>1, Zenon DEF PlanSettled
    <3>2. CASE ~Begun(t)
      <4>1. ops[t].status \in Open /\ a = ops[t].old[o] /\ o \in Replaced(t)
        BY <1>1, <2>1, <3>2, OpenBefore, Zenon
      <4> QED BY <4>1, Zenon DEF OldSettled
    <3> QED BY <3>1, <3>2, Zenon
  <2>3. Completed(alerts[a].token)'
    BY <2>2, CompletedStays, Zenon
  <2> QED BY <2>1, <2>3, Zenon
<1> QED BY <1>1, Zenon DEF OldSettled

\* The replacement of a verified operation stays active until it is finished.
LEMMA ReplacementActiveStep ==
    ASSUME TypeOK, ControlOK, PlanMatches, PlanSettled, OldSettled,
           DoomedSettled, ReplacementActive, HandMatches, Keeps, StoreEffect
    PROVE  ReplacementActive'
<1>1. ASSUME NEW t \in Token, ops'[t].status = "verified",
             NEW o \in Replaced(t)'
      PROVE  /\ (status[ops[t].old[o]][o])' \in {"expiring", "expired"}
             /\ \E b \in Alert :
                    status'[b][o] = "active" /\ alerts'[b].token = t
  <2>1. \/ ops[t].status = "verified" /\ ops'[t] = ops[t]
        \/ t = cur /\ pc = "record" /\ Moved(t)
           /\ ops[t].status \in Unverified
    BY <1>1, Zenon DEF StoreEffect, Begun, Moved
  <2>2. o \in Replaced(t) /\ ops'[t].old = ops[t].old
    BY <1>1, <2>1, Zenon DEF Moved, Replaced
  <2>3. PICK a \in Alert : a = ops[t].old[o] /\ o \in Object
                           /\ o \in ops[t].items
    BY <2>2, OldIsAlert, Zenon
  <2>4. CASE ops[t].status = "verified" /\ ops'[t] = ops[t]
    <3>1. status[a][o] \in {"expiring", "expired"}
      BY <2>2, <2>3, <2>4, Zenon DEF ReplacementActive
    <3>2. status'[a][o] \in {"expiring", "expired"}
      BY <2>3, <3>1, Zenon DEF StoreEffect
    <3>3. PICK b \in Alert : status[b][o] = "active" /\ alerts[b].token = t
      BY <2>2, <2>4 DEF ReplacementActive
    <3>4. alerts'[b].token = t
      BY <3>3, Zenon DEF Keeps, SameContent
    <3>5. ~Completed(alerts[b].token)
      BY <2>4, <3>3, Zenon DEF Completed
    <3>6. status'[b][o] = "active"
      <4>1. ~(pc = "record" /\ ops[cur].status \in Unverified
              /\ o \in ops[cur].items /\ b = ops[cur].old[o])
        <5>1. SUFFICES ASSUME pc = "record", ops[cur].status \in Unverified,
                              o \in ops[cur].items, b = ops[cur].old[o]
                       PROVE  FALSE
          BY Zenon
        <5>2. cur \in Token /\ o \in Replaced(cur)
          BY <5>1 DEF ControlOK, Replaced, Alert, NoAlert
        <5> QED BY <3>5, <5>1, <5>2, Zenon DEF OldSettled, Open
      <4>2. ~(pc = "expmark" /\ exp = <<b, o>>)
        BY <3>5 DEF DoomedSettled, Doomed, Expiring
      <4>3. ~(pc = "batch" /\ todo[o] = "renew" /\ b = act[o])
        BY <2>3, <3>5, Zenon DEF PlanSettled, ControlOK
      <4> QED BY <2>3, <3>3, <4>1, <4>2, <4>3 DEF StoreEffect
    <3> QED BY <2>2, <2>3, <3>2, <3>4, <3>6, Zenon
  <2>5. CASE t = cur /\ pc = "record" /\ Moved(t)
             /\ ops[t].status \in Unverified
    <3>1. status'[got][o] = "active" /\ status'[a][o] = "expiring"
      BY <1>1, <2>3, <2>5 DEF Moved, Alert, NoAlert
    <3>2. got \in Alert /\ alerts[got].token = t
      BY <2>5, Zenon DEF ControlOK, HandMatches
    <3>3. alerts'[got].token = t
      BY <3>2, Zenon DEF Keeps, SameContent
    <3> QED BY <2>2, <2>3, <3>1, <3>2, <3>3, Zenon
  <2> QED BY <2>1, <2>4, <2>5, Zenon
<1> QED BY <1>1, Zenon DEF ReplacementActive

\* A replacement goes on lasting at least as long as what it replaces: it is
\* never the target of a DELETE, and a new one gets the full duration.
LEMMA ReplacementLastsStep ==
    ASSUME TypeOK, TypeOK', ControlOK, AlertsJournalled, HandMatches,
           OldSettled, DoomedSettled, ReplacementLasts, Keeps,
           ServerEffect(Requested), StoreEffect
    PROVE  ReplacementLasts'
<1> USE LapiAssumption
<1>1. /\ clock \in Nat /\ clock' \in Nat /\ clock <= clock'
      /\ Duration \in Nat
      /\ \A a \in Alert, o \in Object :
            until[a][o] \in Nat /\ until'[a][o] \in Nat
  BY DEF ServerEffect, TypeOK, LapiTypeOK
<1>2. ASSUME NEW a \in Alert, NEW o \in Object
      PROVE  until'[a][o] <= clock' + Duration
  <2>1. CASE until'[a][o] = until[a][o]
    <3>1. until[a][o] <= clock + Duration
      BY Zenon DEF ReplacementLasts
    <3> QED BY <1>1, <2>1, <3>1
  <2>2. CASE until'[a][o] = clock
    <3>1. /\ clock \in Nat /\ Duration \in Nat
          /\ clock' = clock \/ clock' = clock + 1
      BY Zenon DEF ServerEffect, TypeOK, LapiTypeOK
    <3>2. clock <= clock + Duration /\ clock <= clock + 1 + Duration
      BY <3>1
    <3> QED BY <2>2, <3>1, <3>2, Zenon
  <2>3. ASSUME NEW r \in Requested, Created(r, a)
        PROVE  until'[a][o] <= clock' + Duration
    BY <1>1, <2>3 DEF Created
  <2> QED BY <2>1, <2>2, <2>3, Zenon DEF ServerEffect
<1>3. ASSUME NEW t \in Token, NEW c \in Alert, ops'[t].status \in Open,
             alerts'[c].token = t, NEW o \in Replaced(t)'
      PROVE  \/ until'[ops'[t].old[o]][o] <= clock'
             \/ until'[c][o] >= until'[ops'[t].old[o]][o]
  <2>1. ~Begun(t)
    <3>1. ops[t].status # "free"
      <4>1. CASE alerts'[c].token = alerts[c].token
        BY <1>3, <4>1, Zenon DEF AlertsJournalled
      <4>2. ASSUME NEW r \in Requested, Created(r, c)
            PROVE  ops[t].status # "free"
        BY <1>3, <4>2, RequestsJournalled DEF Created
      <4> QED BY <4>1, <4>2, Zenon DEF ServerEffect, SameContent
    <3> QED BY <3>1, Zenon DEF Begun
  <2>2. ops[t].status \in Open /\ ops'[t].old = ops[t].old /\ o \in Replaced(t)
    BY <1>3, <2>1, OpenBefore, Zenon
  <2>3. PICK a \in Alert : a = ops[t].old[o] /\ o \in Object
                           /\ o \in ops[t].items
    BY <2>2, OldIsAlert, Zenon
  <2>4. alerts[a].token \in Token
    BY <2>2, <2>3, Zenon DEF OldSettled, Completed
  <2>5. alerts[a].state # "unused"
    BY <2>4, Zenon DEF AlertsJournalled
  <2>6. until'[a][o] = until[a][o] \/ until'[a][o] = clock
    BY <2>3, <2>5, Zenon DEF ServerEffect, Created
  <2>7. CASE until'[a][o] = clock
    BY <1>1, <2>2, <2>3, <2>7, Zenon
  <2>8. CASE until'[a][o] = until[a][o]
    <3>1. ASSUME NEW r \in Requested, Created(r, c)
          PROVE  until'[c][o] >= until'[a][o]
      <4>1. o \in r.items
        BY <1>3, <2>3, <3>1, RequestsJournalled DEF Created
      <4>2. until'[c][o] = clock + Duration
        BY <2>3, <3>1, <4>1, Zenon DEF Created
      <4>3. until[a][o] <= clock + Duration
        BY <2>3, ZenonT(60) DEF ReplacementLasts
      <4> QED BY <1>1, <2>3, <2>8, <4>2, <4>3, Zenon
    <3>2. ASSUME \A r \in Requested : ~Created(r, c)
          PROVE  \/ until'[a][o] <= clock'
                 \/ until'[c][o] >= until'[a][o]
      <4>1. alerts[c].token = t
        BY <1>3, <3>2, Zenon DEF ServerEffect, SameContent
      <4>2. <<c, o>> \notin Doomed
        BY <2>2, <4>1, Zenon DEF DoomedSettled, Completed, Open, Unverified
      <4>3. until'[c][o] = until[c][o]
        BY <2>3, <3>2, <4>2, Zenon DEF ServerEffect
      <4>4. until[a][o] <= clock \/ until[c][o] >= until[a][o]
        BY <2>2, <2>3, <4>1, Zenon DEF ReplacementLasts
      <4> QED BY <1>1, <2>3, <2>8, <4>3, <4>4
    <3> QED BY <2>2, <2>3, <3>1, <3>2, Zenon
  <2> QED BY <2>6, <2>7, <2>8, Zenon
<1> QED BY <1>2, <1>3, Zenon DEF ReplacementLasts

-----------------------------------------------------------------------------
(* What a Run knows while it goes on.                                      *)

\* Recovery works on what it read: an operation still to be handled is in the
\* status that was read, and every open operation is still to be handled or
\* in hand.
RecoverMatches ==
    phase = "recover" =>
        \A t \in Token :
            /\ left[t] # "none" => left[t] = ops[t].status /\ t # cur
            /\ ops[t].status \in Open => left[t] # "none" \/ t = cur

\* Only objects the Run does not want are planned for removal, and only
\* objects it wants for the rest.
PlanWanted ==
    phase \in {"batch", "remove"} =>
        \A o \in Object :
            /\ todo[o] = "remove" => ~snap[o].desired
            /\ todo[o] \in {"create", "renew", "refresh"} => snap[o].desired

\* The decision that expireOwned handles belongs to a completed operation,
\* and in the removal loop its object is not wanted.
ExpireSettled ==
    Expiring => /\ Completed(alerts[exp[1]].token)
                /\ phase = "remove" => ~snap[exp[2]].desired

RunKnows ==
    HandMatches /\ RecoverMatches /\ PlanSettled /\ PlanWanted /\ ExpireSettled

\* A Run that returned knows nothing.
LEMMA ReturnKnows ==
    ASSUME Return
    PROVE  RunKnows'
  BY Zenon DEF Return, RunKnows, HandMatches, RecoverMatches, PlanSettled, PlanWanted,
         ExpireSettled, Creating, Expiring, Finishing

\* Within a loop nothing changes but the operation in hand.
LEMMA SameLoopKnows ==
    ASSUME TypeOK, ControlOK, RunKnows, Keeps, StoreEffect,
           UNCHANGED <<phase, left, cur, todo, act, snap>>
    PROVE  RecoverMatches' /\ PlanSettled' /\ PlanWanted'
<1> USE DEF RunKnows
<1>1. RecoverMatches'
  <2>1. phase = "recover" => pc # "batch"
    BY Zenon DEF ControlOK
  <2>2. phase = "recover" => \A t \in Token : t # cur => ops'[t] = ops[t]
    BY <2>1, Zenon DEF StoreEffect, Begun, Moved
  <2> QED BY <2>2, Zenon DEF RecoverMatches
<1>2. PlanSettled'
  <2>1. ASSUME phase' \in {"batch", "remove"}, NEW o \in Object,
               todo'[o] \in {"renew", "refresh", "remove"}
        PROVE  act'[o] \in Alert /\ Completed(alerts[act[o]].token)'
    <3>1. PICK a \in Alert : a = act[o] /\ Completed(alerts[a].token)
      BY <2>1, Zenon DEF PlanSettled
    <3>2. Completed(alerts[a].token)'
      BY <3>1, CompletedStays, Zenon
    <3> QED BY <3>1, <3>2, Zenon
  <2> QED BY <2>1, Zenon DEF PlanSettled
<1>3. PlanWanted'
  BY Zenon DEF PlanWanted
<1> QED BY <1>1, <1>2, <1>3, Zenon

\* When the call for an operation ends it is no longer in hand; in recovery
\* it ended well, and the operation is closed.
LEMMA OperationDoneKnows ==
    ASSUME TypeOK, ControlOK, RunKnows, Keeps, StoreEffect,
           phase \in {"recover", "batch"}, pc \notin {"recover", "batch"},
           NEW ok \in BOOLEAN, OperationDone(ok),
           ok => cur \in Token /\ ops'[cur].status \notin Open
    PROVE  RunKnows'
<1>1. CASE phase = "recover" /\ ~ok
  BY <1>1, ReturnKnows, Zenon DEF OperationDone
<1>2. CASE ~(phase = "recover" /\ ~ok)
  <2>1. /\ pc' = phase /\ cur' = NoToken
        /\ UNCHANGED <<phase, left, todo, act, snap>>
    BY <1>2, Zenon DEF OperationDone
  <2>2. HandMatches' /\ ExpireSettled'
    BY <2>1, Zenon DEF HandMatches, ExpireSettled, Creating, Expiring, Finishing
  <2>3. RecoverMatches'
    <3>1. phase = "recover" => \A t \in Token : t # cur => ops'[t] = ops[t]
      BY Zenon DEF StoreEffect, Begun, Moved
    <3> QED BY <1>2, <2>1, <3>1, LapiAssumption, Zenon DEF RecoverMatches, RunKnows
  <2>4. PlanSettled'
    <3>1. ASSUME phase' \in {"batch", "remove"}, NEW o \in Object,
                 todo'[o] \in {"renew", "refresh", "remove"}
          PROVE  act'[o] \in Alert /\ Completed(alerts[act[o]].token)'
      <4>1. PICK a \in Alert : a = act[o] /\ Completed(alerts[a].token)
        BY <2>1, <3>1, Zenon DEF PlanSettled, RunKnows
      <4>2. Completed(alerts[a].token)'
        BY <4>1, CompletedStays, Zenon
      <4> QED BY <2>1, <4>1, <4>2, Zenon
    <3> QED BY <3>1, Zenon DEF PlanSettled
  <2>5. PlanWanted'
    BY <2>1, Zenon DEF PlanWanted, RunKnows
  <2> QED BY <2>2, <2>3, <2>4, <2>5, Zenon DEF RunKnows
<1> QED BY <1>1, <1>2, Zenon

\* The same when expireOwned ends; finishVerified goes on with the operation.
LEMMA ExpireDoneKnows ==
    ASSUME TypeOK, ControlOK, RunKnows, Keeps, StoreEffect, ops' = ops,
           Expiring, NEW ok \in BOOLEAN, ExpireDone(ok)
    PROVE  RunKnows'
<1>1. CASE phase # "remove" /\ ~ok
  <2>1. phase \in {"recover", "batch"} /\ pc \notin {"recover", "batch"}
    BY <1>1, Zenon DEF ControlOK, Expiring
  <2> QED BY <1>1, <2>1, OperationDoneKnows, Zenon DEF ExpireDone
<1>2. CASE ~(phase # "remove" /\ ~ok)
  <2>1. /\ pc' = IF phase = "remove" THEN "remove" ELSE "finish"
        /\ UNCHANGED <<phase, left, cur, todo, act, snap>>
    BY <1>2, Zenon DEF ExpireDone
  <2>2. RecoverMatches' /\ PlanSettled' /\ PlanWanted'
    BY <2>1, SameLoopKnows, Zenon
  <2>3. HandMatches' /\ ExpireSettled'
    BY <2>1, Zenon DEF HandMatches, ExpireSettled, Creating, Expiring, Finishing,
                RunKnows
  <2> QED BY <2>2, <2>3, Zenon DEF RunKnows
<1> QED BY <1>1, <1>2, Zenon

\* Every action leaves the Run with what it has to know for the next call.
LEMMA RunKnowsStep ==
    ASSUME IndInv, AlertsJournalled, LedgerJournalled, OldSettled, RunKnows,
           ServerEffect(Requested), StoreEffect, Keeps, [Next]_vars
    PROVE  RunKnows'
<1> USE LapiAssumption
<1>0. TypeOK /\ ControlOK /\ PlanMatches
  BY Zenon DEF IndInv
<1> DEFINE InLoop == UNCHANGED <<phase, left, cur, todo, act, snap>>
<1>1. ASSUME InLoop PROVE RecoverMatches' /\ PlanSettled' /\ PlanWanted'
  BY <1>0, <1>1, SameLoopKnows, Zenon
<1> HIDE DEF InLoop
<1>2. CASE StartRun
  <2>1. InLoop
    BY <1>2, Zenon DEF StartRun, InLoop
  <2>2. HandMatches' /\ ExpireSettled'
    BY <1>2, Zenon DEF StartRun, HandMatches, ExpireSettled, Creating, Expiring,
                Finishing
  <2> QED BY <1>1, <2>1, <2>2, Zenon DEF RunKnows
<1>3. CASE ListEnforcementObjects
  <2>1. phase' = "none" /\ pc' = "open"
    BY <1>0, <1>3, Zenon DEF ListEnforcementObjects, ControlOK
  <2> QED
    BY <2>1, Zenon
       DEF RunKnows, HandMatches, RecoverMatches, PlanSettled, PlanWanted,
           ExpireSettled, Creating, Expiring, Finishing
<1>4. CASE ReadOpenOperations
  <2>1. /\ phase' = "recover" /\ pc' = "recover" /\ ops' = ops
        /\ cur' = NoToken
        /\ \A t \in Token : left'[t] = IF ops[t].status \in Open
                                       THEN ops[t].status ELSE "none"
    BY <1>0, <1>4, Zenon DEF ReadOpenOperations, ControlOK, storeVars, OpenOperations
  <2>2. RecoverMatches'
    BY <2>1, Zenon DEF RecoverMatches, Open, Unverified
  <2> QED
    BY <2>1, <2>2, Zenon
       DEF RunKnows, HandMatches, PlanSettled, PlanWanted, ExpireSettled,
           Creating, Expiring, Finishing
<1>5. ASSUME NEW t \in Token, Pick(t), left' = [left EXCEPT ![t] = "none"],
             cur' = t, phase' = phase, ops' = ops
      PROVE  /\ phase = "recover" /\ left[t] = ops[t].status
             /\ RecoverMatches' /\ PlanSettled' /\ PlanWanted'
  <2>1. phase = "recover" /\ cur = NoToken
    BY <1>0, <1>5, Zenon DEF Pick, ControlOK
  <2>2. \A u \in Token : left'[u] = IF u = t THEN "none" ELSE left[u]
    BY <1>0, <1>5, Zenon DEF TypeOK, LocalTypeOK
  <2>3. RecoverMatches'
    BY <1>5, <2>1, <2>2, Zenon DEF RecoverMatches, RunKnows
  <2>4. left[t] = ops[t].status
    BY <1>5, <2>1, Zenon DEF RecoverMatches, RunKnows, Pick
  <2> QED BY <1>5, <2>1, <2>3, <2>4, Zenon DEF PlanSettled, PlanWanted
<1>6. ASSUME NEW t \in Token, RecoverVerified(t) PROVE RunKnows'
  <2>1. /\ Pick(t) /\ left' = [left EXCEPT ![t] = "none"] /\ cur' = t
        /\ phase' = phase /\ ops' = ops /\ pc' = "finish"
        /\ left[t] = "verified"
    BY <1>6, Zenon DEF RecoverVerified, storeVars
  <2>2. /\ phase = "recover" /\ left[t] = ops[t].status
        /\ RecoverMatches' /\ PlanSettled' /\ PlanWanted'
    BY <1>5, <2>1, Zenon
  <2>3. HandMatches' /\ ExpireSettled'
    BY <2>1, <2>2, Zenon DEF HandMatches, ExpireSettled, Creating, Expiring, Finishing
  <2> QED BY <2>2, <2>3, Zenon DEF RunKnows
<1>7. ASSUME NEW t \in Token, RecoverFound(t) PROVE RunKnows'
  <2>1. /\ Pick(t) /\ left' = [left EXCEPT ![t] = "none"] /\ cur' = t
        /\ phase' = phase /\ ops' = ops /\ pc' = "record" /\ alerts' = alerts
        /\ left[t] \in Unverified
    BY <1>7, Zenon DEF RecoverFound, storeVars, lapiVars
  <2>2. /\ phase = "recover" /\ left[t] = ops[t].status
        /\ RecoverMatches' /\ PlanSettled' /\ PlanWanted'
    BY <1>5, <2>1, Zenon
  <2>3. alerts[got'].token = t
    BY <1>7, Zenon DEF RecoverFound, FindOperation
  <2>4. HandMatches' /\ ExpireSettled'
    BY <2>1, <2>2, <2>3, Zenon
       DEF HandMatches, ExpireSettled, Creating, Expiring, Finishing
  <2> QED BY <2>2, <2>4, Zenon DEF RunKnows
<1>8. ASSUME NEW t \in Token, RecoverMissing(t) PROVE RunKnows'
  <2>1. /\ Pick(t) /\ left' = [left EXCEPT ![t] = "none"] /\ cur' = t
        /\ phase' = phase /\ ops' = ops /\ pc' = "create"
        /\ left[t] \in Unverified
    BY <1>8, Zenon DEF RecoverMissing, storeVars
  <2>2. /\ phase = "recover" /\ left[t] = ops[t].status
        /\ RecoverMatches' /\ PlanSettled' /\ PlanWanted'
    BY <1>5, <2>1, Zenon
  <2>3. HandMatches' /\ ExpireSettled'
    BY <2>1, <2>2, Zenon DEF HandMatches, ExpireSettled, Creating, Expiring, Finishing
  <2> QED BY <2>2, <2>3, Zenon DEF RunKnows
<1>9. CASE RecoverDone
  <2>1. InLoop /\ pc' = "plan"
    BY <1>9, Zenon DEF RecoverDone, Goto, InLoop
  <2>2. HandMatches' /\ ExpireSettled'
    BY <2>1, Zenon DEF HandMatches, ExpireSettled, Creating, Expiring, Finishing
  <2> QED BY <1>1, <2>1, <2>2, Zenon DEF RunKnows
<1>10. CASE \/ PlanFails \/ RunDone \/ Crash
            \/ \E t \in Token : RecoverUnproven(t)
            \/ \E o \in Object : PlanExpireFails(o)
  BY <1>10, ReturnKnows, Zenon
     DEF PlanFails, RunDone, Crash, RecoverUnproven, PlanExpireFails
<1>11. CASE NoLongerDesired
  <2>1. /\ phase \in {"recover", "batch"} /\ pc \notin {"recover", "batch"}
        /\ cur \in Token /\ SetAccepts(cur)
    BY <1>0, <1>11, Zenon
       DEF NoLongerDesired, ControlOK, RunKnows, HandMatches, Creating,
           SetAccepts
  <2>2. OperationDone(TRUE) /\ ops' = [ops EXCEPT ![cur].status = "failed"]
    BY <1>11, <2>1, Zenon DEF NoLongerDesired, SetOperationStatus
  <2>3. ops'[cur].status \notin Open
    BY <1>0, <2>1, <2>2, StatusMove, ZenonT(60) DEF TypeOK, Open, Unverified
  <2> QED BY <1>0, <2>1, <2>2, <2>3, OperationDoneKnows, Zenon
<1>12. CASE CreateAlert
  <2>1. /\ InLoop /\ pc = "create" /\ pc' = "get" /\ ops' = ops
    BY <1>12, Zenon DEF CreateAlert, InLoop, storeVars
  <2>2. alerts'[got'].token = cur
    <3>1. PICK a \in Alert : createAlerts(CreateRequest, a) /\ got' = a
      BY <1>12, Zenon DEF CreateAlert
    <3>2. Created(CreateRequest, a)
      BY <1>0, <3>1, CreateEffect, Zenon DEF TypeOK
    <3>3. alerts'[a].token = CreateRequest.token
      BY <3>2 DEF Created
    <3>4. CreateRequest.token = cur
      BY Zenon DEF CreateRequest
    <3> QED BY <3>1, <3>3, <3>4, Zenon
  <2>3. cur' = cur
    BY <2>1, Zenon DEF InLoop
  <2>4. HandMatches' /\ ExpireSettled'
    BY <2>1, <2>2, <2>3, Zenon
       DEF HandMatches, ExpireSettled, Creating, Expiring, Finishing, RunKnows
  <2> QED BY <1>1, <2>1, <2>4, Zenon DEF RunKnows
<1>13. CASE CreateAlertFails \/ GetAlertFails
  <2>1. /\ InLoop /\ Creating /\ pc' = "mark" /\ ops' = ops
    BY <1>13, Zenon
       DEF CreateAlertFails, GetAlertFails, Goto, InLoop, storeVars, Creating
  <2>2. HandMatches' /\ ExpireSettled'
    BY <2>1, Zenon
       DEF InLoop, HandMatches, ExpireSettled, Creating, Expiring, Finishing,
           RunKnows
  <2> QED BY <1>1, <2>1, <2>2, Zenon DEF RunKnows
<1>14. CASE GetAlertVerified
  <2>1. /\ InLoop /\ pc = "get" /\ pc' = "record" /\ ops' = ops /\ got' = got
        /\ alerts' = alerts
    BY <1>14, Zenon DEF GetAlertVerified, InLoop, storeVars, lapiVars
  <2>2. HandMatches' /\ ExpireSettled'
    BY <2>1, Zenon
       DEF InLoop, HandMatches, ExpireSettled, Creating, Expiring, Finishing,
           RunKnows
  <2> QED BY <1>1, <2>1, <2>2, Zenon DEF RunKnows
<1>15. CASE MarkAmbiguous \/ RecordFails \/ FinishFails
  <2>1. /\ phase \in {"recover", "batch"} /\ pc \notin {"recover", "batch"}
        /\ OperationDone(FALSE)
    BY <1>0, <1>15, Zenon
       DEF MarkAmbiguous, RecordFails, FinishFails, ControlOK
  <2> QED BY <1>0, <2>1, OperationDoneKnows, Zenon
<1>16. CASE Record
  <2>1. /\ InLoop /\ pc = "record" /\ pc' = "finish" /\ cur \in Token
    BY <1>0, <1>16, Zenon DEF Record, InLoop, ControlOK
  <2>2. ~Recorded(cur)
    BY <2>1, Zenon DEF RunKnows, HandMatches, Creating, Recorded, Unverified
  <2>3. ops' = [ops EXCEPT ![cur].status = "verified"]
    BY <1>16, <2>2, Zenon DEF Record, RecordVerifiedOperation
  <2>4. ops'[cur'].status = "verified"
    BY <1>0, <2>1, <2>3, StatusMove, Zenon DEF TypeOK, InLoop
  <2>5. HandMatches' /\ ExpireSettled'
    BY <2>1, <2>4, Zenon DEF HandMatches, ExpireSettled, Creating, Expiring, Finishing
  <2> QED BY <1>1, <2>1, <2>5, Zenon DEF RunKnows
<1>17. ASSUME NEW o \in Object, FinishItem(o) PROVE RunKnows'
  <2>1. /\ InLoop /\ pc = "finish" /\ cur \in Token /\ o \in Replaced(cur)
        /\ UNCHANGED <<ops, alerts>> /\ phase # "remove"
    BY <1>0, <1>17, Zenon DEF FinishItem, InLoop, ControlOK, storeVars, lapiVars
  <2>2. ops[cur].status = "verified"
    BY <2>1, Zenon DEF RunKnows, HandMatches, Finishing
  <2>3. Completed(alerts[ops[cur].old[o]].token)
    BY <2>1, <2>2, Zenon DEF OldSettled, Open
  <2>4. CASE pc' = pc
    BY <1>1, <2>1, <2>2, <2>4, Zenon
       DEF InLoop, RunKnows, HandMatches, ExpireSettled, Creating, Expiring,
           Finishing
  <2>5. CASE pc' = "expget" /\ exp' = <<ops[cur].old[o], o>>
    <3>1. HandMatches'
      BY <2>1, <2>2, <2>5, Zenon
         DEF InLoop, HandMatches, Creating, Expiring, Finishing, Replaced
    <3>2. ExpireSettled'
      BY <2>1, <2>3, <2>5, Zenon DEF InLoop, ExpireSettled, Completed
    <3> QED BY <1>1, <2>1, <3>1, <3>2, Zenon DEF RunKnows
  <2> QED BY <1>17, <2>4, <2>5, Zenon DEF FinishItem
<1>18. CASE Finish
  <2>1. /\ phase \in {"recover", "batch"} /\ pc \notin {"recover", "batch"}
        /\ cur \in Token /\ OperationDone(TRUE)
        /\ ops' = [ops EXCEPT ![cur].status = "completed"]
    BY <1>0, <1>18, Zenon DEF Finish, ControlOK, CompleteOperation
  <2>2. ops'[cur].status \notin Open
    BY <1>0, <2>1, StatusMove, ZenonT(60) DEF TypeOK, Open, Unverified
  <2> QED BY <1>0, <2>1, <2>2, OperationDoneKnows, Zenon
<1>19. CASE ExpireOver \/ ExpireLive \/ ExpireDecision
  <2>1. /\ InLoop /\ Expiring /\ pc' \in {"expdel", "expmark"} /\ exp' = exp
        /\ UNCHANGED <<ops, alerts>>
    BY <1>19, Zenon
       DEF ExpireOver, ExpireLive, ExpireDecision, Goto, InLoop, Expiring,
           storeVars, lapiVars
  <2>2. HandMatches'
    BY <2>1, Zenon
       DEF InLoop, RunKnows, HandMatches, Creating, Expiring, Finishing,
           Replaced
  <2>3. ExpireSettled'
    BY <2>1, Zenon DEF InLoop, RunKnows, ExpireSettled, Expiring, Completed
  <2> QED BY <1>1, <2>1, <2>2, <2>3, Zenon DEF RunKnows
<1>20. CASE ExpireUnproven \/ ExpireDecisionFails \/ MarkExpiredFails
  <2>1. Expiring /\ ops' = ops /\ ExpireDone(FALSE)
    BY <1>20, Zenon
       DEF ExpireUnproven, ExpireDecisionFails, MarkExpiredFails, Expiring,
           storeVars
  <2> QED BY <1>0, <2>1, ExpireDoneKnows, Zenon
<1>21. CASE MarkExpired
  <2>1. Expiring /\ ops' = ops /\ ExpireDone(TRUE)
    BY <1>21, Zenon DEF MarkExpired, Expiring
  <2> QED BY <1>0, <2>1, ExpireDoneKnows, Zenon
<1>22. CASE Plan
  <2>1. /\ pc' = "batch" /\ phase' = "batch" /\ UNCHANGED <<snap, alerts, ops>>
        /\ \A o \in Object : todo'[o] = PlannedAction(o)
                             /\ act'[o] = ActiveAlert(o)
    BY <1>22, Zenon DEF Plan, lapiVars, storeVars
  <2>2. \A t \in Token : ops[t].status \notin Open
    <3>1. phase = "recover" /\ cur = NoToken /\ left = NoOps
      BY <1>22, Zenon DEF Plan, IndInv, ControlOK, RecoverKnowsOpen
    <3> QED BY <3>1, Zenon DEF RunKnows, RecoverMatches, NoOps
  <2>3. ASSUME NEW o \in Object, todo'[o] \in {"renew", "refresh", "remove"}
        PROVE  act'[o] \in Alert /\ Completed(alerts[act[o]].token)'
    <3> DEFINE b == ActiveAlert(o)
    <3>1. act'[o] = b /\ PlannedAction(o) \in {"renew", "refresh", "remove"}
      BY <2>1, <2>3, Zenon
    <3>2. b # NoAlert
      BY <3>1, Zenon DEF PlannedAction
    <3>3. Active(o) # {} /\ act'[o] = ActiveAlert(o)
      BY <3>1, <3>2, Zenon DEF ActiveAlert
    <3>4. PICK a \in Active(o) : a = act'[o]
      BY <3>3, Zenon DEF ActiveAlert
    <3>5. a \in Alert /\ status[a][o] = "active"
      BY Zenon DEF Active
    <3>6. Recorded(alerts[a].token) /\ alerts[a].token \in Token
      BY <3>5, Zenon DEF LedgerJournalled
    <3>7. Completed(alerts[a].token)
      BY <2>2, <3>6, Zenon DEF Completed, Recorded, Open
    <3> QED BY <2>1, <3>4, <3>5, <3>7, Zenon DEF Completed
  <2>4. PlanSettled'
    BY <2>3, Zenon DEF PlanSettled
  <2>5. PlanWanted'
    BY <2>1, Zenon DEF PlanWanted, PlannedAction
  <2>6. HandMatches' /\ RecoverMatches' /\ ExpireSettled'
    BY <2>1, Zenon
       DEF HandMatches, RecoverMatches, ExpireSettled, Creating, Expiring,
           Finishing
  <2> QED BY <2>4, <2>5, <2>6, Zenon DEF RunKnows
<1>23. ASSUME phase = "batch", phase' = "batch", UNCHANGED <<snap, act>>,
              \A o \in Object :
                \/ todo'[o] \in {todo[o], "none"}
                \/ todo[o] = "renew" /\ todo'[o] = "create"
       PROVE  RecoverMatches' /\ PlanSettled' /\ PlanWanted'
  <2>1. ASSUME NEW o \in Object, todo'[o] \in {"renew", "refresh", "remove"}
        PROVE  act'[o] \in Alert /\ Completed(alerts[act[o]].token)'
    <3>1. PICK a \in Alert : a = act[o] /\ Completed(alerts[a].token)
      BY <1>23, <2>1, Zenon DEF PlanSettled, RunKnows
    <3>2. Completed(alerts[a].token)'
      BY <3>1, CompletedStays, Zenon
    <3> QED BY <1>23, <3>1, <3>2, Zenon
  <2>2. PlanWanted'
    BY <1>23, Zenon DEF PlanWanted, RunKnows
  <2> QED BY <1>23, <2>1, <2>2, Zenon DEF PlanSettled, RecoverMatches
<1>24. ASSUME NEW o \in Object, PlanExpires(o) PROVE RunKnows'
  <2>1. /\ phase = "batch" /\ phase' = "batch" /\ UNCHANGED <<snap, act>>
        /\ pc' = "batch"
        /\ \A q \in Object :
                \/ todo'[q] \in {todo[q], "none"}
                \/ todo[q] = "renew" /\ todo'[q] = "create"
    BY <1>0, <1>24, Zenon DEF PlanExpires, ControlOK, TypeOK, LocalTypeOK
  <2>2. HandMatches' /\ ExpireSettled'
    BY <2>1, Zenon
       DEF HandMatches, ExpireSettled, Creating, Expiring, Finishing
  <2> QED BY <1>23, <2>1, <2>2, Zenon DEF RunKnows
<1>25. ASSUME NEW k \in {"create", "refresh"}, NEW f \in Feed,
              NEW b \in SUBSET Object, NEW t \in Token, BatchBegins(k, f, b, t)
       PROVE  RunKnows'
  <2>1. /\ phase = "batch" /\ phase' = "batch" /\ UNCHANGED <<snap, act>>
        /\ pc' = "create" /\ cur' = t
        /\ \A q \in Object : todo'[q] \in {todo[q], "none"}
    BY <1>0, <1>25, Zenon DEF BatchBegins, ControlOK, Dispatched
  <2>2. ops'[t].status = "pending"
    BY <1>0, <1>25, Zenon
       DEF BatchBegins, BeginOperation, TypeOK, StoreTypeOK
  <2>3. HandMatches' /\ ExpireSettled'
    BY <2>1, <2>2, Zenon
       DEF HandMatches, ExpireSettled, Creating, Expiring, Finishing, Unverified
  <2> QED BY <1>23, <2>1, <2>3, Zenon DEF RunKnows
<1>26. ASSUME NEW k \in {"create", "refresh"}, NEW f \in Feed,
              NEW b \in SUBSET Object, BatchFails(k, f, b)
       PROVE  RunKnows'
  <2>1. /\ phase = "batch" /\ phase' = "batch" /\ UNCHANGED <<snap, act>>
        /\ pc' = "batch"
        /\ \A q \in Object : todo'[q] \in {todo[q], "none"}
    BY <1>0, <1>26, Zenon DEF BatchFails, ControlOK, Dispatched
  <2>2. HandMatches' /\ ExpireSettled'
    BY <2>1, Zenon
       DEF HandMatches, ExpireSettled, Creating, Expiring, Finishing
  <2> QED BY <1>23, <2>1, <2>2, Zenon DEF RunKnows
<1>27. CASE BatchesDone
  <2>1. CASE err
    BY <1>27, <2>1, ReturnKnows, Zenon DEF BatchesDone
  <2>2. CASE ~err
    <3>1. /\ phase = "batch" /\ phase' = "remove" /\ pc' = "remove"
          /\ UNCHANGED <<snap, act, todo, alerts, ops>>
      BY <1>0, <1>27, <2>2, Zenon
         DEF BatchesDone, ControlOK, lapiVars, storeVars
    <3>2. PlanSettled' /\ PlanWanted'
      BY <3>1, Zenon DEF PlanSettled, PlanWanted, Completed, RunKnows
    <3> QED
      BY <3>1, <3>2, Zenon
         DEF RunKnows, HandMatches, RecoverMatches, ExpireSettled, Creating,
             Expiring, Finishing
  <2> QED BY <2>1, <2>2, Zenon
<1>28. ASSUME NEW o \in Object, Remove(o) PROVE RunKnows'
  <2>1. /\ phase = "remove" /\ phase' = "remove" /\ pc' = "expget"
        /\ UNCHANGED <<snap, act, alerts, ops>> /\ exp' = <<act[o], o>>
        /\ todo[o] = "remove"
        /\ \A q \in Object : todo'[q] \in {todo[q], "none"}
    BY <1>0, <1>28, Zenon
       DEF Remove, ControlOK, lapiVars, storeVars, TypeOK, LocalTypeOK
  <2>2. PlanSettled' /\ PlanWanted'
    BY <2>1, Zenon DEF PlanSettled, PlanWanted, Completed, RunKnows
  <2>3. Completed(alerts[act[o]].token) /\ ~snap[o].desired
    BY <2>1, Zenon DEF PlanSettled, PlanWanted, RunKnows
  <2>4. ExpireSettled'
    BY <2>1, <2>3, Zenon DEF ExpireSettled, Completed
  <2>5. HandMatches' /\ RecoverMatches'
    BY <2>1, Zenon
       DEF HandMatches, RecoverMatches, Creating, Expiring, Finishing
  <2> QED BY <2>2, <2>4, <2>5, Zenon DEF RunKnows
<1>29. CASE Environment \/ UNCHANGED vars
  <2>1. UNCHANGED <<pc, phase, left, cur, todo, act, snap, got, exp, ops>>
    BY <1>29, Zenon DEF Environment, vars, localVars, storeVars
  <2>2. InLoop
    BY <2>1, Zenon DEF InLoop
  <2>3. ExpireSettled'
    <3>1. CASE Expiring
      <4>1. PICK a \in Alert, o \in Object : exp = <<a, o>>
        BY <1>0, <3>1 DEF ControlOK, Expiring
      <4>2. Completed(alerts[a].token)'
        BY <3>1, <4>1, CompletedStays, Zenon DEF RunKnows, ExpireSettled
      <4> QED BY <2>1, <4>1, <4>2, Zenon DEF RunKnows, ExpireSettled, Expiring
    <3>2. CASE ~Expiring
      BY <2>1, <3>2, Zenon DEF ExpireSettled, Expiring
    <3> QED BY <3>1, <3>2, Zenon
  <2>4. pc \in {"get", "record"} => alerts'[got].token = cur
    <3>1. SUFFICES ASSUME pc \in {"get", "record"}
                   PROVE  alerts'[got].token = cur
      BY Zenon
    <3>2. got \in Alert /\ cur \in Token /\ alerts[got].token = cur
      BY <1>0, <3>1, Zenon DEF ControlOK, RunKnows, HandMatches
    <3> QED BY <3>2, Zenon DEF Keeps, SameContent
  <2>5. HandMatches'
    BY <2>1, <2>4, Zenon
       DEF RunKnows, HandMatches, Creating, Expiring, Finishing, Replaced
  <2> QED BY <1>1, <2>2, <2>3, <2>5, Zenon DEF RunKnows
<1> QED
  BY <1>2, <1>3, <1>4, <1>6, <1>7, <1>8, <1>9, <1>10, <1>11, <1>12, <1>13,
     <1>14, <1>15, <1>16, <1>17, <1>18, <1>19, <1>20, <1>21, <1>22, <1>24,
     <1>25, <1>26, <1>27, <1>28, <1>29, Zenon
     DEF Next, RunStep, Recover, CreateForOperation, FinishVerified,
         ExpireOwned, PlanAndBatch

\* A step that ends inside expireOwned was there before, or has just taken a
\* decision from finishVerified or from the removal loop.
LEMMA ExpiringBefore ==
    ASSUME ControlOK, [Next]_vars, Expiring'
    PROVE  \/ \E o \in Object :
                /\ pc = "finish" /\ o \in items /\ items' = items \ {o}
                /\ exp' = <<ops[cur].old[o], o>>
                /\ status[ops[cur].old[o]][o] \in Live
                /\ UNCHANGED <<phase, cur, ops, status, alerts, until>>
           \/ \E o \in Object : Remove(o)
           \/ /\ Expiring
              /\ UNCHANGED <<phase, cur, items, exp, ops, status>>
<1> USE DEF Expiring
<1>1. CASE \E o \in Object : FinishItem(o)
  BY <1>1, Zenon DEF FinishItem, storeVars, lapiVars
<1>2. CASE ExpireOver \/ ExpireLive \/ ExpireDecision
  BY <1>2, Zenon DEF ExpireOver, ExpireLive, ExpireDecision, Goto, storeVars
<1>3. CASE Environment \/ UNCHANGED vars
  BY <1>3, Zenon DEF Environment, vars, localVars, storeVars
<1>4. CASE StartRun \/ Recover \/ Crash
  BY <1>4, Zenon
     DEF StartRun, Crash, Recover, ListEnforcementObjects, ReadOpenOperations,
         RecoverVerified, RecoverFound, RecoverUnproven, RecoverMissing,
         RecoverDone, Return, Goto
<1>5. ASSUME NEW ok, OperationDone(ok), phase \in {"recover", "batch"}
      PROVE  FALSE
  BY <1>5, Zenon DEF OperationDone, Return
<1>6. ASSUME NEW ok, ExpireDone(ok), Expiring
      PROVE  FALSE
  BY <1>5, <1>6, Zenon DEF ExpireDone, ControlOK
<1>7. CASE CreateForOperation \/ Finish \/ FinishFails
  <2>1. CASE NoLongerDesired \/ MarkAmbiguous \/ RecordFails \/ Finish
             \/ FinishFails
    <3>1. phase \in {"recover", "batch"} /\ \E ok \in BOOLEAN : OperationDone(ok)
      BY <2>1, Zenon
         DEF NoLongerDesired, MarkAmbiguous, RecordFails, Finish, FinishFails,
             ControlOK
    <3> QED BY <1>5, <3>1, Zenon
  <2>2. CASE CreateAlert \/ CreateAlertFails \/ GetAlertVerified
             \/ GetAlertFails \/ Record
    BY <2>2, Zenon
       DEF CreateAlert, CreateAlertFails, GetAlertVerified, GetAlertFails,
           Record, Goto
  <2> QED BY <1>7, <2>1, <2>2, Zenon DEF CreateForOperation
<1>8. CASE ExpireUnproven \/ ExpireDecisionFails \/ MarkExpired
           \/ MarkExpiredFails
  <2>1. Expiring /\ \E ok \in BOOLEAN : ExpireDone(ok)
    BY <1>8, Zenon
       DEF ExpireUnproven, ExpireDecisionFails, MarkExpired, MarkExpiredFails
  <2> QED BY <1>6, <2>1, Zenon
<1>9. CASE PlanAndBatch
  <2>1. CASE Plan \/ PlanFails \/ BatchesDone \/ RunDone
    BY <2>1, Zenon DEF Plan, PlanFails, BatchesDone, RunDone, Return
  <2>2. ASSUME NEW o \in Object, PlanExpires(o) \/ PlanExpireFails(o)
        PROVE  FALSE
    BY <2>2, Zenon DEF PlanExpires, PlanExpireFails, Return
  <2>3. ASSUME NEW k \in {"create", "refresh"}, NEW f \in Feed,
               NEW b \in SUBSET Object, NEW t \in Token,
               BatchBegins(k, f, b, t)
        PROVE  FALSE
    BY <2>3, Zenon DEF BatchBegins
  <2>4. ASSUME NEW k \in {"create", "refresh"}, NEW f \in Feed,
               NEW b \in SUBSET Object, BatchFails(k, f, b)
        PROVE  FALSE
    BY <2>4, Zenon DEF BatchFails, Return
  <2> QED BY <1>9, <2>1, <2>2, <2>3, <2>4, Zenon DEF PlanAndBatch
<1> QED
  BY <1>1, <1>2, <1>3, <1>4, <1>7, <1>8, <1>9, Zenon
     DEF Next, RunStep, FinishVerified, ExpireOwned

\* While finishVerified has a replaced decision expired, its row is not yet
\* marked.
ExpireLiveRow ==
    Expiring /\ phase # "remove" => status[exp[1]][exp[2]] \in Live

\* The row is marked by the last step of expireOwned only.
LEMMA ExpireLiveRowStep ==
    ASSUME ControlOK, ExpireLiveRow, [Next]_vars
    PROVE  ExpireLiveRow'
<1>1. SUFFICES ASSUME Expiring', phase' # "remove"
               PROVE  (status[exp[1]][exp[2]])' \in Live
  BY Zenon DEF ExpireLiveRow
<1>2. ASSUME NEW o \in Object, Remove(o) PROVE FALSE
  BY <1>1, <1>2, Zenon DEF Remove, ControlOK
<1>3. ASSUME NEW o \in Object, exp' = <<ops[cur].old[o], o>>,
             status[ops[cur].old[o]][o] \in Live, status' = status
      PROVE  (status[exp[1]][exp[2]])' \in Live
  BY <1>3, Zenon
<1>4. ASSUME Expiring, UNCHANGED <<phase, exp, status>>
      PROVE  (status[exp[1]][exp[2]])' \in Live
  BY <1>1, <1>4, Zenon DEF ExpireLiveRow
<1> QED BY <1>1, <1>2, <1>3, <1>4, ExpiringBefore, Zenon

-----------------------------------------------------------------------------
(* The invariant of replacements, and the DELETE requests it justifies.    *)

DeletesSettled ==
    \A d \in deletes : Completed(alerts[d[1]].token)

ReplaceInv ==
    /\ IndInv
    /\ AlertsJournalled /\ LedgerJournalled
    /\ OldSettled /\ DeletesSettled
    /\ ReplacementActive /\ ReplacementLasts
    /\ RunKnows /\ ExpireLiveRow

\* Every DELETE on its way or about to be sent is for a settled decision.
LEMMA DoomedAreSettled ==
    ASSUME DeletesSettled, ExpireSettled
    PROVE  DoomedSettled
  BY Zenon DEF DeletesSettled, ExpireSettled, DoomedSettled, Doomed

\* Nothing is journalled, recorded or planned to begin with.
LEMMA ReplaceInit ==
    ASSUME Init
    PROVE  ReplaceInv
<1> USE LapiAssumption
<1>1. IndInv
  BY InitInd, Zenon
<1>2. /\ \A a \in Alert :
            alerts[a].state = "unused" /\ alerts[a].token = NoToken
      /\ \A a \in Alert, o \in Object : until[a][o] = 0
      /\ posts = {} /\ deletes = {} /\ clock = 0
  BY Zenon DEF Init, LapiInit
<1>3. /\ \A t \in Token : ops[t].status = "free"
      /\ \A a \in Alert, o \in Object : status[a][o] = "none"
  BY Zenon DEF Init, StoreInit
<1>4. pc = "idle" /\ phase = "none"
  BY Zenon DEF Init, LocalInit
<1>5. AlertsJournalled /\ LedgerJournalled /\ DeletesSettled
  BY <1>2, <1>3, Zenon DEF AlertsJournalled, LedgerJournalled, DeletesSettled
<1>6. OldSettled /\ ReplacementActive
  BY <1>3, Zenon DEF OldSettled, ReplacementActive, Open, Unverified
<1>7. ReplacementLasts
  BY <1>2, <1>3 DEF ReplacementLasts, Open, Unverified
<1>8. RunKnows /\ ExpireLiveRow
  BY <1>4, Zenon
     DEF RunKnows, HandMatches, RecoverMatches, PlanSettled, PlanWanted,
         ExpireSettled, ExpireLiveRow, Creating, Expiring, Finishing
<1> QED BY <1>1, <1>5, <1>6, <1>7, <1>8, Zenon DEF ReplaceInv

\* Every step keeps the invariant of replacements.
LEMMA ReplaceStep ==
    ASSUME ReplaceInv, [Next]_vars
    PROVE  ReplaceInv'
<1> USE DEF ReplaceInv
<1>1. TypeOK /\ ControlOK /\ PlanMatches /\ PlanNames
  BY Zenon DEF IndInv, PlanMatches
<1>2. IndInv'
  BY IndStep, Zenon
<1>3. TypeOK'
  BY <1>2, Zenon DEF IndInv
<1>4. ServerEffect(Requested) /\ StoreEffect
  BY <1>1, ServerStep, StoreStep, Zenon
<1>5. Keeps
  BY <1>4, KeepsStep, Zenon
<1>6. DoomedSettled
  BY DoomedAreSettled, Zenon DEF RunKnows
<1>7. AlertsJournalled' /\ LedgerJournalled'
  BY <1>1, <1>4, AlertsJournalledStep, LedgerJournalledStep, Zenon DEF RunKnows
<1>8. OldSettled' /\ ReplacementActive'
  BY <1>1, <1>3, <1>4, <1>5, <1>6, OldSettledStep, ReplacementActiveStep, Zenon
     DEF RunKnows
<1>9. ReplacementLasts'
  BY <1>1, <1>3, <1>4, <1>5, <1>6, ReplacementLastsStep, Zenon DEF RunKnows
<1>10. RunKnows'
  BY <1>4, <1>5, RunKnowsStep, Zenon
<1>11. DeletesSettled'
  <2>1. ASSUME NEW d \in deletes' PROVE Completed(alerts[d[1]].token)'
    <3>1. PICK a \in Alert, o \in Object : d = <<a, o>>
      BY <1>3 DEF TypeOK, LapiTypeOK
    <3>2. Completed(alerts[a].token)
      BY <1>4, <1>6, <3>1, Zenon DEF ServerEffect, DoomedSettled
    <3>3. Completed(alerts[a].token)'
      BY <1>5, <3>2, CompletedStays, Zenon
    <3> QED BY <3>1, <3>3, Zenon
  <2> QED BY <2>1, Zenon DEF DeletesSettled
<1>12. ExpireLiveRow'
  BY <1>1, ExpireLiveRowStep, Zenon
<1> QED BY <1>2, <1>7, <1>8, <1>9, <1>10, <1>11, <1>12, Zenon

\* The invariant of replacements holds in every reachable state.
LEMMA ReplaceInductive ==
    Spec => []ReplaceInv
  BY ReplaceInit, ReplaceStep, PTL DEF Spec

\* expireOwned never ends a decision of a desired object without a verified
\* replacement that lasts at least as long as it would have, whatever was
\* lost, late or interrupted before.
THEOREM DeleteCovered ==
    Spec => []DeleteIsCovered
<1>1. ASSUME ReplaceInv PROVE DeleteIsCovered
  <2>1. SUFFICES ASSUME pc = "expdel", snap[exp[2]].desired
                 PROVE  /\ status[exp[1]][exp[2]] = "expiring"
                        /\ \E b \in Alert :
                            /\ status[b][exp[2]] = "active"
                            /\ alerts[b].state = "ours"
                               /\ until[exp[1]][exp[2]] > clock
                                => until[b][exp[2]] >= until[exp[1]][exp[2]]
    BY Zenon DEF DeleteIsCovered
  <2> USE <1>1 DEF ReplaceInv, RunKnows
  <2>2. Expiring /\ phase # "remove"
    BY <2>1, Zenon DEF Expiring, ExpireSettled
  <2>3. /\ cur \in Token /\ ops[cur].status = "verified"
        /\ exp[2] \in Replaced(cur) /\ exp[1] = ops[cur].old[exp[2]]
        /\ status[exp[1]][exp[2]] \in Live
    BY <2>2, Zenon
       DEF IndInv, ControlOK, HandMatches, ExpireLiveRow, Finishing, Expiring
  <2>4. PICK o \in Object, a \in Alert : o = exp[2] /\ a = exp[1]
    BY <2>2, ZenonT(60) DEF IndInv, ControlOK, Expiring
  <2>5. status[a][o] = "expiring"
    BY <2>3, <2>4 DEF ReplacementActive, Live
  <2>6. PICK b \in Alert : status[b][o] = "active" /\ alerts[b].token = cur
    BY <2>3, <2>4 DEF ReplacementActive
  <2>7. until[a][o] <= clock \/ until[b][o] >= until[a][o]
    BY <2>3, <2>4, <2>6, Zenon DEF ReplacementLasts, Open
  <2>8. clock \in Nat /\ until[a][o] \in Nat
    BY Zenon DEF IndInv, TypeOK, LapiTypeOK
  <2>9. until[a][o] > clock => until[b][o] >= until[a][o]
    BY <2>7, <2>8
  <2> QED BY <2>4, <2>5, <2>6, <2>9, Zenon
<1> QED BY <1>1, ReplaceInductive, PTL

-----------------------------------------------------------------------------
(* The loops of a Run that has met no error.                               *)

\* A step that changes neither plan nor journal nor ledger and stays where
\* the Run is.
Quiet ==
    /\ UNCHANGED <<phase, err, now, snap, act, todo, cur, items, exp, ops,
                   status, expires>>
    /\ Creating' <=> Creating
    /\ Expiring' <=> Expiring
    /\ Finishing' <=> Finishing

\* A Run that is in the batch or removal loop without an error got there from
\* planning, or was there without an error and took one of the steps named.
LEMMA LoopBefore ==
    ASSUME ControlOK, [Next]_vars, phase' \in {"batch", "remove"}, ~err'
    PROVE  \/ Plan
           \/ /\ phase \in {"batch", "remove"} /\ ~err
              /\ UNCHANGED <<now, snap, act>>
              /\ \/ Quiet
                 \/ \E k \in {"create", "refresh"}, f \in Feed,
                       b \in SUBSET Object, t \in Token : BatchBegins(k, f, b, t)
                 \/ \E o \in Object : PlanExpires(o) \/ Remove(o) \/ FinishItem(o)
                 \/ NoLongerDesired \/ Record \/ Finish \/ MarkExpired
                 \/ BatchesDone
<1>1. CASE StartRun \/ Recover \/ Crash \/ PlanFails \/ RunDone
           \/ \E o \in Object : PlanExpireFails(o)
  <2>1. phase' \in {"none", "recover"}
    BY <1>1, Zenon
       DEF StartRun, Recover, Crash, PlanFails, RunDone, PlanExpireFails,
           ListEnforcementObjects, ReadOpenOperations, RecoverVerified,
           RecoverFound, RecoverUnproven, RecoverMissing, RecoverDone, Return,
           Goto, Pick, ControlOK
  <2> QED BY <2>1, Zenon
<1>2. ASSUME OperationDone(FALSE), phase \in {"recover", "batch"} PROVE FALSE
  BY <1>2, Zenon DEF OperationDone, Return
<1>3. ASSUME ExpireDone(FALSE), Expiring PROVE FALSE
  BY <1>2, <1>3, Zenon DEF ExpireDone, ControlOK, Expiring
<1>4. CASE MarkAmbiguous \/ RecordFails \/ FinishFails
  BY <1>2, <1>4, Zenon DEF MarkAmbiguous, RecordFails, FinishFails, ControlOK
<1>5. CASE ExpireUnproven \/ ExpireDecisionFails \/ MarkExpiredFails
  BY <1>3, <1>5, Zenon
     DEF ExpireUnproven, ExpireDecisionFails, MarkExpiredFails, Expiring
<1>6. CASE \E k \in {"create", "refresh"}, f \in Feed, b \in SUBSET Object :
                BatchFails(k, f, b)
  BY <1>6, Zenon DEF BatchFails
<1>7. ASSUME Quiet
      PROVE  phase \in {"batch", "remove"} /\ ~err /\ UNCHANGED <<now, snap, act>>
  BY <1>7, Zenon DEF Quiet
<1>8. CASE Environment \/ UNCHANGED vars
  <2>1. Quiet
    BY <1>8, Zenon
       DEF Environment, vars, localVars, storeVars, Quiet, Creating, Expiring,
           Finishing
  <2> QED BY <1>7, <2>1, Zenon
<1>9. CASE CreateAlert \/ CreateAlertFails \/ GetAlertVerified \/ GetAlertFails
  <2>1. Quiet
    BY <1>9, Zenon
       DEF CreateAlert, CreateAlertFails, GetAlertVerified, GetAlertFails, Goto,
           storeVars, Quiet, Creating, Expiring, Finishing
  <2> QED BY <1>7, <2>1, Zenon
<1>10. CASE ExpireOver \/ ExpireLive \/ ExpireDecision
  <2>1. Quiet
    BY <1>10, Zenon
       DEF ExpireOver, ExpireLive, ExpireDecision, Goto, storeVars, Quiet,
           Creating, Expiring, Finishing
  <2> QED BY <1>7, <2>1, Zenon
<1>11. CASE NoLongerDesired \/ Finish
  <2>1. OperationDone(TRUE)
    BY <1>2, <1>11, Zenon DEF NoLongerDesired, Finish, ControlOK
  <2>2. phase = phase' /\ UNCHANGED <<now, snap, act>> /\ ~err
    BY <2>1, Zenon DEF OperationDone
  <2> QED BY <1>11, <2>2, Zenon
<1>12. CASE Record \/ \E o \in Object : Remove(o) \/ FinishItem(o)
                                        \/ PlanExpires(o)
  BY <1>12, Zenon DEF Record, Remove, FinishItem, PlanExpires
<1>13. CASE MarkExpired
  <2>1. phase = phase' /\ UNCHANGED <<now, snap, act>> /\ ~err
    BY <1>13, Zenon DEF MarkExpired, ExpireDone
  <2> QED BY <1>13, <2>1, Zenon
<1>14. CASE BatchesDone
  <2>1. ~err /\ UNCHANGED <<now, snap, act>> /\ phase = "batch"
    BY <1>14, Zenon DEF BatchesDone, Return, ControlOK
  <2> QED BY <1>14, <2>1, Zenon
<1>15. ASSUME NEW k \in {"create", "refresh"}, NEW f \in Feed,
              NEW b \in SUBSET Object, NEW t \in Token, BatchBegins(k, f, b, t)
       PROVE  phase \in {"batch", "remove"} /\ ~err
              /\ UNCHANGED <<now, snap, act>>
  BY <1>15, Zenon DEF BatchBegins
<1> QED
  BY <1>1, <1>4, <1>5, <1>6, <1>8, <1>9, <1>10, <1>11, <1>12, <1>13, <1>14,
     <1>15, Zenon
     DEF Next, RunStep, CreateForOperation, FinishVerified, ExpireOwned,
         PlanAndBatch

\* The objects of a batch are wanted while their alert is being created.
BatchWanted ==
    phase = "batch" /\ Creating => \A o \in ops[cur].items : snap[o].desired

\* A batch is made of planned objects, and what the Run wants is fixed.
LEMMA BatchWantedStep ==
    ASSUME TypeOK, ControlOK, RunKnows, BatchWanted, Keeps, [Next]_vars
    PROVE  BatchWanted'
<1>1. SUFFICES ASSUME phase' = "batch", Creating'
               PROVE  \A o \in ops'[cur'].items : snap'[o].desired
  BY Zenon DEF BatchWanted
<1>2. ASSUME NEW k \in {"create", "refresh"}, NEW f \in Feed,
             NEW b \in SUBSET Object, NEW t \in Token, BatchBegins(k, f, b, t)
      PROVE  \A o \in ops'[cur'].items : snap'[o].desired
  <2>1. /\ phase = "batch" /\ snap' = snap /\ cur' = t
        /\ \A o \in b : todo[o] = k
    BY <1>2, Zenon DEF BatchBegins, ControlOK, IsBatch, Group
  <2>2. ops'[t].items = b
    BY <1>2, Zenon DEF BatchBegins, BeginOperation, TypeOK, StoreTypeOK
  <2>3. \A o \in b : snap[o].desired
    BY <2>1, Zenon DEF RunKnows, PlanWanted
  <2> QED BY <2>1, <2>2, <2>3, Zenon
<1>3. ASSUME phase = "batch", Creating, UNCHANGED <<cur, snap>>
      PROVE  \A o \in ops'[cur'].items : snap'[o].desired
  <2>1. cur \in Token /\ ops[cur].status # "free"
    BY <1>3, Zenon DEF ControlOK, Creating, RunKnows, HandMatches, Unverified
  <2>2. ops'[cur].items = ops[cur].items
    BY <2>1, Zenon DEF Keeps
  <2> QED BY <1>3, <2>2, Zenon DEF BatchWanted
<1>4. CASE Environment \/ UNCHANGED vars
  <2>1. UNCHANGED <<pc, phase, cur, snap>>
    BY <1>4, Zenon DEF Environment, vars, localVars
  <2> QED BY <1>1, <1>3, <2>1, Zenon DEF Creating
<1>5. CASE CreateAlert \/ CreateAlertFails \/ GetAlertVerified \/ GetAlertFails
  <2>1. UNCHANGED <<phase, cur, snap>> /\ Creating
    BY <1>5, Zenon
       DEF CreateAlert, CreateAlertFails, GetAlertVerified, GetAlertFails, Goto,
           Creating
  <2> QED BY <1>1, <1>3, <2>1, Zenon
<1>6. ASSUME NEW ok, OperationDone(ok), phase \in {"recover", "batch"}
      PROVE  FALSE
  BY <1>1, <1>6, Zenon DEF OperationDone, Return, Creating
<1>7. ASSUME NEW ok, ExpireDone(ok), Expiring
      PROVE  FALSE
  BY <1>1, <1>6, <1>7, Zenon DEF ExpireDone, ControlOK, Expiring, Creating
<1>8. CASE NoLongerDesired \/ MarkAmbiguous \/ RecordFails \/ Finish
           \/ FinishFails
  BY <1>6, <1>8, Zenon
     DEF NoLongerDesired, MarkAmbiguous, RecordFails, Finish, FinishFails,
         ControlOK
<1>9. CASE ExpireUnproven \/ ExpireDecisionFails \/ MarkExpired
           \/ MarkExpiredFails
  BY <1>7, <1>9, Zenon
     DEF ExpireUnproven, ExpireDecisionFails, MarkExpired, MarkExpiredFails,
         Expiring
<1>10. CASE StartRun \/ Recover \/ Crash
  <2>1. phase' \in {"none", "recover"}
    BY <1>10, Zenon
       DEF StartRun, Recover, Crash, ListEnforcementObjects, ReadOpenOperations,
           RecoverVerified, RecoverFound, RecoverUnproven, RecoverMissing,
           RecoverDone, Return, Goto, Pick, ControlOK
  <2> QED BY <1>1, <2>1, Zenon
<1>11. CASE Record \/ ExpireOver \/ ExpireLive \/ ExpireDecision
            \/ \E o \in Object : FinishItem(o)
  BY <1>1, <1>11, Zenon
     DEF Record, ExpireOver, ExpireLive, ExpireDecision, FinishItem, Goto,
         Creating
<1>12. CASE Plan \/ PlanFails \/ BatchesDone \/ RunDone
            \/ (\E o \in Object : PlanExpires(o) \/ PlanExpireFails(o)
                                  \/ Remove(o))
            \/ (\E k \in {"create", "refresh"}, f \in Feed,
                   b \in SUBSET Object : BatchFails(k, f, b))
  <2>1. pc' \in {"batch", "idle", "remove", "expget"}
    BY <1>12, Zenon
       DEF Plan, PlanFails, BatchesDone, RunDone, PlanExpires, PlanExpireFails,
           Remove, BatchFails, Return
  <2> QED BY <1>1, <2>1, Zenon DEF Creating
<1> QED
  BY <1>2, <1>4, <1>5, <1>8, <1>9, <1>10, <1>11, <1>12, Zenon
     DEF Next, RunStep, CreateForOperation, FinishVerified, ExpireOwned,
         PlanAndBatch

-----------------------------------------------------------------------------
(* Objects that every plan wants.                                          *)

Steady(o) == \A p \in Plans : p[o].desired

\* A Run that has read the objects wants those that every plan wants.
SteadyWanted ==
    /\ pc = "list" => objects \in Plans
    /\ pc \notin {"idle", "list"} =>
            \A o \in Object : Steady(o) => snap[o].desired

\* A Run reads the time, then the objects, and neither again.
ReadOnce ==
    /\ now' = now \/ (now' = clock /\ pc' = "list" /\ clock' = clock)
    /\ pc' = "list" => \/ pc = "list" /\ objects' = objects
                       \/ objects' \in Plans
    /\ pc' \notin {"idle", "list"} =>
            \/ pc = "list" /\ snap' = objects
            \/ pc \notin {"idle", "list"} /\ snap' = snap

\* Every action reads as described.
LEMMA ReadOnceStep ==
    ASSUME TypeOK, ControlOK, [Next]_vars
    PROVE  ReadOnce
<1> DEFINE Later == /\ now' = now /\ pc' # "list" /\ pc \notin {"idle", "list"}
                    /\ snap' = snap
<1>1. ASSUME Later PROVE ReadOnce
  BY <1>1, Zenon DEF ReadOnce
<1>2. ASSUME Return PROVE ReadOnce
  BY <1>2, Zenon DEF Return, ReadOnce
<1>3. ASSUME NEW ok, OperationDone(ok), pc \notin {"idle", "list"}
      PROVE  ReadOnce
  <2>1. phase # "list"
    BY Zenon DEF TypeOK, LocalTypeOK
  <2> QED BY <1>1, <1>2, <1>3, <2>1, Zenon DEF OperationDone
<1>4. ASSUME NEW ok, ExpireDone(ok), Expiring PROVE ReadOnce
  <2>1. pc \notin {"idle", "list"}
    BY <1>4, Zenon DEF Expiring
  <2> QED BY <1>1, <1>3, <1>4, <2>1, Zenon DEF ExpireDone
<1>5. CASE StartRun
  BY <1>5, Zenon DEF StartRun, ApplyEnforcementPlan, lapiVars, ReadOnce
<1>6. CASE ListEnforcementObjects
  BY <1>6, Zenon DEF ListEnforcementObjects, ReadOnce
<1>7. CASE Environment \/ UNCHANGED vars
  BY <1>7, Zenon DEF Environment, vars, localVars, storeVars, ReadOnce
<1>8. CASE \/ PlanFails \/ RunDone \/ Crash
           \/ \E t \in Token : RecoverUnproven(t)
           \/ \E o \in Object : PlanExpireFails(o)
  BY <1>2, <1>8, Zenon
     DEF PlanFails, RunDone, Crash, RecoverUnproven, PlanExpireFails
<1>9. CASE NoLongerDesired \/ MarkAmbiguous \/ RecordFails \/ Finish
           \/ FinishFails
  BY <1>3, <1>9, Zenon
     DEF NoLongerDesired, MarkAmbiguous, RecordFails, Finish, FinishFails
<1>10. CASE ExpireUnproven \/ ExpireDecisionFails \/ MarkExpired
            \/ MarkExpiredFails
  BY <1>4, <1>10, Zenon
     DEF ExpireUnproven, ExpireDecisionFails, MarkExpired, MarkExpiredFails,
         Expiring
<1>11. CASE ReadOpenOperations \/ RecoverDone
            \/ \E t \in Token : RecoverVerified(t) \/ RecoverFound(t)
                                \/ RecoverMissing(t)
  <2>1. Later
    BY <1>11, Zenon
       DEF ReadOpenOperations, RecoverDone, RecoverVerified, RecoverFound,
           RecoverMissing, Pick, Goto
  <2> QED BY <1>1, <2>1, Zenon
<1>12. CASE CreateAlert \/ CreateAlertFails \/ GetAlertVerified
            \/ GetAlertFails \/ Record \/ ExpireOver \/ ExpireLive
            \/ ExpireDecision \/ \E o \in Object : FinishItem(o)
  <2>1. Later
    BY <1>12, Zenon
       DEF CreateAlert, CreateAlertFails, GetAlertVerified, GetAlertFails,
           Record, ExpireOver, ExpireLive, ExpireDecision, FinishItem, Goto
  <2> QED BY <1>1, <2>1, Zenon
<1>13. CASE Plan \/ \E o \in Object : PlanExpires(o) \/ Remove(o)
  <2>1. Later
    BY <1>13, Zenon DEF Plan, PlanExpires, Remove
  <2> QED BY <1>1, <2>1, Zenon
<1>14. CASE BatchesDone
  <2>1. CASE err
    BY <1>2, <1>14, <2>1, Zenon DEF BatchesDone
  <2>2. CASE ~err
    BY <1>1, <1>14, <2>2, Zenon DEF BatchesDone
  <2> QED BY <2>1, <2>2, Zenon
<1>15. ASSUME NEW k \in {"create", "refresh"}, NEW f \in Feed,
              NEW b \in SUBSET Object,
              \/ BatchFails(k, f, b)
              \/ \E t \in Token : BatchBegins(k, f, b, t)
       PROVE  ReadOnce
  BY <1>1, <1>15, Zenon DEF BatchFails, BatchBegins
<1> QED
  BY <1>5, <1>6, <1>7, <1>8, <1>9, <1>10, <1>11, <1>12, <1>13, <1>14, <1>15,
     Zenon
     DEF Next, RunStep, Recover, CreateForOperation, FinishVerified,
         ExpireOwned, PlanAndBatch

\* A Run goes on wanting them.
LEMMA SteadyWantedStep ==
    ASSUME SteadyWanted, ReadOnce
    PROVE  SteadyWanted'
  BY Zenon DEF SteadyWanted, ReadOnce, Steady

\* No DELETE is on its way for an active decision of such an object.
DeletesInactive ==
    \A d \in deletes : Steady(d[2]) =>
        status[d[1]][d[2]] \in {"expiring", "expired"}

\* Nor is one about to be sent.
LEMMA DoomedInactive ==
    ASSUME ReplaceInv, SteadyWanted, DeletesInactive,
           NEW d \in Doomed, Steady(d[2])
    PROVE  status[d[1]][d[2]] \in {"expiring", "expired"}
<1>1. CASE d \in deletes
  BY <1>1, Zenon DEF DeletesInactive
<1>2. CASE Expiring /\ d = exp
  <2> USE DEF ReplaceInv, RunKnows
  <2>1. PICK a \in Alert, o \in Object : exp = <<a, o>>
    BY <1>2 DEF IndInv, ControlOK, Expiring
  <2>2. snap[o].desired
    BY <1>2, <2>1, Zenon DEF SteadyWanted, Expiring
  <2>3. phase # "remove"
    BY <1>2, <2>1, <2>2, Zenon DEF ExpireSettled
  <2>4. /\ cur \in Token /\ ops[cur].status = "verified"
        /\ o \in Replaced(cur) /\ a = ops[cur].old[o]
    BY <1>2, <2>1, <2>3, Zenon DEF IndInv, ControlOK, HandMatches, Finishing, Expiring
  <2> QED BY <1>2, <2>1, <2>4, Zenon DEF ReplacementActive
<1> QED BY <1>1, <1>2, Zenon DEF Doomed

\* A row that is no longer active never is again.
LEMMA DeletesInactiveStep ==
    ASSUME ReplaceInv, TypeOK', SteadyWanted, DeletesInactive,
           ServerEffect(Requested), StoreEffect
    PROVE  DeletesInactive'
<1>1. ASSUME NEW d \in deletes', Steady(d[2])
      PROVE  status'[d[1]][d[2]] \in {"expiring", "expired"}
  <2>1. PICK a \in Alert, o \in Object : d = <<a, o>>
    BY DEF TypeOK, LapiTypeOK
  <2>2. d \in Doomed
    BY Zenon DEF ServerEffect
  <2>3. status[a][o] \in {"expiring", "expired"}
    BY <1>1, <2>1, <2>2, DoomedInactive, Zenon
  <2> QED BY <2>1, <2>3, Zenon DEF StoreEffect
<1> QED BY <1>1, Zenon DEF DeletesInactive

\* A Run that is about to record an alert has just read it, or read it before.
LEMMA RecordBefore ==
    ASSUME TypeOK, ControlOK, [Next]_vars, pc' = "record"
    PROVE  \/ \E t \in Token, a \in Alert :
                /\ VerifiedAlert(t, a) /\ got' = a /\ seen' = ReadBack(t, a)
                /\ cur' = t
                /\ UNCHANGED <<clock, alerts, until, ops, now>>
                /\ \/ RecoverFound(t)
                   \/ pc = "get" /\ a = got /\ t = cur
           \/ /\ pc = "record"
              /\ UNCHANGED <<got, seen, cur, ops, now>>
<1>1. ASSUME NEW t \in Token, RecoverFound(t)
      PROVE  \E a \in Alert :
                /\ VerifiedAlert(t, a) /\ got' = a /\ seen' = ReadBack(t, a)
                /\ cur' = t
                /\ UNCHANGED <<clock, alerts, until, ops, now>>
  BY <1>1, Zenon
     DEF RecoverFound, FindOperation, searchAlerts, lapiVars, storeVars
<1>2. CASE GetAlertVerified
  BY <1>2, Zenon DEF GetAlertVerified, ControlOK, lapiVars, storeVars
<1>3. CASE Environment \/ UNCHANGED vars
  BY <1>3, Zenon DEF Environment, vars, localVars, storeVars
<1>4. ASSUME Return PROVE FALSE
  BY <1>4, Zenon DEF Return
<1>5. ASSUME NEW ok, OperationDone(ok) PROVE FALSE
  BY <1>4, <1>5, Zenon DEF OperationDone, TypeOK, LocalTypeOK
<1>6. ASSUME NEW ok, ExpireDone(ok) PROVE FALSE
  BY <1>5, <1>6, Zenon DEF ExpireDone
<1>7. CASE StartRun \/ ListEnforcementObjects \/ ReadOpenOperations
           \/ RecoverDone \/ \E t \in Token : RecoverVerified(t)
                                              \/ RecoverMissing(t)
  BY <1>7, Zenon
     DEF StartRun, ListEnforcementObjects, ReadOpenOperations, RecoverDone,
         RecoverVerified, RecoverMissing, Goto
<1>8. CASE \/ PlanFails \/ RunDone \/ Crash
           \/ \E t \in Token : RecoverUnproven(t)
           \/ \E o \in Object : PlanExpireFails(o)
  BY <1>4, <1>8, Zenon
     DEF PlanFails, RunDone, Crash, RecoverUnproven, PlanExpireFails
<1>9. CASE NoLongerDesired \/ MarkAmbiguous \/ RecordFails \/ Finish
           \/ FinishFails
  BY <1>5, <1>9, Zenon
     DEF NoLongerDesired, MarkAmbiguous, RecordFails, Finish, FinishFails
<1>10. CASE ExpireUnproven \/ ExpireDecisionFails \/ MarkExpired
            \/ MarkExpiredFails
  BY <1>6, <1>10, Zenon
     DEF ExpireUnproven, ExpireDecisionFails, MarkExpired, MarkExpiredFails
<1>11. CASE CreateAlert \/ CreateAlertFails \/ GetAlertFails \/ Record
            \/ ExpireOver \/ ExpireLive \/ ExpireDecision
            \/ \E o \in Object : FinishItem(o)
  BY <1>11, Zenon
     DEF CreateAlert, CreateAlertFails, GetAlertFails, Record, ExpireOver,
         ExpireLive, ExpireDecision, FinishItem, Goto
<1>12. CASE Plan \/ BatchesDone \/ \E o \in Object : PlanExpires(o) \/ Remove(o)
  BY <1>4, <1>12, Zenon DEF Plan, BatchesDone, PlanExpires, Remove
<1>13. ASSUME NEW k \in {"create", "refresh"}, NEW f \in Feed,
              NEW b \in SUBSET Object,
              \/ BatchFails(k, f, b)
              \/ \E t \in Token : BatchBegins(k, f, b, t)
       PROVE  FALSE
  BY <1>13, Zenon DEF BatchFails, BatchBegins
<1> QED
  BY <1>1, <1>2, <1>3, <1>7, <1>8, <1>9, <1>10, <1>11, <1>12, <1>13, Zenon
     DEF Next, RunStep, Recover, CreateForOperation, FinishVerified,
         ExpireOwned, PlanAndBatch

\* The expiries a Run has read and recorded are no later than the real ones.
ReadingsSafe ==
    /\ now <= clock
    /\ \A a \in Alert, o \in Object :
        Steady(o) /\ status[a][o] = "active" => expires[a][o] <= until[a][o]
    /\ pc = "record" =>
        \A o \in ops[cur].items : Steady(o) => seen[o] <= until[got][o]

\* Readings are taken from the server and rounded down by the time that has
\* passed since the Run started; no DELETE is sent for what they are about.
LEMMA ReadingsSafeStep ==
    ASSUME ReplaceInv, TypeOK', SteadyWanted, DeletesInactive, ReadingsSafe,
           ReadOnce, ServerEffect(Requested), StoreEffect, [Next]_vars
    PROVE  ReadingsSafe'
<1> USE DEF ReplaceInv
<1>1. TypeOK /\ ControlOK /\ HandMatches
  BY Zenon DEF IndInv, RunKnows
<1>2. /\ clock \in Nat /\ now \in Nat
      /\ \A a \in Alert, o \in Object :
            /\ until[a][o] \in Nat /\ expires[a][o] \in Nat
            /\ until'[a][o] \in Nat /\ expires'[a][o] \in Nat
  BY <1>1, ZenonT(60) DEF TypeOK, LapiTypeOK, StoreTypeOK, LocalTypeOK
<1>3. now' <= clock'
  <2>1. CASE now' = clock /\ clock' = clock
    BY <1>2, <2>1
  <2>2. CASE now' = now
    <3>1. now <= clock
      BY Zenon DEF ReadingsSafe
    <3>2. clock' = clock \/ clock' = clock + 1
      BY Zenon DEF ServerEffect
    <3>3. now \in Nat /\ clock \in Nat
      BY <1>2, Zenon
    <3> QED BY <2>2, <3>1, <3>2, <3>3
  <2> QED BY <2>1, <2>2, Zenon DEF ReadOnce
<1>4. \A a \in Alert, o \in Object : status[a][o] # "none" =>
        alerts[a].token \in Token /\ Recorded(alerts[a].token)
  BY Zenon DEF LedgerJournalled
<1>5. \A a \in Alert : alerts[a].token \in Token => alerts[a].state # "unused"
  BY LapiAssumption, Zenon DEF AlertsJournalled
<1>6. pc = "record" => /\ got \in Alert /\ cur \in Token
                       /\ alerts[got].token = cur /\ ~Recorded(cur)
                       /\ ops[cur].items \subseteq Object
  BY <1>1, Zenon
     DEF ControlOK, HandMatches, Creating, Unverified, Recorded, TypeOK,
         StoreTypeOK, Operation
<1>7. ASSUME NEW a \in Alert, NEW o \in Object, Steady(o),
             status[a][o] = "active"
      PROVE  until'[a][o] = until[a][o]
  <2>1. ~\E r \in Requested : Created(r, a)
    BY <1>4, <1>5, <1>7, Zenon DEF Created
  <2>2. <<a, o>> \notin Doomed
    BY <1>7, DoomedInactive, Zenon
  <2> QED BY <2>1, <2>2, Zenon DEF ServerEffect
<1>8. ASSUME NEW o \in ops[cur].items, Steady(o), pc = "record"
      PROVE  until'[got][o] = until[got][o]
  <2>1. ~\E r \in Requested : Created(r, got)
    BY <1>5, <1>6, <1>8, Zenon DEF Created
  <2>2. <<got, o>> \notin Doomed
    BY <1>4, <1>6, <1>8, DoomedInactive, Zenon
  <2> QED BY <1>6, <1>8, <2>1, <2>2, Zenon DEF ServerEffect
<1>9. ASSUME NEW a \in Alert, NEW o \in Object, Steady(o),
             status'[a][o] = "active"
      PROVE  expires'[a][o] <= until'[a][o]
  <2>1. CASE status[a][o] = "active"
    <3>1. expires'[a][o] = expires[a][o]
      BY <1>4, <1>6, <2>1, Zenon DEF StoreEffect
    <3> QED BY <1>7, <1>9, <2>1, <3>1, Zenon DEF ReadingsSafe
  <2>2. CASE status[a][o] # "active"
    <3>1. /\ pc = "record" /\ a = got /\ o \in ops[cur].items
          /\ ops[cur].status \in Unverified
          /\ ops'[cur].status = "verified"
      BY <1>9, <2>2, Zenon DEF StoreEffect
    <3>2. Moved(cur)
      BY <1>6, <3>1, Zenon DEF StoreEffect, Begun, Unverified
    <3>3. expires'[a][o] = seen[o]
      BY <3>1, <3>2, Zenon DEF Moved
    <3> QED BY <1>8, <1>9, <3>1, <3>3, Zenon DEF ReadingsSafe
  <2> QED BY <2>1, <2>2, Zenon
<1>10. ASSUME pc' = "record", NEW o \in ops'[cur'].items, Steady(o)
       PROVE  seen'[o] <= until'[got'][o]
  <2>1. CASE pc = "record" /\ UNCHANGED <<got, seen, cur, ops, now>>
    BY <1>8, <1>10, <2>1, Zenon DEF ReadingsSafe
  <2>2. ASSUME NEW t \in Token, NEW a \in Alert,
               VerifiedAlert(t, a), got' = a, seen' = ReadBack(t, a), cur' = t,
               UNCHANGED <<until, ops>>
        PROVE  seen'[o] <= until'[got'][o]
    <3>1. o \in ops[t].items /\ o \in Object
      BY <1>1, <1>10, <2>2, Zenon DEF TypeOK, StoreTypeOK, Operation
    <3>2. seen'[o] = DecisionExpiry(a, o)
      BY <2>2, <3>1, Zenon DEF ReadBack
    <3>3. now + (until[a][o] - clock) <= until[a][o]
      <4>1. now <= clock
        BY Zenon DEF ReadingsSafe
      <4>2. now \in Nat /\ clock \in Nat /\ until[a][o] \in Nat
        BY <1>2, <3>1, Zenon
      <4> QED BY <4>1, <4>2
    <3>4. DecisionExpiry(a, o) <= until[a][o]
      BY <1>2, <3>1, <3>3 DEF DecisionExpiry
    <3> QED BY <2>2, <3>2, <3>4, Zenon
  <2> QED BY <1>1, <1>10, <2>1, <2>2, RecordBefore, Zenon
<1> QED BY <1>3, <1>9, <1>10, Zenon DEF ReadingsSafe, Steady

\* A Run that has met no error has planned, is creating or has recorded a
\* decision for every object that every plan wants.
Covered ==
    phase \in {"batch", "remove"} /\ ~err =>
        \A o \in Object : Steady(o) =>
            \/ todo[o] \in {"create", "renew", "refresh"}
            \/ Creating /\ o \in ops[cur].items
            \/ \E a \in Alert : status[a][o] = "active" /\ expires[a][o] > now

\* An active decision that has time left stays active, is replaced by one
\* that has, or is planned to be renewed.
LEMMA ActiveStays ==
    ASSUME ReplaceInv, SteadyWanted, DeletesInactive, StoreEffect, now' = now,
           NEW a \in Alert, NEW o \in Object, Steady(o),
           status[a][o] = "active", expires[a][o] > now
    PROVE  \/ pc = "batch" /\ todo[o] = "renew"
           \/ \E b \in Alert : status'[b][o] = "active" /\ expires'[b][o] > now'
<1> USE DEF ReplaceInv
<1>1. TypeOK /\ ControlOK /\ HandMatches
  BY Zenon DEF IndInv, RunKnows
<1>2. pc = "record" => /\ got \in Alert /\ cur \in Token
                       /\ alerts[got].token = cur /\ ~Recorded(cur)
  BY <1>1, Zenon DEF ControlOK, HandMatches, Creating, Unverified, Recorded
<1>3. Recorded(alerts[a].token)
  BY Zenon DEF LedgerJournalled
<1>4. expires'[a][o] = expires[a][o]
  BY <1>2, <1>3, Zenon DEF StoreEffect
<1>5. CASE status'[a][o] = "active"
  BY <1>4, <1>5, Zenon
<1>6. CASE status'[a][o] # "active" /\ pc = "record"
  <2>1. /\ o \in ops[cur].items /\ ops[cur].status \in Unverified
        /\ ops'[cur].status = "verified"
    BY <1>6, Zenon DEF StoreEffect
  <2>2. Moved(cur)
    BY <1>2, <1>6, <2>1, Zenon DEF StoreEffect, Begun, Unverified
  <2> QED BY <1>2, <1>6, <2>1, <2>2, Zenon DEF Moved
<1>7. CASE status'[a][o] # "active" /\ pc = "expmark"
  <2>1. exp = <<a, o>>
    BY <1>7, Zenon DEF StoreEffect
  <2>2. <<a, o>> \in Doomed
    BY <1>7, <2>1, Zenon DEF Doomed, Expiring
  <2> QED BY <2>2, DoomedInactive, Zenon
<1>8. CASE status'[a][o] # "active" /\ pc = "batch"
  BY <1>8, Zenon DEF StoreEffect
<1> QED BY <1>5, <1>6, <1>7, <1>8, Zenon DEF StoreEffect

\* Planning covers every such object.
LEMMA PlanCovers ==
    ASSUME SteadyWanted, Plan, NEW o \in Object, Steady(o), TypeOK
    PROVE  \/ todo'[o] \in {"create", "renew", "refresh"}
           \/ \E a \in Alert : status'[a][o] = "active" /\ expires'[a][o] > now'
<1>1. /\ todo'[o] = PlannedAction(o) /\ snap[o].desired
      /\ UNCHANGED <<status, expires, now>>
  BY Zenon DEF Plan, SteadyWanted, storeVars
<1>2. CASE ActiveAlert(o) = NoAlert
  BY <1>1, <1>2, Zenon DEF PlannedAction
<1>3. CASE ActiveAlert(o) # NoAlert
  <2>1. PICK a \in Alert : a = ActiveAlert(o) /\ status[a][o] = "active"
    BY <1>3, Zenon DEF ActiveAlert, Active
  <2>2. now \in Nat /\ expires[a][o] \in Nat
    BY Zenon DEF TypeOK, StoreTypeOK, LocalTypeOK
  <2>3. RanOut(a, o) \/ expires[a][o] > now
    BY <2>2 DEF RanOut
  <2> QED BY <1>1, <1>3, <2>1, <2>3, Zenon DEF PlannedAction
<1> QED BY <1>2, <1>3, Zenon

\* The loops keep such an object covered: a batch that is begun is created
\* and recorded, or the Run has met an error.
LEMMA CoveredStep ==
    ASSUME ReplaceInv, SteadyWanted, DeletesInactive, BatchWanted, Covered,
           StoreEffect, [Next]_vars
    PROVE  Covered'
<1> USE DEF ReplaceInv
<1>1. TypeOK /\ ControlOK
  BY Zenon DEF IndInv
<1>2. SUFFICES ASSUME phase' \in {"batch", "remove"}, ~err',
                      NEW o \in Object, Steady(o)
               PROVE  \/ todo'[o] \in {"create", "renew", "refresh"}
                      \/ Creating' /\ o \in ops'[cur'].items
                      \/ \E a \in Alert :
                            status'[a][o] = "active" /\ expires'[a][o] > now'
  BY Zenon DEF Covered, Steady
<1> DEFINE Planned == todo[o] \in {"create", "renew", "refresh"}
           Kept == \E a \in Alert :
                        status'[a][o] = "active" /\ expires'[a][o] > now'
<1>3. CASE Plan
  BY <1>1, <1>2, <1>3, PlanCovers, Zenon
<1>4. ASSUME phase \in {"batch", "remove"}, ~err, now' = now,
             Planned => todo'[o] \in {"create", "renew", "refresh"}
                        \/ (Creating' /\ o \in ops'[cur'].items),
             Creating /\ o \in ops[cur].items =>
                        (Creating' /\ o \in ops'[cur'].items) \/ Kept
      PROVE  \/ todo'[o] \in {"create", "renew", "refresh"}
             \/ Creating' /\ o \in ops'[cur'].items
             \/ Kept
  <2>1. CASE Planned
    BY <1>4, <2>1, Zenon
  <2>2. CASE Creating /\ o \in ops[cur].items
    BY <1>4, <2>2, Zenon
  <2>3. ASSUME NEW a \in Alert, status[a][o] = "active", expires[a][o] > now
        PROVE  Planned \/ Kept
    BY <1>2, <1>4, <2>3, ActiveStays, Zenon
  <2>4. \/ Planned
        \/ Creating /\ o \in ops[cur].items
        \/ \E a \in Alert : status[a][o] = "active" /\ expires[a][o] > now
    BY <1>2, <1>4, Zenon DEF Covered
  <2> QED BY <1>4, <2>1, <2>2, <2>3, <2>4, Zenon
<1>5. ASSUME phase \in {"batch", "remove"}, ~err, UNCHANGED <<now, snap, act>>
      PROVE  \/ todo'[o] \in {"create", "renew", "refresh"}
             \/ Creating' /\ o \in ops'[cur'].items
             \/ Kept
  <2>1. CASE Quiet
    BY <1>4, <1>5, <2>1, Zenon DEF Quiet
  <2>2. ASSUME NEW k \in {"create", "refresh"}, NEW f \in Feed,
               NEW b \in SUBSET Object, NEW t \in Token, BatchBegins(k, f, b, t)
        PROVE  \/ todo'[o] \in {"create", "renew", "refresh"}
               \/ Creating' /\ o \in ops'[cur'].items
               \/ Kept
    <3>1. ops'[t].items = b
      BY <1>1, <2>2, Zenon DEF BatchBegins, BeginOperation, TypeOK, StoreTypeOK
    <3>2. /\ ~Creating /\ Creating' /\ cur' = t
          /\ o \notin b => todo'[o] = todo[o]
      BY <2>2, Zenon DEF BatchBegins, Dispatched, Creating
    <3> QED BY <1>4, <1>5, <3>1, <3>2, Zenon
  <2>3. ASSUME NEW p \in Object, PlanExpires(p)
        PROVE  \/ todo'[o] \in {"create", "renew", "refresh"}
               \/ Creating' /\ o \in ops'[cur'].items
               \/ Kept
    <3>1. ~Creating /\ (p = o => todo'[o] = "create")
                    /\ (p # o => todo'[o] = todo[o])
      BY <1>1, <2>3, Zenon DEF PlanExpires, Creating, TypeOK, LocalTypeOK
    <3> QED BY <1>4, <1>5, <3>1, Zenon
  <2>4. ASSUME NEW p \in Object, Remove(p)
        PROVE  \/ todo'[o] \in {"create", "renew", "refresh"}
               \/ Creating' /\ o \in ops'[cur'].items
               \/ Kept
    <3>1. ~Creating /\ (p = o => ~Planned) /\ (p # o => todo'[o] = todo[o])
      BY <1>1, <2>4, Zenon DEF Remove, Creating, TypeOK, LocalTypeOK
    <3> QED BY <1>4, <1>5, <3>1, Zenon
  <2>5. CASE NoLongerDesired
    <3>1. phase = "batch" /\ Creating /\ ~StillDesired
      BY <1>1, <1>5, <2>5, Zenon DEF NoLongerDesired, Creating, ControlOK
    <3> QED BY <3>1, Zenon DEF BatchWanted, StillDesired
  <2>6. CASE Record
    <3>1. /\ pc = "record" /\ todo' = todo /\ got \in Alert /\ cur \in Token
          /\ ops[cur].status \in Unverified
      BY <1>1, <2>6, Zenon
         DEF Record, ControlOK, RunKnows, HandMatches, Creating
    <3>2. ops'[cur].status = "verified"
      BY <1>1, <2>6, <3>1, StatusMove, Zenon
         DEF Record, RecordVerifiedOperation, Recorded, Unverified, TypeOK
    <3>3. Moved(cur)
      BY <3>1, <3>2, Zenon DEF StoreEffect, Begun, Unverified
    <3>4. o \in ops[cur].items => Kept
      BY <1>5, <3>1, <3>2, <3>3, Zenon DEF Moved
    <3> QED BY <1>4, <1>5, <3>1, <3>4, Zenon
  <2>7. CASE Finish \/ MarkExpired \/ BatchesDone
             \/ \E p \in Object : FinishItem(p)
    <3>1. ~Creating
      BY <2>7, Zenon DEF Finish, MarkExpired, BatchesDone, FinishItem, Creating
    <3>2. todo' = todo
      <4>1. CASE BatchesDone
        <5>1. ~err
          BY <1>5, Zenon
        <5> QED BY <4>1, <5>1, Zenon DEF BatchesDone
      <4>2. CASE Finish
        BY <1>5, <4>2, Zenon DEF Finish, OperationDone
      <4>3. CASE MarkExpired
        BY <1>5, <4>3, Zenon DEF MarkExpired, ExpireDone, OperationDone
      <4>4. CASE \E p \in Object : FinishItem(p)
        BY <4>4, Zenon DEF FinishItem
      <4> QED BY <2>7, <4>1, <4>2, <4>3, <4>4, Zenon
    <3> QED BY <1>4, <1>5, <3>1, <3>2, Zenon
  <2> QED
    BY <1>1, <1>2, <1>3, <2>1, <2>2, <2>3, <2>4, <2>5, <2>6, <2>7, LoopBefore, Zenon
<1> QED BY <1>1, <1>2, <1>3, <1>5, LoopBefore, Zenon

EnforceInv ==
    /\ ReplaceInv
    /\ SteadyWanted /\ DeletesInactive /\ ReadingsSafe /\ BatchWanted /\ Covered

\* Nothing is active and no Run has started to begin with.
LEMMA EnforceInit ==
    ASSUME Init
    PROVE  EnforceInv
<1>1. ReplaceInv
  BY ReplaceInit, Zenon
<1>2. /\ pc = "idle" /\ phase = "none" /\ deletes = {} /\ now = 0 /\ clock = 0
      /\ \A a \in Alert, o \in Object : status[a][o] = "none"
  BY Zenon DEF Init, LapiInit, StoreInit, LocalInit
<1>3. SteadyWanted /\ DeletesInactive
  BY <1>2, Zenon DEF SteadyWanted, DeletesInactive
<1>4. ReadingsSafe
  <2>1. now = 0 /\ clock = 0
    BY <1>2, Zenon
  <2>2. now <= clock
    BY <2>1
  <2> QED BY <1>2, <2>2, Zenon DEF ReadingsSafe
<1>5. BatchWanted /\ Covered
  BY <1>2, Zenon DEF BatchWanted, Covered
<1> QED BY <1>1, <1>3, <1>4, <1>5, Zenon DEF EnforceInv

\* Every step keeps it.
LEMMA EnforceStep ==
    ASSUME EnforceInv, [Next]_vars
    PROVE  EnforceInv'
<1> USE DEF EnforceInv
<1>1. TypeOK /\ ControlOK /\ PlanNames /\ RunKnows /\ AlertsJournalled
  BY Zenon DEF ReplaceInv, IndInv, PlanMatches
<1>2. ReplaceInv' /\ TypeOK'
  BY ReplaceStep, Zenon DEF ReplaceInv, IndInv
<1>3. ServerEffect(Requested) /\ StoreEffect /\ ReadOnce
  BY <1>1, ServerStep, StoreStep, ReadOnceStep, Zenon
<1>4. Keeps
  BY <1>1, <1>3, KeepsStep, Zenon
<1>5. SteadyWanted' /\ DeletesInactive'
  BY <1>2, <1>3, SteadyWantedStep, DeletesInactiveStep, Zenon
<1>6. ReadingsSafe'
  BY <1>2, <1>3, ReadingsSafeStep, Zenon
<1>7. BatchWanted'
  BY <1>1, <1>4, BatchWantedStep, Zenon
<1>8. Covered'
  BY <1>3, CoveredStep, Zenon
<1> QED BY <1>2, <1>5, <1>6, <1>7, <1>8, Zenon

\* A Run that reports success has an active decision, in force beyond the
\* start of the Run, for every object that every plan wants.
SteadyEnforced ==
    RunSucceeded =>
        \A o \in Object : Steady(o) =>
            \E a \in Alert : status[a][o] = "active" /\ until[a][o] > now

\* Objects that every plan wants are protected by every successful Run, while
\* others come and go: whatever DELETE or POST of an earlier Run is late.
THEOREM SteadyObjectsEnforced ==
    Spec => []SteadyEnforced
<1>1. ASSUME EnforceInv PROVE SteadyEnforced
  <2>1. SUFFICES ASSUME RunSucceeded, NEW o \in Object, Steady(o)
                 PROVE  \E a \in Alert :
                            status[a][o] = "active" /\ until[a][o] > now
    BY Zenon DEF SteadyEnforced
  <2> USE <1>1 DEF EnforceInv
  <2>2. pc = "remove" /\ phase = "remove" /\ ~err /\ todo[o] = "none"
    BY <2>1, Zenon DEF RunSucceeded, NoAction, ReplaceInv, IndInv, ControlOK
  <2>3. PICK a \in Alert : status[a][o] = "active" /\ expires[a][o] > now
    BY <2>1, <2>2, Zenon DEF Covered, Creating
  <2>4. expires[a][o] <= until[a][o]
    BY <2>1, <2>3, Zenon DEF ReadingsSafe
  <2>5. /\ now \in Nat /\ until[a][o] \in Nat /\ expires[a][o] \in Nat
    BY Zenon DEF ReplaceInv, IndInv, TypeOK, LapiTypeOK, StoreTypeOK, LocalTypeOK
  <2>6. until[a][o] > now
    BY <2>3, <2>4, <2>5
  <2> QED BY <2>3, <2>6, Zenon
<1>2. Spec => []EnforceInv
  BY EnforceInit, EnforceStep, PTL DEF Spec
<1> QED BY <1>1, <1>2, PTL

\* Where the blocklist only grows, a Run that reports success has protected
\* every object that it wants.
THEOREM RunsEnforce ==
    ASSUME \A o \in Object : Steady(o)
    PROVE  Spec => []RunEnforces
<1>1. SteadyEnforced => RunEnforces
  BY Zenon DEF SteadyEnforced, RunEnforces
<1> QED BY <1>1, SteadyObjectsEnforced, PTL
=============================================================================
