-------------------------- MODULE PortalReads_proofs --------------------------
(***************************************************************************)
(* Theorems about PortalReads, for every table of readers and pages: what  *)
(* the epochs guarantee does not depend on which workspace they guard.     *)
(* That pages settle needs a table that is orderly (PortalSettling).       *)
(***************************************************************************)
EXTENDS PortalSettling, TLAPS

\* A request that is under way has advanced its epochs, and they have not gone
\* back since.
ReadsAreAsked ==
    \A r \in reads : \A c \in Advances(View[r.view]) :
        c \in DOMAIN epoch /\ r.ask =< epoch[c]

\* V may have written a slot for its ask number n: its epochs are that far.
Wrote(V, s, n) ==
    s \in Writes(V) /\ \A c \in Advances(V) : c \in DOMAIN epoch /\ n =< epoch[c]

SlotsAreAsked ==
    \A s \in DOMAIN slots : \E V \in Rows : Wrote(V, s, slots[s].ask)

IInv ==
    /\ TypeOK
    /\ ReadsAreAsked
    /\ SlotsAreAsked

-----------------------------------------------------------------------------
(* The table.                                                              *)

LEMMA RowFacts ==
    ASSUME NEW v \in Views
    PROVE  /\ View[v] \in Rows
           /\ Advances(View[v]) \subseteq Channels /\ View[v].channel \in Advances(View[v])
           /\ View[v].revokes \subseteq Channels
           /\ Writes(View[v]) \subseteq Slots /\ Touches(View[v]) \subseteq Writes(View[v])
           /\ View[v].shows \cup View[v].empties \cup View[v].fails \subseteq Touches(View[v])
           /\ View[v].starts \cup View[v].clears \subseteq Writes(View[v])
    BY DEF Rows, Advances, Channels, Writes, Touches, Slots

LEMMA ScriptFacts ==
    ASSUME NEW c \in Scripts
    PROVE  /\ \A i \in DOMAIN c : c[i] \subseteq Views
           /\ c # <<>> => Head(c) \subseteq Views /\ Tail(c) \in Scripts
           /\ \A d \in Scripts : d \o c \in Scripts
           /\ \A S \in SUBSET Views : <<S>> \in Scripts
           /\ <<>> \in Scripts
    BY DEF Scripts

LEMMA PromisedSlots ==
    ASSUME NEW c \in Scripts
    PROVE  Promised(c) \subseteq Slots
<1>1. \A v \in Views : Shown(v) \subseteq Slots /\ View[v].then \subseteq Views
    BY RowFacts, ViewAssumption DEF Shown
<1>2. \A i \in DOMAIN c : \A v \in c[i] :
          Shown(v) \cup UNION {Shown(w) : w \in View[v].then} \subseteq Slots
    BY <1>1, ScriptFacts
<1>. QED  BY <1>2 DEF Promised

\* A chain or a script that begins, as a task.
LEMMA TaskFacts ==
    ASSUME NEW by \in {"chain", "click"}, NEW n \in Nat, NEW p \in Pages, NEW script \in Scripts
    PROVE  LET t == Task(by, n, p, script) IN
           /\ t \in [id: Ids, page: Pages, rest: Scripts]
           /\ t.rest = script /\ t.page = p /\ t.id.by = by /\ t.id.n = n
    BY DEF Task, Ids

\* The slots of S are emptied.
LEMMA EmptiedFacts ==
    ASSUME TypeOK, NEW S
    PROVE  /\ DOMAIN Emptied(S) = DOMAIN slots
           /\ \A s \in DOMAIN slots :
                  /\ Emptied(S)[s] \in [st: States, ask: 1..asks, boot: 1..boot]
                  /\ Emptied(S)[s].ask = slots[s].ask /\ Emptied(S)[s].boot = slots[s].boot
                  /\ Emptied(S)[s].st = IF s \in S THEN "blank" ELSE slots[s].st
    BY DEF Emptied, TypeOK, States

-----------------------------------------------------------------------------
(* Types.                                                                  *)

LEMMA BootOnTyped ==
    ASSUME TypeOK, NEW p \in Pages, NEW hide, BootOn(p, hide)
    PROVE  TypeOK'
<1>1. [boot |-> boot + 1, page |-> p] \in [boot: 1..boot', page: Pages]
    BY DEF BootOn, TypeOK
<1>2. booting' \subseteq [boot: 1..boot', page: Pages]
    BY <1>1 DEF BootOn, TypeOK
<1>3. /\ DOMAIN slots' = DOMAIN slots
      /\ \A s \in DOMAIN slots' : slots'[s] \in [st: States, ask: 1..asks', boot: 1..boot']
    BY EmptiedFacts DEF BootOn, TypeOK
<1>4. reads' \subseteq [view: Views, page: Pages, ask: 1..asks', boot: 1..boot', task: Ids]
    BY DEF BootOn, TypeOK
<1>. QED  BY <1>2, <1>3, <1>4 DEF BootOn, TypeOK

\* The slots that a step leaves on the screen to ask for more: as they are, or
\* some of them emptied.
Left(shown) == shown = slots \/ \E S : shown = Emptied(S)
LEMMA LeftFacts ==
    ASSUME TypeOK, NEW shown, Left(shown)
    PROVE  /\ DOMAIN shown = DOMAIN slots
           /\ \A s \in DOMAIN slots :
                  /\ shown[s] \in [st: States, ask: 1..asks, boot: 1..boot]
                  /\ shown[s].ask = slots[s].ask /\ shown[s].boot = slots[s].boot
                  /\ shown[s].st \in {"blank", slots[s].st}
<1>1. CASE shown = slots
    BY <1>1 DEF TypeOK
<1>2. ASSUME NEW S, shown = Emptied(S)
      PROVE  /\ DOMAIN shown = DOMAIN slots
             /\ \A s \in DOMAIN slots :
                    /\ shown[s] \in [st: States, ask: 1..asks, boot: 1..boot]
                    /\ shown[s].ask = slots[s].ask /\ shown[s].boot = slots[s].boot
                    /\ shown[s].st \in {"blank", slots[s].st}
    BY <1>2, EmptiedFacts
<1>. QED  BY <1>1, <1>2 DEF Left

LEMMA AskingTyped ==
    ASSUME TypeOK, NEW t \in [id: Ids, page: Pages, rest: Scripts], t.rest # <<>>,
           NEW shown, Left(shown), Asking(t, shown),
           screen' \in Pages, UNCHANGED boot, booting' \subseteq booting, settled' \in 0..boot,
           signed' \in BOOLEAN, clicks' \in Nat, owed' \subseteq Slots
    PROVE  TypeOK'
<1>. DEFINE group == Head(t.rest)
            going == {v \in group : Asks(v, t)}
            starts == UNION {View[v].starts : v \in going}
            clears == UNION {View[v].clears : v \in going}
            C == UNION {Advances(View[v]) : v \in group}
<1>1. group \subseteq Views /\ going \subseteq Views /\ Tail(t.rest) \in Scripts
    BY ScriptFacts
<1>2. asks' = asks + 1 /\ asks' \in Nat
    BY DEF Asking, TypeOK
<1>3. DOMAIN epoch' \subseteq Channels /\ \A c \in DOMAIN epoch' : epoch'[c] \in 1..asks'
  <2>1. epoch' = [c \in DOMAIN epoch \cup C |-> IF c \in C THEN asks' ELSE epoch[c]]
    BY DEF Asking, Advanced
  <2>2. C \subseteq Channels
    BY <1>1, RowFacts
  <2>. QED  BY <2>1, <2>2, <1>2 DEF TypeOK
<1>4. DOMAIN slots' \subseteq Slots
      /\ \A s \in DOMAIN slots' : slots'[s] \in [st: States, ask: 1..asks', boot: 1..boot']
  <2>1. slots' = [s \in DOMAIN shown \cup starts \cup clears |->
                    IF s \in starts THEN Mark("loading", asks', boot)
                    ELSE IF s \in clears THEN Mark("blank", asks', boot) ELSE shown[s]]
    BY DEF Asking
  <2>2. starts \cup clears \subseteq Slots
    BY <1>1, RowFacts
  <2>3. /\ Mark("loading", asks', boot) \in [st: States, ask: 1..asks', boot: 1..boot]
        /\ Mark("blank", asks', boot) \in [st: States, ask: 1..asks', boot: 1..boot]
    BY <1>2 DEF Mark, States, TypeOK
  <2>4. /\ DOMAIN shown \subseteq Slots
        /\ \A s \in DOMAIN shown : shown[s] \in [st: States, ask: 1..asks', boot: 1..boot]
    BY <1>2, LeftFacts DEF TypeOK
  <2>. QED  BY <2>1, <2>2, <2>3, <2>4
<1>5. reads' \subseteq [view: Views, page: Pages, ask: 1..asks', boot: 1..boot', task: Ids]
  <2>1. \A v \in Views : PathOf(v, t) \in Pages
    BY DEF PathOf
  <2>2. \A r \in reads : r \in [view: Views, page: Pages, ask: 1..asks', boot: 1..boot', task: Ids]
    BY <1>2 DEF TypeOK
  <2>3. \A v \in going : [view |-> v, page |-> PathOf(v, t), ask |-> asks', boot |-> boot, task |-> t.id]
            \in [view: Views, page: Pages, ask: 1..asks', boot: 1..boot', task: Ids]
    BY <1>1, <1>2, <2>1 DEF TypeOK
  <2>4. reads' = reads \cup {[view |-> v, page |-> PathOf(v, t), ask |-> asks',
                              boot |-> boot, task |-> t.id] : v \in going}
    BY DEF Asking
  <2>. QED  BY <2>2, <2>3, <2>4
<1>6. tasks' \subseteq [id: Ids, page: Pages, rest: Scripts]
  <2>1. [t EXCEPT !.rest = Tail(@)] \in [id: Ids, page: Pages, rest: Scripts]
    BY <1>1
  <2>. QED  BY <2>1 DEF Asking, Tidy, TypeOK
<1>7. booting' \subseteq [boot: 1..boot', page: Pages]
    BY DEF TypeOK
<1>8. boot' \in Nat \ {0} /\ settled' \in 0..boot'
    BY DEF TypeOK
<1>. HIDE DEF group, going, starts, clears, C
<1>. QED  BY <1>2, <1>3, <1>4, <1>5, <1>6, <1>7, <1>8 DEF TypeOK

-----------------------------------------------------------------------------
(* The steps that ask, as one: the task, the slots they leave, and what    *)
(* they do besides.                                                        *)

\* The next reads of t are asked for.
Step(t, shown) ==
    /\ t \in [id: Ids, page: Pages, rest: Scripts] /\ t.rest # <<>>
    /\ Left(shown) /\ Asking(t, shown)
    /\ screen' \in Pages /\ UNCHANGED boot /\ booting' \subseteq booting
    /\ settled' \in 0..boot /\ settled =< settled' /\ signed' \in BOOLEAN
    /\ clicks' \in Nat /\ clicks =< clicks' /\ owed' \subseteq Slots

LEMMA AskStep ==
    ASSUME TypeOK, NEW t \in tasks, Ask(t)
    PROVE  Step(t, slots)
    BY DEF Ask, Step, Left, TypeOK

LEMMA ClickStep ==
    ASSUME TypeOK, NEW script \in Page[screen].clicks, Click(script)
    PROVE  Step(Task("click", clicks', screen, script), slots)
<1>1. script \in Scripts /\ script # <<>> /\ screen \in Pages /\ clicks' = clicks + 1 /\ clicks \in Nat
    BY PageAssumption DEF TypeOK, Click
<1>. DEFINE t == Task("click", clicks', screen, script)
<1>2. t \in [id: Ids, page: Pages, rest: Scripts] /\ t.rest # <<>>
    BY <1>1, TaskFacts
<1>3. Asking(t, slots) /\ UNCHANGED <<screen, boot, booting, settled, signed, owed>>
    BY DEF Click
<1>. HIDE DEF t
<1>4. Step(t, slots)
    BY <1>1, <1>2, <1>3 DEF Step, Left, TypeOK
<1>. QED  BY <1>4 DEF t

LEMMA HandoffStep ==
    ASSUME TypeOK, NEW h \in Handoffs, Handoff(h)
    PROVE  Step(Task("click", clicks', h.to, h.script), Emptied(owed'))
<1>1. /\ h.script \in Scripts /\ h.script # <<>> /\ h.to \in Pages
      /\ clicks' = clicks + 1 /\ clicks \in Nat
    BY PageAssumption DEF TypeOK, Handoff
<1>. DEFINE t == Task("click", clicks', h.to, h.script)
<1>2. t \in [id: Ids, page: Pages, rest: Scripts] /\ t.rest # <<>>
    BY <1>1, TaskFacts
<1>3. /\ Asking(t, Emptied(owed')) /\ UNCHANGED <<boot, booting, settled, signed>>
      /\ screen' = h.to /\ owed' = Promised(h.script)
    BY DEF Handoff
<1>4. owed' \subseteq Slots
    BY <1>1, <1>3, PromisedSlots
<1>. HIDE DEF t
<1>5. Step(t, Emptied(owed'))
    BY <1>1, <1>2, <1>3, <1>4 DEF Step, Left, TypeOK
<1>. QED  BY <1>5 DEF t

LEMMA BootstrappedStep ==
    ASSUME TypeOK, NEW b \in booting, Bootstrapped(b)
    PROVE  Step(Task("chain", b.boot, b.page, Page[b.page].chain), Emptied(Slots))
<1>1. /\ b.page \in Pages /\ b.boot \in Nat /\ b.boot = boot /\ settled =< boot /\ settled \in Nat
      /\ Page[b.page].chain \in Scripts /\ Page[b.page].chain # <<>>
    BY PageAssumption DEF TypeOK, Bootstrapped, Settle
<1>. DEFINE t == Task("chain", b.boot, b.page, Page[b.page].chain)
<1>2. t \in [id: Ids, page: Pages, rest: Scripts] /\ t.rest # <<>>
    BY <1>1, TaskFacts
<1>3. /\ Asking(t, Emptied(Slots)) /\ UNCHANGED <<boot, clicks>>
      /\ booting' \subseteq booting /\ settled' = b.boot /\ screen' = b.page /\ signed' = TRUE
      /\ owed' = Promised(Page[b.page].chain)
    BY DEF Bootstrapped, Settle
<1>4. owed' \subseteq Slots
    BY <1>1, <1>3, PromisedSlots
<1>. HIDE DEF t
<1>5. Step(t, Emptied(Slots))
    BY <1>1, <1>2, <1>3, <1>4 DEF Step, Left, TypeOK
<1>. QED  BY <1>5 DEF t

\* Of every step: it asks, or it is one of the others.
LEMMA StepCases ==
    ASSUME TypeOK, [Next]_vars
    PROVE  \/ \E p \in Pages : \E hide :
                  BootOn(p, hide) /\ (p = screen \/ \E l \in Links : {screen, p} \subseteq l)
           \/ \E b \in booting : Superseded(b) \/ SignedOut(b)
           \/ \E t, shown : Step(t, shown)
           \/ \E r \in reads : Drop(r) \/ Succeed(r) \/ Fail(r)
           \/ UNCHANGED vars
<1>1. Hydrate => screen \in Pages /\ BootOn(screen, Hidden)
    BY DEF Hydrate, TypeOK
<1>2. ASSUME NEW l \in Links, Link(l)
      PROVE  \E p \in Pages : \E hide : BootOn(p, hide) /\ {screen, p} \subseteq l
  <2>1. l \subseteq Pages
    BY PageAssumption
  <2>. QED  BY <1>2, <2>1 DEF Link
<1>. QED  BY <1>1, <1>2, AskStep, ClickStep, HandoffStep, BootstrappedStep DEF Next

LEMMA StepTyped ==
    ASSUME TypeOK, NEW t, NEW shown, Step(t, shown)
    PROVE  TypeOK'
    BY AskingTyped DEF Step

\* A script goes on.
LEMMA GoesTyped ==
    ASSUME TypeOK, NEW r \in reads, NEW more \in Scripts, Goes(r, more)
    PROVE  tasks' \subseteq [id: Ids, page: Pages, rest: Scripts]
<1>1. \A t \in tasks : t.rest \in Scripts /\ more \o t.rest \in Scripts
    BY ScriptFacts DEF TypeOK
<1>2. \A t \in tasks : [t EXCEPT !.rest = more \o @] \in [id: Ids, page: Pages, rest: Scripts]
    BY <1>1 DEF TypeOK
<1>. QED  BY <1>2 DEF Goes, Tidy, TypeOK

LEMMA DropTyped ==
    ASSUME TypeOK, NEW r \in reads, Drop(r)
    PROVE  TypeOK'
<1>1. <<>> \in Scripts
    BY DEF Scripts
<1>2. tasks' \subseteq [id: Ids, page: Pages, rest: Scripts]
    BY <1>1, GoesTyped DEF Drop
<1>. QED  BY <1>2 DEF Drop, TypeOK

\* The marks an answer leaves.
LEMMA AnswerMarks ==
    ASSUME TypeOK, NEW r \in reads, NEW st \in States
    PROVE  /\ r.view \in Views
           /\ Mark(st, r.ask, r.boot) \in [st: States, ask: 1..asks, boot: 1..boot]
           /\ Mark(st, r.ask, r.boot).ask = r.ask /\ Mark(st, r.ask, r.boot).boot = r.boot
           /\ Mark(st, r.ask, r.boot).st = st
    BY DEF Mark, TypeOK

LEMMA SucceedTyped ==
    ASSUME TypeOK, NEW r \in reads, Succeed(r)
    PROVE  TypeOK'
<1>. DEFINE V == View[r.view]
            emptied == V.empties \ Spared(r)
<1>1. r.view \in Views
    BY DEF TypeOK
<1>2. tasks' \subseteq [id: Ids, page: Pages, rest: Scripts]
  <2>1. V.then \in SUBSET Views
    BY <1>1, ViewAssumption
  <2>2. (IF V.then = {} THEN <<>> ELSE <<V.then>>) \in Scripts
    <3>1. <<V.then>> \in Scripts
      BY <2>1 DEF Scripts
    <3>2. <<>> \in Scripts
      BY DEF Scripts
    <3>. QED  BY <3>1, <3>2
  <2>. QED  BY <2>2, GoesTyped DEF Succeed
<1>3. DOMAIN slots' \subseteq Slots
      /\ \A s \in DOMAIN slots' : slots'[s] \in [st: States, ask: 1..asks', boot: 1..boot']
  <2>1. slots' = [s \in DOMAIN slots \cup V.shows \cup emptied |->
                    IF s \in V.shows THEN Mark("ready", r.ask, r.boot)
                    ELSE IF s \in emptied THEN Mark("blank", r.ask, r.boot) ELSE slots[s]]
    BY DEF Succeed
  <2>2. V.shows \cup emptied \subseteq Slots
    BY <1>1, RowFacts
  <2>3. /\ Mark("ready", r.ask, r.boot) \in [st: States, ask: 1..asks, boot: 1..boot]
        /\ Mark("blank", r.ask, r.boot) \in [st: States, ask: 1..asks, boot: 1..boot]
    BY AnswerMarks DEF States
  <2>. QED  BY <2>1, <2>2, <2>3 DEF TypeOK, Succeed
<1>. QED  BY <1>2, <1>3 DEF Succeed, TypeOK

LEMMA FailTyped ==
    ASSUME TypeOK, NEW r \in reads, Fail(r)
    PROVE  TypeOK'
<1>. DEFINE V == View[r.view]
            failed == V.fails \ Spared(r)
<1>1. r.view \in Views
    BY DEF TypeOK
<1>2. asks' \in Nat /\ asks' >= asks /\ (V.revokes # {} => asks' = asks + 1)
    BY DEF Fail, TypeOK
<1>3. tasks' \subseteq [id: Ids, page: Pages, rest: Scripts]
  <2>1. <<>> \in Scripts
    BY DEF Scripts
  <2>2. CASE V.throws
    BY <2>2 DEF Fail, Ends, TypeOK
  <2>3. CASE ~V.throws
    BY <2>1, <2>3, GoesTyped DEF Fail
  <2>. QED  BY <2>2, <2>3
<1>4. DOMAIN slots' \subseteq Slots
      /\ \A s \in DOMAIN slots' : slots'[s] \in [st: States, ask: 1..asks', boot: 1..boot']
  <2>1. slots' = [s \in DOMAIN slots \cup failed |->
                    IF s \in failed THEN Mark("failed", r.ask, r.boot) ELSE slots[s]]
    BY DEF Fail
  <2>2. failed \subseteq Slots
    BY <1>1, RowFacts
  <2>3. Mark("failed", r.ask, r.boot) \in [st: States, ask: 1..asks', boot: 1..boot]
    BY <1>2 DEF Mark, States, TypeOK
  <2>4. \A s \in DOMAIN slots : slots[s] \in [st: States, ask: 1..asks', boot: 1..boot]
    BY <1>2 DEF TypeOK
  <2>. QED  BY <2>1, <2>2, <2>3, <2>4 DEF TypeOK, Fail
<1>5. DOMAIN epoch' \subseteq Channels /\ \A c \in DOMAIN epoch' : epoch'[c] \in 1..asks'
  <2>1. epoch' = [c \in DOMAIN epoch \cup V.revokes |->
                    IF c \in V.revokes THEN asks' ELSE epoch[c]]
    BY DEF Fail, Advanced
  <2>2. V.revokes \subseteq Channels
    BY <1>1, RowFacts
  <2>. QED  BY <2>1, <2>2, <1>2 DEF TypeOK
<1>6. reads' \subseteq [view: Views, page: Pages, ask: 1..asks', boot: 1..boot', task: Ids]
    BY <1>2 DEF Fail, TypeOK
<1>. QED  BY <1>2, <1>3, <1>4, <1>5, <1>6 DEF Fail, TypeOK

LEMMA SignedOutTyped ==
    ASSUME TypeOK, NEW b \in booting, SignedOut(b)
    PROVE  TypeOK'
<1>1. /\ DOMAIN slots' = DOMAIN slots
      /\ \A s \in DOMAIN slots' : slots'[s] \in [st: States, ask: 1..asks', boot: 1..boot']
    BY EmptiedFacts DEF SignedOut, Settle, TypeOK
<1>2. settled' \in 0..boot' /\ screen' \in Pages
    BY DEF SignedOut, Settle, TypeOK
<1>. QED  BY <1>1, <1>2 DEF SignedOut, Settle, TypeOK

\* Every type is preserved by every step.
LEMMA TypeInductive == TypeOK /\ [Next]_vars => TypeOK'
<1>. SUFFICES ASSUME TypeOK, [Next]_vars PROVE TypeOK'
    OBVIOUS
<1>1. ASSUME NEW p \in Pages, NEW hide, BootOn(p, hide) PROVE TypeOK'
    BY <1>1, BootOnTyped
<1>2. ASSUME NEW b \in booting, Superseded(b) PROVE TypeOK'
    BY <1>2 DEF Superseded, TypeOK
<1>3. ASSUME NEW b \in booting, SignedOut(b) PROVE TypeOK'
    BY <1>3, SignedOutTyped
<1>4. ASSUME NEW t, NEW shown, Step(t, shown) PROVE TypeOK'
    BY <1>4, StepTyped
<1>5. ASSUME NEW r \in reads, Drop(r) \/ Succeed(r) \/ Fail(r) PROVE TypeOK'
    BY <1>5, DropTyped, SucceedTyped, FailTyped
<1>6. CASE UNCHANGED vars
    BY <1>6 DEF vars, TypeOK
<1>. QED  BY <1>1, <1>2, <1>3, <1>4, <1>5, <1>6, StepCases

LEMMA TypeInitially == Init => TypeOK
<1>. SUFFICES ASSUME Init PROVE TypeOK
    OBVIOUS
<1>1. DOMAIN epoch = {} /\ DOMAIN slots = {}
    BY DEF Init
<1>2. screen \in Pages
    BY PageAssumption DEF Init
<1>3. booting \subseteq [boot: 1..boot, page: Pages]
    BY <1>2 DEF Init
<1>4. /\ DOMAIN epoch \subseteq Channels /\ \A c \in DOMAIN epoch : epoch[c] \in 1..asks
      /\ DOMAIN slots \subseteq Slots
      /\ \A s \in DOMAIN slots : slots[s] \in [st: States, ask: 1..asks, boot: 1..boot]
    BY <1>1
<1>5. boot = 1 /\ settled = 0 /\ asks = 0 /\ clicks = 0 /\ signed \in BOOLEAN
    BY Zenon DEF Init
<1>6. /\ reads \subseteq [view: Views, page: Pages, ask: 1..asks, boot: 1..boot, task: Ids]
      /\ tasks \subseteq [id: Ids, page: Pages, rest: Scripts]
      /\ owed \subseteq Slots
    BY DEF Init
<1>. QED  BY <1>2, <1>3, <1>4, <1>5, <1>6 DEF TypeOK

\* The types of the machine hold in every reachable state.
THEOREM TypeCorrect == Spec => []TypeOK
<1>. QED  BY TypeInitially, TypeInductive, PTL DEF Spec

-----------------------------------------------------------------------------
(* Sessions.  Emptying every slot is what makes a bootstrap the boundary:  *)
(* after it, only answers of its own epoch are let in.                     *)

LEMMA BlankedFresh ==
    ASSUME TypeOK, NEW b \in booting, SignedOut(b)
    PROVE  SessionFresh'
<1>1. slots' = Emptied(Slots) /\ DOMAIN slots \subseteq Slots
    BY DEF SignedOut, TypeOK
<1>2. DOMAIN slots' = DOMAIN slots /\ \A s \in DOMAIN slots' : slots'[s].st = "blank"
    BY <1>1, EmptiedFacts
<1>. QED  BY <1>2 DEF SessionFresh

LEMMA KeptFresh ==
    ASSUME TypeOK, SessionFresh, UNCHANGED <<settled, signed>>,
           DOMAIN slots' = DOMAIN slots,
           \A s \in DOMAIN slots : slots'[s].boot = slots[s].boot
                                   /\ slots'[s].st \in {"blank", slots[s].st}
    PROVE  SessionFresh'
    BY DEF SessionFresh

\* What is asked for begins with nothing that is not fresh.
LEMMA AskingFresh ==
    ASSUME TypeOK, NEW t, NEW shown, Asking(t, shown), boot >= settled',
           \A s \in DOMAIN shown : shown[s].st # "blank" =>
               shown[s].boot >= settled' /\ (s \in Private /\ shown[s].st = "ready" => signed')
    PROVE  SessionFresh'
<1>. DEFINE going == {v \in Head(t.rest) : Asks(v, t)}
            starts == UNION {View[v].starts : v \in going}
            clears == UNION {View[v].clears : v \in going}
<1>1. slots' = [s \in DOMAIN shown \cup starts \cup clears |->
                  IF s \in starts THEN Mark("loading", asks', boot)
                  ELSE IF s \in clears THEN Mark("blank", asks', boot) ELSE shown[s]]
    BY DEF Asking
<1>. HIDE DEF starts, clears
<1>2. ASSUME NEW s \in DOMAIN slots', slots'[s].st # "blank"
      PROVE  slots'[s].boot >= settled' /\ (s \in Private /\ slots'[s].st = "ready" => signed')
    BY <1>1, <1>2 DEF Mark
<1>. QED  BY <1>2 DEF SessionFresh

LEMMA StandingFresh ==
    ASSUME TypeOK, SessionFresh, NEW t, NEW shown, Left(shown), Asking(t, shown),
           UNCHANGED <<settled, signed>>
    PROVE  SessionFresh'
<1>1. boot >= settled
    BY DEF TypeOK
<1>2. ASSUME NEW s \in DOMAIN shown, shown[s].st # "blank"
      PROVE  shown[s].boot >= settled' /\ (s \in Private /\ shown[s].st = "ready" => signed')
    BY <1>2, LeftFacts DEF SessionFresh
<1>. QED  BY <1>1, <1>2, AskingFresh

\* A slot written for the current boot, by a reader that looks at the session
\* if the slot is private.
LEMMA WrittenFresh ==
    ASSUME TypeOK, SessionFresh, UNCHANGED <<settled, signed>>, NEW W,
           DOMAIN slots' = DOMAIN slots \cup W,
           \A s \in DOMAIN slots \ W : slots'[s] = slots[s],
           \A s \in W : slots'[s].boot = boot
                        /\ (s \in Private /\ slots'[s].st = "ready" => signed)
    PROVE  SessionFresh'
<1>1. boot >= settled
    BY DEF TypeOK
<1>. QED  BY <1>1 DEF SessionFresh

LEMMA FreshInductive == TypeOK /\ SessionFresh /\ [Next]_vars => SessionFresh'
<1>. SUFFICES ASSUME TypeOK, SessionFresh, [Next]_vars PROVE SessionFresh'
    OBVIOUS
<1>1. ASSUME NEW p, NEW hide, BootOn(p, hide) PROVE SessionFresh'
  <2>1. slots' = Emptied(hide) /\ UNCHANGED <<settled, signed>>
    BY <1>1 DEF BootOn
  <2>. QED  BY <2>1, EmptiedFacts, KeptFresh
<1>2. ASSUME NEW b \in booting, Bootstrapped(b) PROVE SessionFresh'
  <2>1. \A s \in DOMAIN Emptied(Slots) : Emptied(Slots)[s].st = "blank"
    BY EmptiedFacts DEF TypeOK
  <2>2. boot >= settled'
    BY <1>2 DEF Bootstrapped, Settle, TypeOK
  <2>. QED  BY <1>2, <2>1, <2>2, AskingFresh DEF Bootstrapped
<1>3. ASSUME NEW h \in Handoffs, Handoff(h) PROVE SessionFresh'
    BY <1>3, StandingFresh DEF Handoff, Left
<1>4. ASSUME NEW t \in tasks, Ask(t) PROVE SessionFresh'
    BY <1>4, StandingFresh DEF Ask, Left
<1>9. ASSUME NEW script \in Page[screen].clicks, Click(script) PROVE SessionFresh'
    BY <1>9, StandingFresh DEF Click, Left
<1>5. ASSUME NEW r \in reads, Succeed(r) PROVE SessionFresh'
  <2>. DEFINE V == View[r.view]
              emptied == V.empties \ Spared(r)
  <2>1. /\ slots' = [s \in DOMAIN slots \cup V.shows \cup emptied |->
                       IF s \in V.shows THEN Mark("ready", r.ask, r.boot)
                       ELSE IF s \in emptied THEN Mark("blank", r.ask, r.boot) ELSE slots[s]]
        /\ UNCHANGED <<settled, signed>>
        /\ r.boot = boot /\ (V.auth => signed)
    BY <1>5 DEF Succeed, Current
  <2>2. \A s \in V.shows : s \in Private => signed
    BY <2>1, RowFacts DEF Private, TypeOK
  <2>3. /\ DOMAIN slots' = DOMAIN slots \cup (V.shows \cup emptied)
        /\ \A s \in DOMAIN slots \ (V.shows \cup emptied) : slots'[s] = slots[s]
        /\ \A s \in V.shows \cup emptied :
               slots'[s].boot = boot /\ (s \in Private /\ slots'[s].st = "ready" => signed)
    BY <2>1, <2>2 DEF Mark
  <2>. QED  BY <2>1, <2>3, WrittenFresh
<1>6. ASSUME NEW r \in reads, Fail(r) PROVE SessionFresh'
  <2>. DEFINE failed == View[r.view].fails \ Spared(r)
  <2>1. /\ slots' = [s \in DOMAIN slots \cup failed |->
                       IF s \in failed THEN Mark("failed", r.ask, r.boot) ELSE slots[s]]
        /\ UNCHANGED <<settled, signed>>
        /\ r.boot = boot
    BY <1>6 DEF Fail, Current
  <2>2. /\ DOMAIN slots' = DOMAIN slots \cup failed
        /\ \A s \in DOMAIN slots \ failed : slots'[s] = slots[s]
        /\ \A s \in failed : slots'[s].boot = boot /\ slots'[s].st # "ready"
    BY <2>1 DEF Mark
  <2>. QED  BY <2>1, <2>2, WrittenFresh
<1>7. CASE UNCHANGED <<slots, settled, signed>>
    BY <1>7 DEF SessionFresh
<1>8. ASSUME NEW b \in booting, Superseded(b) PROVE UNCHANGED <<slots, settled, signed>>
    BY <1>8 DEF Superseded
<1>12. ASSUME NEW b \in booting, SignedOut(b) PROVE SessionFresh'
    BY <1>12, BlankedFresh
<1>10. ASSUME NEW r \in reads, Drop(r) PROVE UNCHANGED <<slots, settled, signed>>
    BY <1>10 DEF Drop
<1>11. UNCHANGED vars => UNCHANGED <<slots, settled, signed>>
    BY DEF vars
<1>. QED  BY <1>1, <1>2, <1>3, <1>4, <1>5, <1>6, <1>7, <1>8, <1>9, <1>10, <1>11, <1>12
          DEF Next, Hydrate, Link

\* What is shown was asked for since the last bootstrap, and a reader that
\* looks at the session shows nothing without one.
THEOREM SessionsKeptApart == Spec => []SessionFresh
<1>1. Init => SessionFresh
    BY DEF Init, SessionFresh
<1>. QED  BY <1>1, FreshInductive, TypeCorrect, PTL DEF Spec

-----------------------------------------------------------------------------
(* Order.  Every slot was last written by a reader whose epochs are at     *)
(* least as far as the ask it wrote for; so a reader that finds its epoch  *)
(* unmoved is not older than what it writes over.                          *)

EpochsKept == \A c \in DOMAIN epoch : c \in DOMAIN epoch' /\ epoch[c] =< epoch'[c]

SlotsOrdered ==
    \A s \in Guarded \cap DOMAIN slots : s \in DOMAIN slots' /\ slots'[s].ask >= slots[s].ask

LEMMA ReadsKept ==
    ASSUME TypeOK, ReadsAreAsked, EpochsKept, TypeOK', reads' \subseteq reads
    PROVE  ReadsAreAsked'
<1>. SUFFICES ASSUME NEW r \in reads', NEW c \in Advances(View[r.view])
              PROVE  c \in DOMAIN epoch' /\ r.ask =< epoch'[c]
    BY DEF ReadsAreAsked
<1>1. r \in reads /\ c \in DOMAIN epoch /\ r.ask =< epoch[c]
    BY DEF ReadsAreAsked
<1>2. r.ask \in Nat /\ epoch[c] \in Nat /\ epoch'[c] \in Nat /\ c \in DOMAIN epoch'
    BY <1>1 DEF TypeOK, EpochsKept
<1>. QED  BY <1>1, <1>2 DEF EpochsKept

\* A slot is as it was, emptied, or written for the ask of a reader.
LEMMA SlotsKept ==
    ASSUME TypeOK, SlotsAreAsked, EpochsKept, TypeOK',
           \A s \in DOMAIN slots' :
               \/ s \in DOMAIN slots /\ slots'[s].ask = slots[s].ask
               \/ \E V \in Rows : /\ s \in Writes(V)
                                  /\ \A c \in Advances(V) :
                                         c \in DOMAIN epoch' /\ slots'[s].ask =< epoch'[c]
    PROVE  SlotsAreAsked'
<1>. SUFFICES ASSUME NEW s \in DOMAIN slots'
              PROVE  \E V \in Rows : /\ s \in Writes(V)
                                     /\ \A c \in Advances(V) :
                                            c \in DOMAIN epoch' /\ slots'[s].ask =< epoch'[c]
    BY DEF SlotsAreAsked, Wrote
<1>1. CASE s \in DOMAIN slots /\ slots'[s].ask = slots[s].ask
  <2>1. PICK V \in Rows : Wrote(V, s, slots[s].ask)
    BY <1>1 DEF SlotsAreAsked
  <2>2. ASSUME NEW c \in Advances(V)
        PROVE  c \in DOMAIN epoch' /\ slots'[s].ask =< epoch'[c]
    <3>1. c \in DOMAIN epoch /\ slots[s].ask =< epoch[c]
      BY <2>1 DEF Wrote
    <3>2. slots[s].ask \in Nat /\ epoch[c] \in Nat /\ epoch'[c] \in Nat /\ c \in DOMAIN epoch'
      BY <1>1, <3>1 DEF TypeOK, EpochsKept
    <3>. QED  BY <1>1, <3>1, <3>2 DEF EpochsKept
  <2>. QED  BY <2>1, <2>2 DEF Wrote
<1>. QED  BY <1>1

\* The heart of it: what a current reader writes over is not newer.
LEMMA NotNewer ==
    ASSUME IInv, NEW r \in reads, Current(r), NEW s \in Guarded \cap DOMAIN slots,
           s \in Touches(View[r.view]), s \in View[r.view].shows \/ s \notin Spared(r)
    PROVE  slots[s].ask =< r.ask
<1>. DEFINE V == View[r.view]
<1>1. V \in Rows /\ V.channel \in Advances(V)
    BY RowFacts DEF IInv, TypeOK
<1>2. PICK W \in Rows : Wrote(W, s, slots[s].ask)
    BY DEF IInv, SlotsAreAsked
<1>3. Yields(V, W, s)
    BY <1>1, <1>2 DEF Guarded, Wrote
<1>4. CASE V.channel \in Advances(W)
    BY <1>2, <1>4 DEF Wrote, Current
<1>5. CASE s \in V.spares /\ s \notin V.shows /\ W.channel \in V.watches
  <2>1. W.channel \in DOMAIN epoch /\ slots[s].ask =< epoch[W.channel]
    BY <1>2 DEF Wrote, Advances
  <2>2. ~(epoch[W.channel] > r.ask)
    BY <1>5, <2>1 DEF Spared
  <2>3. epoch[W.channel] \in Nat /\ r.ask \in Nat /\ slots[s].ask \in Nat
    BY <2>1 DEF IInv, TypeOK
  <2>. QED  BY <2>1, <2>2, <2>3
<1>. QED  BY <1>3, <1>4, <1>5 DEF Yields

\* A step that only empties slots.
LEMMA EmptiedOrder ==
    ASSUME IInv, TypeOK', NEW S, slots' = Emptied(S) \/ slots' = slots,
           UNCHANGED epoch, reads' \subseteq reads
    PROVE  IInv' /\ SlotsOrdered
<1>1. DOMAIN slots' = DOMAIN slots /\ \A s \in DOMAIN slots : slots'[s].ask = slots[s].ask
    BY EmptiedFacts DEF IInv
<1>2. EpochsKept
    BY DEF EpochsKept, IInv, TypeOK
<1>3. ReadsAreAsked' /\ SlotsAreAsked'
    BY <1>1, <1>2, ReadsKept, SlotsKept DEF IInv
<1>4. \A s \in DOMAIN slots : slots[s].ask \in Nat
    BY DEF IInv, TypeOK
<1>. QED  BY <1>1, <1>3, <1>4 DEF IInv, SlotsOrdered

LEMMA StepOrder ==
    ASSUME IInv, TypeOK', NEW t, NEW shown, Step(t, shown)
    PROVE  IInv' /\ SlotsOrdered
<1>. DEFINE group == Head(t.rest)
            going == {v \in group : Asks(v, t)}
            starts == UNION {View[v].starts : v \in going}
            clears == UNION {View[v].clears : v \in going}
            C == UNION {Advances(View[v]) : v \in group}
<1>1. group \subseteq Views
    BY ScriptFacts DEF Step
<1>2. asks' = asks + 1 /\ asks \in Nat
    BY DEF Step, Asking, IInv, TypeOK
<1>3. epoch' = [c \in DOMAIN epoch \cup C |-> IF c \in C THEN asks' ELSE epoch[c]]
    BY DEF Step, Asking, Advanced
<1>4. EpochsKept
    BY <1>2, <1>3 DEF EpochsKept, IInv, TypeOK
<1>5. \A v \in going : \A c \in Advances(View[v]) : c \in DOMAIN epoch' /\ epoch'[c] = asks'
    BY <1>3
<1>6. ReadsAreAsked'
  <2>. SUFFICES ASSUME NEW r \in reads', NEW c \in Advances(View[r.view])
                PROVE  c \in DOMAIN epoch' /\ r.ask =< epoch'[c]
    BY DEF ReadsAreAsked
  <2>1. CASE r \in reads
    <3>1. c \in DOMAIN epoch /\ r.ask =< epoch[c]
      BY <2>1 DEF IInv, ReadsAreAsked
    <3>2. r.ask \in Nat /\ epoch[c] \in Nat /\ epoch'[c] \in Nat /\ c \in DOMAIN epoch'
      BY <2>1, <3>1, <1>4 DEF IInv, TypeOK, EpochsKept
    <3>. QED  BY <3>1, <3>2, <1>4 DEF EpochsKept
  <2>2. CASE r \notin reads
    <3>1. PICK v \in going : r = [view |-> v, page |-> PathOf(v, t), ask |-> asks',
                                  boot |-> boot, task |-> t.id]
      BY <2>2 DEF Step, Asking
    <3>. QED  BY <3>1, <1>2, <1>5
  <2>. QED  BY <2>1, <2>2
<1>7. /\ slots' = [s \in DOMAIN shown \cup starts \cup clears |->
                     IF s \in starts THEN Mark("loading", asks', boot)
                     ELSE IF s \in clears THEN Mark("blank", asks', boot) ELSE shown[s]]
      /\ DOMAIN shown = DOMAIN slots /\ \A s \in DOMAIN slots : shown[s].ask = slots[s].ask
    BY LeftFacts DEF Step, Asking, IInv
<1>8. /\ \A s \in starts \cup clears : slots'[s].ask = asks'
      /\ \A s \in DOMAIN slots \ (starts \cup clears) : slots'[s].ask = slots[s].ask
      /\ DOMAIN slots' = DOMAIN slots \cup (starts \cup clears)
    BY <1>7 DEF Mark
<1>9. SlotsAreAsked'
  <2>1. ASSUME NEW s \in starts \cup clears
        PROVE  \E V \in Rows : /\ s \in Writes(V)
                               /\ \A c \in Advances(V) :
                                      c \in DOMAIN epoch' /\ slots'[s].ask =< epoch'[c]
    <3>1. PICK v \in going : s \in View[v].starts \cup View[v].clears
      OBVIOUS
    <3>2. v \in Views /\ View[v] \in Rows /\ s \in Writes(View[v])
      BY <1>1, <3>1, RowFacts
    <3>3. slots'[s].ask = asks' /\ asks' \in Nat
      BY <1>2, <1>8
    <3>4. \A c \in Advances(View[v]) : c \in DOMAIN epoch' /\ slots'[s].ask =< epoch'[c]
      BY <1>5, <3>3
    <3>. QED  BY <3>2, <3>4
  <2>2. \A s \in DOMAIN slots' \ (starts \cup clears) :
            s \in DOMAIN slots /\ slots'[s].ask = slots[s].ask
    BY <1>8
  <2>. HIDE DEF starts, clears
  <2>3. \A s \in DOMAIN slots' :
            \/ s \in DOMAIN slots /\ slots'[s].ask = slots[s].ask
            \/ \E V \in Rows : /\ s \in Writes(V)
                               /\ \A c \in Advances(V) :
                                      c \in DOMAIN epoch' /\ slots'[s].ask =< epoch'[c]
    BY <2>1, <2>2
  <2>. QED  BY <2>3, <1>4, SlotsKept DEF IInv
<1>10. SlotsOrdered
  <2>. HIDE DEF starts, clears
  <2>1. \A s \in DOMAIN slots : slots[s].ask \in Nat /\ slots[s].ask =< asks'
    BY <1>2 DEF IInv, TypeOK
  <2>. QED  BY <2>1, <1>8 DEF SlotsOrdered
<1>. QED  BY <1>6, <1>9, <1>10 DEF IInv

\* An answer that is let in and writes the slots of N.
LEMMA AnswerOrder ==
    ASSUME IInv, TypeOK', EpochsKept, reads' \subseteq reads,
           NEW r \in reads, Current(r), NEW N,
           DOMAIN slots' = DOMAIN slots \cup N,
           \A s \in DOMAIN slots \ N : slots'[s] = slots[s],
           \A s \in N : slots'[s].ask = r.ask,
           N \subseteq Touches(View[r.view]),
           \A s \in N : s \in View[r.view].shows \/ s \notin Spared(r)
    PROVE  IInv' /\ SlotsOrdered
<1>1. View[r.view] \in Rows /\ N \subseteq Writes(View[r.view])
    BY RowFacts DEF IInv, TypeOK
<1>2. \A c \in Advances(View[r.view]) : c \in DOMAIN epoch' /\ r.ask =< epoch'[c]
  <2>. TAKE c \in Advances(View[r.view])
  <2>1. c \in DOMAIN epoch /\ r.ask =< epoch[c]
    BY DEF IInv, ReadsAreAsked
  <2>2. r.ask \in Nat /\ epoch[c] \in Nat /\ epoch'[c] \in Nat /\ c \in DOMAIN epoch'
    BY <2>1 DEF IInv, TypeOK, EpochsKept
  <2>. QED  BY <2>1, <2>2 DEF EpochsKept
<1>3. \A s \in DOMAIN slots' :
          \/ s \in DOMAIN slots /\ slots'[s].ask = slots[s].ask
          \/ \E V \in Rows : /\ s \in Writes(V)
                             /\ \A c \in Advances(V) :
                                    c \in DOMAIN epoch' /\ slots'[s].ask =< epoch'[c]
    BY <1>1, <1>2
<1>4. ReadsAreAsked' /\ SlotsAreAsked'
    BY <1>3, ReadsKept, SlotsKept DEF IInv
<1>5. \A s \in DOMAIN slots : slots[s].ask \in Nat
    BY DEF IInv, TypeOK
<1>6. r.ask \in Nat
    BY DEF IInv, TypeOK
<1>7. \A s \in Guarded \cap DOMAIN slots : s \in N => slots[s].ask =< r.ask
    BY NotNewer
<1>. QED  BY <1>4, <1>5, <1>6, <1>7 DEF IInv, SlotsOrdered

LEMMA SucceedOrder ==
    ASSUME IInv, TypeOK', NEW r \in reads, Succeed(r)
    PROVE  IInv' /\ SlotsOrdered
<1>. DEFINE V == View[r.view]
            emptied == V.empties \ Spared(r)
            N == V.shows \cup emptied
<1>1. /\ slots' = [s \in DOMAIN slots \cup V.shows \cup emptied |->
                     IF s \in V.shows THEN Mark("ready", r.ask, r.boot)
                     ELSE IF s \in emptied THEN Mark("blank", r.ask, r.boot) ELSE slots[s]]
      /\ Current(r) /\ UNCHANGED epoch /\ reads' \subseteq reads
    BY DEF Succeed
<1>2. /\ DOMAIN slots' = DOMAIN slots \cup N
      /\ \A s \in DOMAIN slots \ N : slots'[s] = slots[s]
      /\ \A s \in N : slots'[s].ask = r.ask
    BY <1>1 DEF Mark
<1>3. N \subseteq Touches(V) /\ \A s \in N : s \in V.shows \/ s \notin Spared(r)
    BY DEF Touches
<1>4. EpochsKept
    BY <1>1 DEF EpochsKept, IInv, TypeOK
<1>. HIDE DEF N
<1>. QED  BY <1>1, <1>2, <1>3, <1>4, AnswerOrder

LEMMA FailOrder ==
    ASSUME IInv, TypeOK', NEW r \in reads, Fail(r)
    PROVE  IInv' /\ SlotsOrdered
<1>. DEFINE V == View[r.view]
            failed == V.fails \ Spared(r)
<1>1. /\ slots' = [s \in DOMAIN slots \cup failed |->
                     IF s \in failed THEN Mark("failed", r.ask, r.boot) ELSE slots[s]]
      /\ Current(r) /\ reads' \subseteq reads
    BY DEF Fail
<1>2. /\ DOMAIN slots' = DOMAIN slots \cup failed
      /\ \A s \in DOMAIN slots \ failed : slots'[s] = slots[s]
      /\ \A s \in failed : slots'[s].ask = r.ask
    BY <1>1 DEF Mark
<1>3. failed \subseteq Touches(V) /\ \A s \in failed : s \notin Spared(r)
    BY DEF Touches
<1>4. EpochsKept
  <2>1. epoch' = [c \in DOMAIN epoch \cup V.revokes |->
                    IF c \in V.revokes THEN asks' ELSE epoch[c]]
    BY DEF Fail, Advanced
  <2>2. asks \in Nat /\ asks' >= asks /\ asks' \in Nat
    BY DEF Fail, IInv, TypeOK
  <2>. QED  BY <2>1, <2>2 DEF EpochsKept, IInv, TypeOK
<1>. HIDE DEF failed
<1>. QED  BY <1>1, <1>2, <1>3, <1>4, AnswerOrder

LEMMA OrderInductive == IInv /\ [Next]_vars => IInv' /\ SlotsOrdered
<1>. SUFFICES ASSUME IInv, [Next]_vars PROVE IInv' /\ SlotsOrdered
    OBVIOUS
<1>1. TypeOK'
    BY TypeInductive DEF IInv
<1>2. ASSUME NEW p, NEW hide, BootOn(p, hide) PROVE IInv' /\ SlotsOrdered
    BY <1>1, <1>2, EmptiedOrder DEF BootOn
<1>3. ASSUME NEW b \in booting, SignedOut(b) PROVE IInv' /\ SlotsOrdered
    BY <1>1, <1>3, EmptiedOrder DEF SignedOut
<1>4. ASSUME NEW t, NEW shown, Step(t, shown) PROVE IInv' /\ SlotsOrdered
    BY <1>1, <1>4, StepOrder
<1>5. ASSUME NEW r \in reads, Succeed(r) \/ Fail(r) PROVE IInv' /\ SlotsOrdered
    BY <1>1, <1>5, SucceedOrder, FailOrder
<1>6. CASE reads' \subseteq reads /\ UNCHANGED <<slots, epoch>>
    BY <1>1, <1>6, EmptiedOrder
<1>7. ASSUME NEW b \in booting, Superseded(b) PROVE reads' \subseteq reads /\ UNCHANGED <<slots, epoch>>
    BY <1>7 DEF Superseded
<1>8. ASSUME NEW r \in reads, Drop(r) PROVE reads' \subseteq reads /\ UNCHANGED <<slots, epoch>>
    BY <1>8 DEF Drop
<1>9. UNCHANGED vars => reads' \subseteq reads /\ UNCHANGED <<slots, epoch>>
    BY DEF vars
<1>10. TypeOK
    BY DEF IInv
<1>. QED  BY <1>2, <1>3, <1>4, <1>5, <1>6, <1>7, <1>8, <1>9, <1>10, StepCases

LEMMA OrderInitially == Init => IInv
<1>1. Init => ReadsAreAsked /\ SlotsAreAsked
    BY DEF Init, ReadsAreAsked, SlotsAreAsked
<1>. QED  BY <1>1, TypeInitially DEF IInv

\* Of a slot whose readers are ordered, whatever the table, no answer that is
\* let in is older than what it takes the place of.
THEOREM LatestAnswersWin == Spec => LatestWins
<1>1. IInv /\ [Next]_vars => [\A s \in Guarded \cap DOMAIN slots :
          s \in DOMAIN slots' /\ slots'[s].ask >= slots[s].ask]_vars
    BY OrderInductive DEF SlotsOrdered
<1>2. IInv /\ [Next]_vars => IInv'
    BY OrderInductive
<1>. QED  BY <1>1, <1>2, OrderInitially, PTL DEF Spec, LatestWins

-----------------------------------------------------------------------------
(* Settling.  A promised slot that says nothing yet is coming: a current   *)
(* answer fills it, or the rest of a script that no exception can end.     *)
(* What puts an end to that is one of four: a later ask overtakes the      *)
(* reader or takes the slot down, an answer empties it, a refusal revokes  *)
(* the reader.  Of each the table says that it brings the slot back (in an *)
(* orderly table: Harmless, Onward, OrderlyView).  What was begun before   *)
(* the page came to the screen, on it or on another page of the document,  *)
(* has been overtaken by the page's first reads or does it no harm         *)
(* (Bygone); so every task and every read is kept fit for every duty that  *)
(* may come to the screen.                                                 *)
(*                                                                         *)
(* Scripts.                                                                *)

\* A script is its first step and a rest, which is its steps one earlier.
LEMMA TailFacts ==
    ASSUME NEW c \in Scripts, c # <<>>
    PROVE  /\ Tail(c) \in Scripts /\ Head(c) = c[1] /\ 1 \in DOMAIN c
           /\ \A i \in DOMAIN Tail(c) : i \in Nat \ {0} /\ i + 1 \in DOMAIN c /\ Tail(c)[i] = c[i + 1]
           /\ \A j \in DOMAIN c : j \in Nat \ {0}
                  /\ (j > 1 => j - 1 \in DOMAIN Tail(c) /\ Tail(c)[j - 1] = c[j])
    BY DEF Scripts

LEMMA PrefixFacts ==
    ASSUME NEW c \in Scripts, NEW W \in SUBSET Views
    PROVE  LET d == <<W>> \o c IN
           /\ d \in Scripts /\ d # <<>> /\ Head(d) = W /\ Tail(d) = c
    BY DEF Scripts

\* A script that comes to a reader of s comes to it at once or in its rest.
LEMMA ComesNow ==
    ASSUME NEW c \in Scripts, NEW q, NEW p, NEW s, Comes(c, 0, q, p, s)
    PROVE  /\ c # <<>>
           /\ \/ \E v \in Head(c) : Delivers(v, q, p, s)
              \/ Comes(Tail(c), 0, q, p, s) /\ ~Breaks(Head(c), s)
<1>1. PICK j \in DOMAIN c :
          /\ 0 < j /\ \E v \in c[j] : Delivers(v, q, p, s)
          /\ \A k \in DOMAIN c : 0 =< k /\ k < j => ~Breaks(c[k], s)
    BY DEF Comes
<1>2. c # <<>>
    BY <1>1 DEF Scripts
<1>3. CASE j = 1
    BY <1>1, <1>2, <1>3, TailFacts
<1>4. CASE j # 1
  <2>1. j \in Nat /\ j > 1 /\ j - 1 \in DOMAIN Tail(c) /\ Tail(c)[j - 1] = c[j]
    BY <1>2, <1>4, TailFacts
  <2>2. \A k \in DOMAIN Tail(c) : 0 =< k /\ k < j - 1 => ~Breaks(Tail(c)[k], s)
    BY <1>1, <1>2, <2>1, TailFacts
  <2>3. ~Breaks(Head(c), s)
    BY <1>1, <1>2, <2>1, TailFacts
  <2>. QED  BY <1>1, <1>2, <2>1, <2>2, <2>3 DEF Comes
<1>. QED  BY <1>3, <1>4

\* What comes after the first step comes in the rest.
LEMMA ComesLater ==
    ASSUME NEW c \in Scripts, NEW q, NEW p, NEW s, NEW i \in DOMAIN c,
           Comes(c, i, q, p, s)
    PROVE  IF i = 1 THEN Comes(Tail(c), 0, q, p, s) /\ ~Breaks(Head(c), s)
                    ELSE Comes(Tail(c), i - 1, q, p, s)
<1>0. c # <<>> /\ i \in Nat \ {0}
    BY DEF Scripts
<1>1. PICK j \in DOMAIN c :
          /\ i < j /\ \E v \in c[j] : Delivers(v, q, p, s)
          /\ \A k \in DOMAIN c : i =< k /\ k < j => ~Breaks(c[k], s)
    BY DEF Comes
<1>2. j \in Nat /\ j > 1 /\ j - 1 \in DOMAIN Tail(c) /\ Tail(c)[j - 1] = c[j]
    BY <1>0, <1>1, TailFacts
<1>3. ASSUME NEW k \in DOMAIN Tail(c), i - 1 =< k, k < j - 1 PROVE ~Breaks(Tail(c)[k], s)
  <2>1. k \in Nat /\ k + 1 \in DOMAIN c /\ Tail(c)[k] = c[k + 1]
    BY <1>0, TailFacts
  <2>2. i =< k + 1 /\ k + 1 < j
    BY <1>0, <1>2, <1>3, <2>1
  <2>. QED  BY <1>1, <2>1, <2>2
<1>4. Comes(Tail(c), i - 1, q, p, s)
    BY <1>0, <1>1, <1>2, <1>3 DEF Comes
<1>5. i = 1 => ~Breaks(Head(c), s)
    BY <1>0, <1>1, <1>2, TailFacts
<1>. QED  BY <1>4, <1>5

\* What the first step of a harmless script disturbs comes at once or in its rest.
LEMMA HarmlessNow ==
    ASSUME NEW c \in Scripts, c # <<>>, NEW q, NEW p, NEW s, Harmless(c, q, p, s),
           NEW v \in Head(c), Disturbs(v, q, p, s)
    PROVE  \/ Delivers(v, q, p, s)
           \/ Comes(Tail(c), 0, q, p, s) /\ ~Breaks(Head(c), s)
<1>1. 1 \in DOMAIN c /\ v \in c[1]
    BY TailFacts
<1>2. Delivers(v, q, p, s) \/ Comes(c, 1, q, p, s)
    BY <1>1 DEF Harmless
<1>. QED  BY <1>1, <1>2, ComesLater

LEMMA HarmlessLater ==
    ASSUME NEW c \in Scripts, c # <<>>, NEW q, NEW p, NEW s, Harmless(c, q, p, s)
    PROVE  Harmless(Tail(c), q, p, s) /\ \A v \in Head(c) : Onward(v, q, p, s)
<1>1. ASSUME NEW i \in DOMAIN Tail(c), NEW v \in Tail(c)[i]
      PROVE  /\ Disturbs(v, q, p, s) => Delivers(v, q, p, s) \/ Comes(Tail(c), i, q, p, s)
             /\ Onward(v, q, p, s)
  <2>1. i \in Nat \ {0} /\ i + 1 \in DOMAIN c /\ v \in c[i + 1]
    BY <1>1, TailFacts
  <2>2. Onward(v, q, p, s)
    BY <2>1 DEF Harmless
  <2>3. ASSUME Disturbs(v, q, p, s) PROVE Delivers(v, q, p, s) \/ Comes(Tail(c), i, q, p, s)
    <3>1. Delivers(v, q, p, s) \/ Comes(c, i + 1, q, p, s)
      BY <2>1, <2>3 DEF Harmless
    <3>. QED  BY <2>1, <3>1, ComesLater
  <2>. QED  BY <2>2, <2>3
<1>2. \A v \in Head(c) : Onward(v, q, p, s)
    BY TailFacts DEF Harmless
<1>. QED  BY <1>1, <1>2 DEF Harmless

\* A harmless script does no harm once its first reads have been asked for.
LEMMA HarmlessBygone ==
    ASSUME NEW c \in Scripts, c # <<>>, NEW q, NEW d, NEW s, Harmless(c, q, d.page, s)
    PROVE  Bygone(c, q, d, s)
<1>1. ASSUME NEW v \in Head(c), Empties(v, q, d.page, s)
      PROVE  Delivers(v, q, d.page, s) \/ Comes(c, 1, q, d.page, s)
  <2>1. 1 \in DOMAIN c /\ v \in c[1] /\ Disturbs(v, q, d.page, s)
    BY <1>1, TailFacts DEF Disturbs
  <2>. QED  BY <2>1 DEF Harmless
<1>. QED  BY <1>1, HarmlessLater DEF Bygone

\* The rest of a script has readers that throw alone in their steps, too.
LEMMA SoloFacts ==
    ASSUME NEW c \in Scripts, c # <<>>, Solo(c)
    PROVE  /\ Solo(Tail(c))
           /\ \A v \in Head(c) : View[v].throws => Head(c) = {v}
    BY TailFacts DEF Solo

\* A script that goes on first with the readers of W, none of which throws.
LEMMA PrefixComes ==
    ASSUME NEW c \in Scripts, NEW W \in SUBSET Views, NEW q, NEW p, NEW s,
           \A w \in W : ~View[w].throws,
           (\E w \in W : Delivers(w, q, p, s)) \/ Comes(c, 0, q, p, s)
    PROVE  Comes(<<W>> \o c, 0, q, p, s)
<1>. DEFINE d == <<W>> \o c
<1>1. d \in Scripts /\ d # <<>> /\ Head(d) = W /\ Tail(d) = c
    BY PrefixFacts
<1>. SUFFICES Comes(d, 0, q, p, s)
    OBVIOUS
<1>. HIDE DEF d
<1>2. 1 \in DOMAIN d /\ d[1] = W /\ \A k \in DOMAIN d : k \in Nat \ {0}
    BY <1>1, TailFacts
<1>3. CASE \E w \in W : Delivers(w, q, p, s)
    BY <1>2, <1>3 DEF Comes
<1>4. CASE Comes(c, 0, q, p, s)
  <2>1. PICK j \in DOMAIN c :
            /\ 0 < j /\ \E v \in c[j] : Delivers(v, q, p, s)
            /\ \A k \in DOMAIN c : 0 =< k /\ k < j => ~Breaks(c[k], s)
    BY <1>4 DEF Comes
  <2>2. j \in Nat \ {0} /\ j + 1 \in DOMAIN d /\ d[j + 1] = c[j]
    BY <1>1, TailFacts
  <2>3. ASSUME NEW k \in DOMAIN d, 0 =< k, k < j + 1 PROVE ~Breaks(d[k], s)
    <3>1. CASE k = 1
      BY <1>2, <3>1 DEF Breaks
    <3>2. CASE k # 1
      <4>1. k - 1 \in DOMAIN c /\ c[k - 1] = d[k] /\ k \in Nat /\ k > 1
        BY <1>1, <1>2, <3>2, TailFacts
      <4>. QED  BY <2>1, <2>2, <2>3, <4>1
    <3>. QED  BY <3>1, <3>2
  <2>. QED  BY <2>1, <2>2, <2>3 DEF Comes
<1>. QED  BY <1>3, <1>4

LEMMA PrefixHarmless ==
    ASSUME NEW c \in Scripts, NEW W \in SUBSET Views, NEW q, NEW p, NEW s,
           \A w \in W : View[w].then = {},
           \A w \in W : Disturbs(w, q, p, s) => Delivers(w, q, p, s),
           Harmless(c, q, p, s)
    PROVE  Harmless(<<W>> \o c, q, p, s)
<1>. DEFINE d == <<W>> \o c
<1>1. d \in Scripts /\ d # <<>> /\ Head(d) = W /\ Tail(d) = c
    BY PrefixFacts
<1>. HIDE DEF d
<1>0. ASSUME NEW i \in DOMAIN d, NEW v \in d[i] PROVE Onward(v, q, p, s)
  <2>1. CASE i = 1
    BY <1>1, <2>1, TailFacts DEF Onward
  <2>2. CASE i # 1
    <3>1. i - 1 \in DOMAIN c /\ c[i - 1] = d[i]
      BY <1>1, <2>2, TailFacts
    <3>. QED  BY <3>1 DEF Harmless
  <2>. QED  BY <2>1, <2>2
<1>. SUFFICES ASSUME NEW i \in DOMAIN d, NEW v \in d[i], Disturbs(v, q, p, s)
              PROVE  Delivers(v, q, p, s) \/ Comes(d, i, q, p, s)
    BY <1>0 DEF Harmless, d
<1>2. CASE i = 1
    BY <1>1, <1>2, TailFacts
<1>3. CASE i # 1
  <2>1. i \in Nat /\ i > 1 /\ i - 1 \in DOMAIN c /\ c[i - 1] = d[i]
    BY <1>1, <1>3, TailFacts
  <2>2. CASE Comes(c, i - 1, q, p, s)
    <3>1. PICK j \in DOMAIN c :
              /\ i - 1 < j /\ \E u \in c[j] : Delivers(u, q, p, s)
              /\ \A k \in DOMAIN c : i - 1 =< k /\ k < j => ~Breaks(c[k], s)
      BY <2>2 DEF Comes
    <3>2. j \in Nat \ {0} /\ j + 1 \in DOMAIN d /\ d[j + 1] = c[j]
      BY <1>1, TailFacts
    <3>3. ASSUME NEW k \in DOMAIN d, i =< k, k < j + 1 PROVE ~Breaks(d[k], s)
      <4>1. k \in Nat /\ k > 1
        BY <1>1, <2>1, <3>3, TailFacts
      <4>2. k - 1 \in DOMAIN c /\ c[k - 1] = d[k]
        BY <1>1, <4>1, TailFacts
      <4>. QED  BY <2>1, <3>1, <3>2, <3>3, <4>1, <4>2
    <3>. QED  BY <2>1, <3>1, <3>2, <3>3 DEF Comes
  <2>. QED  BY <2>1, <2>2 DEF Harmless
<1>. QED  BY <1>2, <1>3

LEMMA PrefixSolo ==
    ASSUME NEW c \in Scripts, NEW W \in SUBSET Views, \A w \in W : ~View[w].throws, Solo(c)
    PROVE  Solo(<<W>> \o c)
<1>. DEFINE d == <<W>> \o c
<1>1. d \in Scripts /\ d # <<>> /\ Head(d) = W /\ Tail(d) = c
    BY PrefixFacts
<1>. HIDE DEF d
<1>2. ASSUME NEW i \in DOMAIN d, NEW v \in d[i], View[v].throws PROVE d[i] = {v}
  <2>1. i # 1
    BY <1>1, <1>2, TailFacts
  <2>2. i - 1 \in DOMAIN c /\ c[i - 1] = d[i]
    BY <1>1, <2>1, TailFacts
  <2>. QED  BY <1>2, <2>2 DEF Solo
<1>. QED  BY <1>2 DEF Solo, d

-----------------------------------------------------------------------------
(* What is still to come, to a page p.                                     *)

\* Nothing has overtaken r; its answer is let in if p is on the screen.
Newest(r) == epoch[View[r.view].channel] = r.ask
Lively(r, p) == r.boot = boot /\ Newest(r) /\ (View[r.view].fence # "none" => r.page = p)
Heard(r, p) == Lively(r, p) /\ (View[r.view].auth => signed)

\* r goes on to a reader that fills s, or leaves it failed.
GoesOn(r, p, s) ==
    /\ s \in Sure(r.view)
    /\ \E t \in tasks : t.id = r.task /\ \E w \in View[r.view].then :
           Lands(w, t.page, p) /\ s \in Fills(w)

\* The rest of t delivers s, and no exception of t can prevent it.
Relied(t, p, s) ==
    /\ Comes(t.rest, 0, t.page, p, s)
    /\ \A r \in reads : r.task = t.id /\ View[r.view].throws => s \in Sure(r.view)

Coming(p, s) ==
    \/ \E r \in reads : Heard(r, p) /\ (s \in Fills(r.view) \/ GoesOn(r, p, s))
    \/ \E t \in tasks : Relied(t, p, s)

\* What the answer to r takes down, its script brings back.
Repaired(r, p, s) ==
    Lively(r, p) /\ s \in View[r.view].empties \ View[r.view].shows =>
        GoesOn(r, p, s) \/ \E t \in tasks : t.id = r.task /\ Relied(t, p, s)

\* Chains are numbered by bootstraps, scripts by clicks; a reader that throws
\* has no other beside it.
Given(id) == IF id.by = "chain" THEN id.n =< settled ELSE id.n =< clicks
GivenNext(id) == IF id.by = "chain" THEN id.n =< settled' ELSE id.n =< clicks'
IdsFit ==
    /\ \A a, b \in booting : a.boot = b.boot => a = b
    /\ \A b \in booting : b.boot = boot => settled < boot
    /\ \A t \in tasks : Given(t.id)
    /\ \A r \in reads : Given(r.task)
    /\ \A t, u \in tasks : t.id = u.id => t = u
    /\ \A r, q \in reads : r.task = q.task /\ View[r.view].throws => r = q

\* Of every duty that may come to the screen: what is left of a script does no
\* harm to it, and a read is overtaken or repairs what it takes down.
TasksFit(J) ==
    \A t \in tasks :
        /\ Solo(t.rest)
        /\ \A d \in Duties : t.page \in J[d.page] => \A s \in Promised(d.script) :
               /\ Harmless(t.rest, t.page, d.page, s)
               /\ \A r \in reads : r.task = t.id => Onward(r.view, t.page, d.page, s)
ReadsFit ==
    \A r \in reads : \A d \in Duties : \A s \in Promised(d.script) :
        Overtaken(r.view, d) \/ Repaired(r, d.page, s)

\* What is under way was begun on the pages of this document.
PagesJoined(J) ==
    /\ \A b \in booting : b.page \in J[screen]
    /\ \A r \in reads : r.page \in J[screen]
    /\ \A t \in tasks : t.page \in J[screen]

\* The page on the screen was promised what a duty promises, and what takes
\* any of it down repairs it.
OnDuty == owed = {} \/ \E d \in Duties : d.page = screen /\ owed \subseteq Promised(d.script)
Repairs == \A s \in owed : \A r \in reads : Repaired(r, screen, s)

Said(s) == State(s) \in {"ready", "failed"}
PromisesStand == \A s \in owed : Said(s) \/ Coming(screen, s)

SettlingInv(J) ==
    /\ IInv
    /\ IdsFit
    /\ owed # {} => signed
    /\ TasksFit(J)
    /\ ReadsFit
    /\ PagesJoined(J)
    /\ OnDuty
    /\ Repairs
    /\ PromisesStand

\* A page p that is on the screen after the step.
StillSettling == OnDuty' /\ Repairs' /\ PromisesStand'
LEMMA SettlingAt ==
    ASSUME NEW p, p = screen', NEW d \in Duties, d.page = p, owed' \subseteq Promised(d.script),
           \A s \in owed' : \A r \in reads' : Repaired(r, p, s)',
           \A s \in owed' : Said(s)' \/ Coming(p, s)'
    PROVE  StillSettling
<1>1. OnDuty'
    BY DEF OnDuty
<1>2. Repairs'
    BY DEF Repairs, Repaired, Lively, Newest, GoesOn, Relied
<1>3. PromisesStand'
    BY DEF PromisesStand, Coming, Heard, Lively, Newest, GoesOn, Relied
<1>. QED  BY <1>1, <1>2, <1>3 DEF StillSettling

LEMMA NothingOwed ==
    ASSUME owed' = {}
    PROVE  StillSettling
    BY DEF StillSettling, OnDuty, Repairs, PromisesStand

-----------------------------------------------------------------------------
(* The tasks of a step.                                                    *)

Same(u, t) == u.id = t.id /\ u.page = t.page

\* What an answer does to the tasks: the script of r goes on, the others stay.
GoneOn(t, r, more) == IF t.id = r.task THEN [t EXCEPT !.rest = more \o @] ELSE t
LEMMA GoesFacts ==
    ASSUME TypeOK, NEW r \in reads, NEW more \in Scripts, Goes(r, more),
           reads' \subseteq reads
    PROVE  /\ \A u \in tasks' : \E t \in tasks : u = GoneOn(t, r, more) /\ Same(u, t)
           /\ \A u \in tasks' : \E t \in tasks :
                  Same(u, t) /\ (u = t \/ (t.id = r.task /\ u.rest = more \o t.rest))
           /\ \A t \in tasks : (t.id # r.task /\ (t.rest # <<>> \/ \E q \in reads' : q.task = t.id))
                  => t \in tasks'
           /\ \A t \in tasks : (t.id = r.task /\ (more # <<>> \/ t.rest # <<>> \/ \E q \in reads' : q.task = t.id))
                  => \E u \in tasks' : Same(u, t) /\ u.rest = more \o t.rest
<1>. DEFINE F(t) == GoneOn(t, r, more)
<1>1. tasks' = {t \in {F(t) : t \in tasks} : t.rest # <<>> \/ \E q \in reads' : q.task = t.id}
    BY DEF Goes, Tidy, GoneOn
<1>2. \A t \in tasks : /\ t \in [id: Ids, page: Pages, rest: Scripts]
                       /\ Same(F(t), t)
                       /\ t.id = r.task => F(t).rest = more \o t.rest
                       /\ t.id # r.task => F(t) = t
    BY DEF TypeOK, Same, GoneOn
<1>3. \A t \in tasks : more # <<>> \/ t.rest # <<>> => more \o t.rest # <<>>
    BY <1>2 DEF Scripts
<1>. HIDE DEF F
<1>4. ASSUME NEW u \in tasks'
      PROVE  \E t \in tasks : Same(u, t) /\ (u = t \/ (t.id = r.task /\ u.rest = more \o t.rest))
  <2>1. PICK t \in tasks : u = F(t)
    BY <1>1
  <2>2. CASE t.id = r.task
    BY <1>2, <2>1, <2>2
  <2>3. CASE t.id # r.task
    <3>1. u = t /\ Same(u, t)
      BY <1>2, <2>1, <2>3
    <3>. QED  BY <2>1, <3>1
  <2>. QED  BY <2>2, <2>3
<1>5. ASSUME NEW t \in tasks, t.id # r.task, t.rest # <<>> \/ \E q \in reads' : q.task = t.id
      PROVE  t \in tasks'
    BY <1>1, <1>2, <1>5
<1>6. ASSUME NEW t \in tasks, t.id = r.task,
             more # <<>> \/ t.rest # <<>> \/ \E q \in reads' : q.task = t.id
      PROVE  \E u \in tasks' : Same(u, t) /\ u.rest = more \o t.rest
  <2>1. F(t).id = t.id /\ F(t).rest = more \o t.rest
    BY <1>2, <1>6 DEF Same
  <2>2. F(t) \in tasks'
    BY <1>1, <1>3, <1>6, <2>1
  <2>. QED  BY <1>2, <2>1, <2>2
<1>7. \A u \in tasks' : \E t \in tasks : u = F(t) /\ Same(u, t)
    BY <1>1, <1>2
<1>. QED  BY <1>4, <1>5, <1>6, <1>7 DEF F

LEMMA EmptyPrefix ==
    ASSUME NEW c \in Scripts
    PROVE  <<>> \o c = c
    BY DEF Scripts

\* Readers go on with what follows them.
More(r) == IF View[r.view].then = {} THEN <<>> ELSE <<View[r.view].then>>
LEMMA MoreFacts ==
    ASSUME TypeOK, NEW r \in reads
    PROVE  /\ More(r) \in Scripts /\ r.view \in Views /\ View[r.view].then \in SUBSET Views
           /\ More(r) = <<>> \/ More(r) = <<View[r.view].then>>
           /\ View[r.view].then # {} => More(r) = <<View[r.view].then>> /\ More(r) # <<>>
<1>1. r.view \in Views /\ View[r.view].then \in SUBSET Views
    BY ViewAssumption DEF TypeOK
<1>2. <<>> \in Scripts /\ \A S \in SUBSET Views : <<S>> \in Scripts /\ <<S>> # <<>>
    BY DEF Scripts
<1>. QED  BY <1>1, <1>2 DEF More

-----------------------------------------------------------------------------
(* What a step leaves in place.  The scripts of Lost are looked at apart.  *)

LEMMA Carry ==
    ASSUME TypeOK, UNCHANGED boot, NEW Lost, NEW p, NEW s,
           \A r \in reads' : r.task \notin Lost => r \in reads,
           \A r \in reads' : r.task \notin Lost /\ Newest(r)' => Newest(r),
           \A t \in tasks : t.id \notin Lost /\ (t.rest # <<>> \/ \E r \in reads' : r.task = t.id) =>
               \E u \in tasks' :
                   /\ Same(u, t)
                   /\ Comes(t.rest, 0, t.page, p, s) => Comes(u.rest, 0, u.page, p, s)
    PROVE  /\ \A r \in reads' : r.task \notin Lost /\ GoesOn(r, p, s) => GoesOn(r, p, s)'
           /\ \A t \in tasks : t.id \notin Lost /\ Relied(t, p, s) =>
                  \E u \in tasks' : u.id = t.id /\ Relied(u, p, s)'
           /\ \A r \in reads' : r.task \notin Lost /\ Repaired(r, p, s) => Repaired(r, p, s)'
<1>1. ASSUME NEW r \in reads', r.task \notin Lost, GoesOn(r, p, s) PROVE GoesOn(r, p, s)'
  <2>1. PICK t \in tasks : t.id = r.task /\ \E w \in View[r.view].then :
            Lands(w, t.page, p) /\ s \in Fills(w)
    BY <1>1 DEF GoesOn
  <2>2. PICK u \in tasks' : Same(u, t)
    BY <1>1, <2>1
  <2>3. s \in Sure(r.view)
    BY <1>1 DEF GoesOn
  <2>. QED  BY <2>1, <2>2, <2>3 DEF GoesOn, Same
<1>2. ASSUME NEW t \in tasks, t.id \notin Lost, Relied(t, p, s)
      PROVE  \E u \in tasks' : u.id = t.id /\ Relied(u, p, s)'
  <2>1. Comes(t.rest, 0, t.page, p, s)
    BY <1>2 DEF Relied
  <2>2. t.rest # <<>>
    BY <2>1, ComesNow DEF TypeOK
  <2>3. PICK u \in tasks' : Same(u, t) /\ Comes(u.rest, 0, u.page, p, s)
    BY <1>2, <2>1, <2>2
  <2>4. \A r \in reads' : r.task = u.id /\ View[r.view].throws => s \in Sure(r.view)
    BY <1>2, <2>3 DEF Relied, Same
  <2>. QED  BY <2>3, <2>4 DEF Relied, Same
<1>3. ASSUME NEW r \in reads', r.task \notin Lost, Repaired(r, p, s) PROVE Repaired(r, p, s)'
  <2>. SUFFICES ASSUME Lively(r, p)', s \in View[r.view].empties \ View[r.view].shows
                PROVE  GoesOn(r, p, s)' \/ \E u \in tasks' : u.id = r.task /\ Relied(u, p, s)'
    BY DEF Repaired
  <2>0. Lively(r, p)
    BY <1>3 DEF Lively
  <2>1. CASE GoesOn(r, p, s)
    BY <1>1, <1>3, <2>1
  <2>2. ASSUME NEW t \in tasks, t.id = r.task, Relied(t, p, s)
        PROVE  \E u \in tasks' : u.id = r.task /\ Relied(u, p, s)'
    BY <1>2, <1>3, <2>2
  <2>. QED  BY <1>3, <2>0, <2>1, <2>2 DEF Repaired
<1>. QED  BY <1>1, <1>2, <1>3

-----------------------------------------------------------------------------
(* Asking.  What the four steps that ask for reads have in common.         *)

\* t is under way and is to ask next, or begins under a new id; whatever may be
\* promised on a page that t may still run beside, the rest of it is fit for.
Asker(J, t, shown) ==
    /\ Step(t, shown)
    /\ \A r \in reads : r.task # t.id
    /\ \A x \in tasks : x.id = t.id => x = t
    /\ Solo(t.rest) /\ GivenNext(t.id)
    /\ \A b \in booting' : b.boot = boot => settled' < boot
    /\ t.page \in J[screen'] /\ J[screen'] = J[screen]
    /\ \A d \in Duties : t.page \in J[d.page] =>
           \A s \in Promised(d.script) : Bygone(t.rest, t.page, d, s)

\* Asking takes one step off a script.
LEMMA StepTasks ==
    ASSUME NEW t, NEW shown, Step(t, shown)
    PROVE  LET u == [t EXCEPT !.rest = Tail(@)] IN
           /\ t.rest \in Scripts /\ t.rest # <<>> /\ Tail(t.rest) \in Scripts
           /\ u.id = t.id /\ u.page = t.page /\ u.rest = Tail(t.rest)
           /\ \A x \in tasks' : x \in tasks \ {t} \/ x = u
           /\ \A x \in tasks \ {t} :
                  x.rest # <<>> \/ (\E r \in reads' : r.task = x.id) => x \in tasks'
           /\ u.rest # <<>> \/ (\E r \in reads' : r.task = t.id) => u \in tasks'
<1>. DEFINE u == [t EXCEPT !.rest = Tail(@)]
<1>1. /\ t \in [id: Ids, page: Pages, rest: Scripts] /\ t.rest # <<>>
      /\ tasks' = Tidy((tasks \ {t}) \cup {u}, reads')
    BY DEF Step, Asking
<1>2. t.rest \in Scripts /\ Tail(t.rest) \in Scripts
    BY <1>1, ScriptFacts
<1>3. u.id = t.id /\ u.page = t.page /\ u.rest = Tail(t.rest)
    BY <1>1
<1>. HIDE DEF u
<1>4. /\ \A x \in tasks' : x \in tasks \ {t} \/ x = u
      /\ \A x \in tasks \ {t} :
             x.rest # <<>> \/ (\E r \in reads' : r.task = x.id) => x \in tasks'
      /\ u.rest # <<>> \/ (\E r \in reads' : r.task = t.id) => u \in tasks'
    BY <1>1, <1>3 DEF Tidy
<1>. QED  BY <1>1, <1>2, <1>3, <1>4 DEF u

\* The request of v, if it goes on to ask.
Asked(r, v, t) ==
    /\ r.view = v /\ r.page = PathOf(v, t) /\ r.ask = asks' /\ r.boot = boot /\ r.task = t.id

\* The requests and the epochs after asking.
LEMMA StepReads ==
    ASSUME NEW t, NEW shown, Step(t, shown)
    PROVE  /\ \A v \in Head(t.rest) : v \in Views /\ View[v].channel \in Advances(View[v])
           /\ \A v \in Head(t.rest) : Asks(v, t) => \E r \in reads' : Asked(r, v, t)
           /\ reads \subseteq reads'
           /\ \A r \in reads' : r \in reads \/ \E v \in Head(t.rest) : Asks(v, t) /\ Asked(r, v, t)
           /\ \A r, q \in reads' \ reads : r.view = q.view => r = q
           /\ \A v \in Head(t.rest) : \A c \in Advances(View[v]) : epoch'[c] = asks'
           /\ \A c \in DOMAIN epoch :
                  (\A v \in Head(t.rest) : c \notin Advances(View[v])) => epoch'[c] = epoch[c]
<1>. DEFINE group == Head(t.rest)
            going == {v \in group : Asks(v, t)}
            C == UNION {Advances(View[v]) : v \in group}
            read(v) == [view |-> v, page |-> PathOf(v, t), ask |-> asks',
                        boot |-> boot, task |-> t.id]
<1>0. Asking(t, shown) /\ t.rest \in Scripts /\ t.rest # <<>>
    BY DEF Step
<1>1. group \subseteq Views
    BY <1>0, ScriptFacts
<1>2. \A v \in group : View[v].channel \in Advances(View[v])
    BY <1>1, RowFacts
<1>3. epoch' = [c \in DOMAIN epoch \cup C |-> IF c \in C THEN asks' ELSE epoch[c]]
    BY <1>0 DEF Asking, Advanced
<1>4. reads' = reads \cup {read(v) : v \in going}
    BY <1>0 DEF Asking
<1>5. \A v \in group : Asked(read(v), v, t) /\ read(v).view = v
    BY DEF Asked
<1>. HIDE DEF read
<1>6. /\ \A v \in group : Asks(v, t) => \E r \in reads' : Asked(r, v, t)
      /\ reads \subseteq reads'
      /\ \A r \in reads' : r \in reads \/ \E v \in group : Asks(v, t) /\ Asked(r, v, t)
      /\ \A r, q \in reads' \ reads : r.view = q.view => r = q
    BY <1>4, <1>5
<1>. QED  BY <1>1, <1>2, <1>3, <1>6

\* Reads are overtaken, never renewed.
LEMMA StepNewest ==
    ASSUME TypeOK, ReadsAreAsked, NEW t, NEW shown, Step(t, shown), NEW r \in reads
    PROVE  /\ Newest(r)' => Newest(r)
           /\ (\E v \in Head(t.rest) : View[r.view].channel \in Advances(View[v])) => ~Newest(r)'
           /\ (\A v \in Head(t.rest) : View[r.view].channel \notin Advances(View[v])) =>
                  (Newest(r) => Newest(r)')
<1>1. View[r.view].channel \in DOMAIN epoch /\ r.ask \in Nat /\ r.ask =< asks
    BY RowFacts DEF TypeOK, ReadsAreAsked
<1>2. asks' = asks + 1 /\ asks \in Nat
    BY DEF Step, Asking, TypeOK
<1>3. CASE \E v \in Head(t.rest) : View[r.view].channel \in Advances(View[v])
  <2>1. epoch'[View[r.view].channel] = asks'
    BY <1>3, StepReads
  <2>. QED  BY <1>1, <1>2, <1>3, <2>1 DEF Newest
<1>4. CASE \A v \in Head(t.rest) : View[r.view].channel \notin Advances(View[v])
  <2>1. epoch'[View[r.view].channel] = epoch[View[r.view].channel]
    BY <1>1, <1>4, StepReads
  <2>. QED  BY <1>4, <2>1 DEF Newest
<1>. QED  BY <1>3, <1>4

\* What the next reads of t leave.
LEMMA StepFrame ==
    ASSUME TypeOK, ReadsAreAsked, NEW J, NEW t, NEW shown, Asker(J, t, shown), NEW p, NEW s
    PROVE  /\ \A r \in reads : GoesOn(r, p, s) => GoesOn(r, p, s)'
           /\ \A x \in tasks : x # t /\ Relied(x, p, s) => \E u \in tasks' : Relied(u, p, s)'
           /\ \A r \in reads : Repaired(r, p, s) => Repaired(r, p, s)'
<1>. DEFINE Lost == {t.id}
<1>0. Step(t, shown)
    BY DEF Asker
<1>1. UNCHANGED boot /\ \A r \in reads : r \in reads' /\ r.task # t.id
    BY <1>0, StepReads DEF Asker, Step
<1>2. \A r \in reads' : r.task \notin Lost => r \in reads
    BY <1>0, StepReads DEF Asked
<1>3. \A r \in reads' : r.task \notin Lost /\ Newest(r)' => Newest(r)
    BY <1>0, <1>2, StepNewest
<1>4. \A x \in tasks : x.id \notin Lost /\ (x.rest # <<>> \/ \E r \in reads' : r.task = x.id) =>
          x \in tasks' /\ Same(x, x)
    BY <1>0, StepTasks DEF Same
<1>5. \A x \in tasks : x.id \notin Lost /\ (x.rest # <<>> \/ \E r \in reads' : r.task = x.id) =>
          \E u \in tasks' :
              /\ Same(u, x)
              /\ Comes(x.rest, 0, x.page, p, s) => Comes(u.rest, 0, u.page, p, s)
    BY <1>4
<1>6. /\ \A r \in reads : r.task \notin Lost
      /\ \A x \in tasks : x # t => x.id \notin Lost
    BY <1>1 DEF Asker
<1>. HIDE DEF Lost
<1>7. /\ \A r \in reads' : r.task \notin Lost /\ GoesOn(r, p, s) => GoesOn(r, p, s)'
      /\ \A x \in tasks : x.id \notin Lost /\ Relied(x, p, s) =>
             \E u \in tasks' : u.id = x.id /\ Relied(u, p, s)'
      /\ \A r \in reads' : r.task \notin Lost /\ Repaired(r, p, s) => Repaired(r, p, s)'
    BY <1>1, <1>2, <1>3, <1>5, Carry
<1>. QED  BY <1>1, <1>6, <1>7

\* A reader of the step that delivers s, or one that the rest comes to unless an
\* exception of this step prevents it.
LEMMA StepComes ==
    ASSUME TypeOK, NEW J, NEW t, NEW shown, Asker(J, t, shown), signed',
           NEW p, p = screen', NEW s,
           \/ \E v \in Head(t.rest) : Delivers(v, t.page, p, s)
           \/ Comes(Tail(t.rest), 0, t.page, p, s) /\ ~Breaks(Head(t.rest), s)
    PROVE  Coming(p, s)'
<1>. DEFINE u == [t EXCEPT !.rest = Tail(@)]
<1>0. Step(t, shown) /\ UNCHANGED boot /\ \A r \in reads : r.task # t.id
    BY DEF Asker, Step
<1>1. /\ u.id = t.id /\ u.page = t.page /\ u.rest = Tail(t.rest) /\ Tail(t.rest) \in Scripts
      /\ u.rest # <<>> \/ (\E r \in reads' : r.task = t.id) => u \in tasks'
    BY <1>0, StepTasks
<1>. HIDE DEF u
<1>2. ASSUME NEW v \in Head(t.rest), Delivers(v, t.page, p, s) PROVE Coming(p, s)'
  <2>1. Asks(v, t) /\ Lands(v, t.page, p)
    BY <1>2 DEF Delivers, Lands, Going, Asks
  <2>2. PICK r \in reads' : Asked(r, v, t)
    BY <1>0, <1>2, <2>1, StepReads
  <2>3. epoch'[View[v].channel] = asks'
    BY <1>0, <1>2, StepReads
  <2>4. View[v].fence # "none" => PathOf(v, t) = p
    BY <2>1 DEF PathOf, Lands, Going
  <2>5. Heard(r, p)'
    BY <1>0, <2>2, <2>3, <2>4 DEF Heard, Lively, Newest, Asked
  <2>6. u \in tasks'
    BY <1>1, <2>2 DEF Asked
  <2>7. s \in Fills(v) \/ GoesOn(r, p, s)'
    BY <1>1, <1>2, <2>2, <2>6 DEF Delivers, GoesOn, Asked
  <2>. QED  BY <2>2, <2>5, <2>7 DEF Coming, Asked
<1>3. CASE Comes(Tail(t.rest), 0, t.page, p, s) /\ ~Breaks(Head(t.rest), s)
  <2>1. u.rest # <<>> /\ u \in tasks'
    BY <1>1, <1>3, ComesNow
  <2>2. ASSUME NEW r \in reads', r.task = u.id, View[r.view].throws PROVE s \in Sure(r.view)
    <3>1. r.view \in Head(t.rest)
      BY <1>0, <1>1, <2>2, StepReads DEF Asked
    <3>. QED  BY <1>3, <2>2, <3>1 DEF Breaks
  <2>3. Relied(u, p, s)'
    BY <1>1, <1>3, <2>2 DEF Relied
  <2>. QED  BY <2>1, <2>3 DEF Coming
<1>. QED  BY <1>2, <1>3

\* A new request whose answer is let in on p was asked on p, or for it.
LEMMA AskedFor ==
    ASSUME NEW v \in Views, NEW t, NEW r, Asked(r, v, t), Asks(v, t), NEW p, Lively(r, p)',
           View[v].fence = "none" => View[v].empties = {},
           NEW s \in View[v].empties \ View[v].shows
    PROVE  Empties(v, t.page, p, s) /\ p \in {t.page, screen'}
<1>1. View[v].fence # "none" /\ PathOf(v, t) = p
    BY DEF Lively, Asked
<1>2. Going(v, t.page, p)
    BY <1>1 DEF Asks, Going, PathOf
<1>. QED  BY <1>1, <1>2 DEF Empties, Lands, PathOf

\* A new request whose answer takes s down brings it back in its script.
LEMMA StepRepaired ==
    ASSUME NEW J, NEW t, NEW shown, Asker(J, t, shown), NEW p, NEW s,
           NEW r \in reads', r \notin reads,
           View[r.view].fence = "none" => View[r.view].empties = {},
           Empties(r.view, t.page, p, s) =>
               Delivers(r.view, t.page, p, s) \/ Comes(t.rest, 1, t.page, p, s)
    PROVE  Repaired(r, p, s)'
<1>. DEFINE u == [t EXCEPT !.rest = Tail(@)]
<1>0. Step(t, shown) /\ \A q \in reads : q.task # t.id
    BY DEF Asker
<1>1. /\ u.id = t.id /\ u.page = t.page /\ u.rest = Tail(t.rest)
      /\ t.rest \in Scripts /\ t.rest # <<>> /\ Tail(t.rest) \in Scripts
      /\ u.rest # <<>> \/ (\E q \in reads' : q.task = t.id) => u \in tasks'
    BY <1>0, StepTasks
<1>. HIDE DEF u
<1>. DEFINE v == r.view
<1>2. v \in Head(t.rest) /\ Asks(v, t) /\ Asked(r, v, t) /\ v \in Views
    BY <1>0, StepReads DEF Asked
<1>3. u \in tasks' /\ u.id = r.task
    BY <1>1, <1>2 DEF Asked
<1>. SUFFICES ASSUME Lively(r, p)', s \in View[v].empties \ View[v].shows
              PROVE  GoesOn(r, p, s)' \/ Relied(u, p, s)'
    BY <1>3 DEF Repaired
<1>4. Empties(v, t.page, p, s)
    BY <1>2, AskedFor
<1>5. CASE Delivers(v, t.page, p, s)
  <2>1. s \notin Fills(v)
    BY DEF Fills
  <2>2. s \in Sure(v) /\ \E w \in View[v].then : Lands(w, t.page, p) /\ s \in Fills(w)
    BY <1>5, <2>1 DEF Delivers
  <2>. QED  BY <1>1, <1>3, <2>2 DEF GoesOn
<1>6. CASE Comes(t.rest, 1, t.page, p, s)
  <2>1. Comes(Tail(t.rest), 0, t.page, p, s) /\ ~Breaks(Head(t.rest), s)
    BY <1>1, <1>6, TailFacts, ComesLater
  <2>2. ASSUME NEW q \in reads', q.task = u.id, View[q.view].throws PROVE s \in Sure(q.view)
    <3>1. q.view \in Head(t.rest)
      BY <1>0, <1>1, <2>2, StepReads DEF Asked
    <3>. QED  BY <2>1, <2>2, <3>1 DEF Breaks
  <2>. QED  BY <1>1, <2>1, <2>2 DEF Relied
<1>. QED  BY <1>4, <1>5, <1>6

-----------------------------------------------------------------------------
(* Ids.                                                                    *)

LEMMA IdFacts ==
    ASSUME TypeOK, IdsFit
    PROVE  /\ boot \in Nat /\ settled \in Nat /\ settled =< boot /\ clicks \in Nat
           /\ \A b \in booting : b.boot \in Nat /\ b.boot =< boot
           /\ \A t \in tasks : t.id.n \in Nat
           /\ \A r \in reads : r.task.n \in Nat
    BY DEF TypeOK, Ids

\* A step that starts no task and asks nothing.
LEMMA IdsStay ==
    ASSUME TypeOK, IdsFit, reads' \subseteq reads, booting' \subseteq booting,
           UNCHANGED <<boot, settled, clicks>>,
           \A u \in tasks' : \E t \in tasks : u.id = t.id,
           \A u, x \in tasks' : u.id = x.id => u = x
    PROVE  IdsFit'
    BY DEF IdsFit, Given

\* A step that asks.
LEMMA IdsAsked ==
    ASSUME TypeOK, IdsFit, NEW J, NEW t, NEW shown, Asker(J, t, shown)
    PROVE  IdsFit'
<1>. DEFINE u == [t EXCEPT !.rest = Tail(@)]
<1>1. /\ Step(t, shown) /\ \A r \in reads : r.task # t.id
      /\ \A x \in tasks : x.id = t.id => x = t
      /\ Solo(t.rest) /\ GivenNext(t.id)
      /\ \A b \in booting' : b.boot = boot => settled' < boot
    BY DEF Asker
<1>2. /\ UNCHANGED boot /\ booting' \subseteq booting /\ settled =< settled' /\ clicks =< clicks'
      /\ settled' \in Nat /\ clicks' \in Nat
    BY <1>1 DEF Step, TypeOK
<1>3. ASSUME NEW id, id.n \in Nat, Given(id) PROVE GivenNext(id)
    BY <1>2, <1>3, IdFacts DEF Given, GivenNext
<1>4. /\ t.rest \in Scripts /\ t.rest # <<>> /\ u.id = t.id
      /\ \A x \in tasks' : x \in tasks \ {t} \/ x = u
    BY <1>1, StepTasks
<1>. HIDE DEF u
<1>5. \A x \in tasks' : GivenNext(x.id)
    BY <1>1, <1>3, <1>4, IdFacts DEF IdsFit
<1>6. \A r \in reads' : r \in reads \/ (r.task = t.id /\ r.view \in Head(t.rest))
    BY <1>1, StepReads DEF Asked
<1>7. \A r \in reads' : GivenNext(r.task)
    BY <1>1, <1>3, <1>6, IdFacts DEF IdsFit
<1>8. \A x, y \in tasks' : x.id = y.id => x = y
    BY <1>1, <1>4 DEF IdsFit
<1>9. \A v \in Head(t.rest) : View[v].throws => Head(t.rest) = {v}
    BY <1>1, <1>4, SoloFacts
<1>10. \A r, q \in reads' \ reads : r.view = q.view => r = q
    BY <1>1, StepReads
<1>11. \A r, q \in reads' : r.task = q.task /\ View[r.view].throws => r = q
    BY <1>1, <1>6, <1>9, <1>10 DEF IdsFit
<1>. QED  BY <1>1, <1>2, <1>5, <1>7, <1>8, <1>11 DEF IdsFit, Given, GivenNext

\* hydrate() begins, or its answer is let in or dropped.
LEMMA IdsBooted ==
    ASSUME TypeOK, IdsFit, NEW p, NEW hide, BootOn(p, hide)
    PROVE  IdsFit'
<1>1. \A b \in booting : b.boot # boot + 1
    BY IdFacts
<1>. QED  BY <1>1, IdFacts DEF BootOn, IdsFit, Given

LEMMA IdsSettled ==
    ASSUME TypeOK, IdsFit, NEW b \in booting, Superseded(b) \/ SignedOut(b)
    PROVE  IdsFit'
<1>1. CASE Superseded(b)
    BY <1>1 DEF Superseded, IdsFit, Given
<1>2. CASE SignedOut(b)
  <2>1. /\ UNCHANGED <<reads, tasks, boot, clicks>> /\ settled' = boot /\ booting' \subseteq booting
    BY <1>2 DEF SignedOut, Settle
  <2>2. \A a \in booting' : a.boot = boot => settled' < boot
    BY <1>2 DEF SignedOut, Settle, IdsFit
  <2>. QED  BY <2>1, <2>2, IdFacts DEF IdsFit, Given
<1>. QED  BY <1>1, <1>2

\* An answer: the script of r goes on, or ends.
LEMMA IdsAnswered ==
    ASSUME TypeOK, IdsFit, NEW r \in reads, reads' \subseteq reads,
           UNCHANGED <<boot, booting, settled, clicks>>,
           Ends(r) \/ \E more \in Scripts : Goes(r, more)
    PROVE  IdsFit'
<1>1. CASE Ends(r)
    BY <1>1, IdsStay DEF Ends, IdsFit
<1>2. ASSUME NEW more \in Scripts, Goes(r, more) PROVE IdsFit'
  <2>1. \A u \in tasks' : \E t \in tasks : u = GoneOn(t, r, more) /\ Same(u, t)
    BY <1>2, GoesFacts
  <2>2. /\ \A u \in tasks' : \E t \in tasks : u.id = t.id
        /\ \A u, x \in tasks' : u.id = x.id => u = x
    BY <2>1 DEF Same, IdsFit
  <2>. QED  BY <2>2, IdsStay
<1>. QED  BY <1>1, <1>2

-----------------------------------------------------------------------------
(* The table.                                                              *)

\* What an orderly table says of the pages of a document, of a duty ...
LEMMA JoinedFacts ==
    ASSUME NEW J, Orderly(J)
    PROVE  /\ \A p \in Pages : J[p] \subseteq Pages /\ p \in J[p] /\ \A q \in J[p] : J[q] = J[p]
           /\ \A l \in Links : \A p, q \in l : J[p] = J[q]
           /\ \A h \in Handoffs : J[h.from] = J[h.to]
    BY DEF Orderly, Closed

LEMMA DutyFacts ==
    ASSUME NEW J, Orderly(J), NEW d \in Duties
    PROVE  /\ d.page \in Pages /\ d.script \in Scripts /\ d.script # <<>>
           /\ d.script \in ScriptsOf(d.page)
           /\ \A s \in Promised(d.script) : Kept(J, d, s)
<1>1. ASSUME NEW p \in Pages, d = ChainDuty(p)
      PROVE  /\ d.page \in Pages /\ d.script \in Scripts /\ d.script # <<>>
             /\ d.script \in ScriptsOf(d.page)
  <2>1. d.page = p /\ d.script = Page[p].chain
    BY <1>1 DEF ChainDuty
  <2>. QED  BY <2>1, PageAssumption DEF ScriptsOf
<1>2. ASSUME NEW h \in Handoffs, d = HandDuty(h)
      PROVE  /\ d.page \in Pages /\ d.script \in Scripts /\ d.script # <<>>
             /\ d.script \in ScriptsOf(d.page)
  <2>1. d.page = h.to /\ d.script = h.script
    BY <1>2 DEF HandDuty
  <2>. QED  BY <2>1, PageAssumption DEF ScriptsOf
<1>3. (\E p \in Pages : d = ChainDuty(p)) \/ (\E h \in Handoffs : d = HandDuty(h))
    BY DEF Duties
<1>4. \A s \in Promised(d.script) : Kept(J, d, s)
    BY DEF Orderly
<1>. QED  BY <1>1, <1>2, <1>3, <1>4

\* ... of the scripts that may be started on a page, before a duty begins ...
LEMMA ScriptFits ==
    ASSUME NEW J, Orderly(J), NEW q \in Pages, NEW c \in ScriptsOf(q)
    PROVE  /\ c \in Scripts /\ Solo(c)
           /\ \A d \in Duties : q \in J[d.page] =>
                  \A s \in Promised(d.script) : Bygone(c, q, d, s)
<1>1. c \in Scripts
    BY PageAssumption DEF ScriptsOf
<1>2. Solo(c)
    BY DEF Orderly
<1>3. ASSUME NEW d \in Duties, q \in J[d.page], NEW s \in Promised(d.script)
      PROVE  Bygone(c, q, d, s)
    BY <1>3, DutyFacts DEF Kept
<1>. QED  BY <1>1, <1>2, <1>3

\* ... and of readers.
LEMMA ThenFacts ==
    ASSUME NEW J, Orderly(J), NEW v \in Views
    PROVE  /\ View[v].then \in SUBSET Views
           /\ \A w \in View[v].then : ~View[w].throws /\ View[w].then = {}
           /\ View[v].fence = "none" => View[v].empties = {}
    BY ViewAssumption DEF Orderly, OrderlyView

-----------------------------------------------------------------------------
(* Who asks.                                                               *)

LEMMA NewAsker ==
    ASSUME NEW J, Orderly(J), TypeOK, IdsFit,
           NEW by \in {"chain", "click"}, NEW n \in Nat, NEW q \in Pages, NEW c \in ScriptsOf(q),
           c \in Scripts, NEW shown, Step(Task(by, n, q, c), shown),
           IF by = "chain" THEN settled < n /\ n = settled' ELSE clicks < n /\ n = clicks',
           \A b \in booting' : b.boot = boot => settled' < boot,
           q = screen', J[q] = J[screen]
    PROVE  Asker(J, Task(by, n, q, c), shown)
<1>. DEFINE t == Task(by, n, q, c)
<1>1. t.rest = c /\ t.page = q /\ t.id.by = by /\ t.id.n = n
    BY TaskFacts
<1>2. Step(t, shown)
    OBVIOUS
<1>. HIDE DEF t
<1>3. \A id : id.by = by /\ id.n = n => ~Given(id) /\ GivenNext(id)
    BY IdFacts DEF Given, GivenNext
<1>4. /\ \A r \in reads : r.task # t.id
      /\ \A x \in tasks : x.id # t.id
    BY <1>1, <1>3 DEF IdsFit
<1>5. GivenNext(t.id)
    BY <1>1, <1>3
<1>6. Solo(t.rest) /\ t.page \in J[screen'] /\ J[screen'] = J[screen]
    BY <1>1, ScriptFits, JoinedFacts
<1>7. \A d \in Duties : t.page \in J[d.page] => \A s \in Promised(d.script) : Bygone(t.rest, t.page, d, s)
    BY <1>1, ScriptFits
<1>8. Asker(J, t, shown)
    BY <1>2, <1>4, <1>5, <1>6, <1>7 DEF Asker
<1>. QED  BY <1>8 DEF t

LEMMA AskAsker ==
    ASSUME NEW J, Orderly(J), SettlingInv(J), NEW t \in tasks, Ask(t)
    PROVE  Asker(J, t, slots)
<1>1. TypeOK /\ IdsFit /\ TasksFit(J) /\ PagesJoined(J)
    BY DEF SettlingInv, IInv
<1>2. Step(t, slots) /\ t.rest \in Scripts /\ t.rest # <<>> /\ t.page \in Pages
    BY <1>1, AskStep DEF Step, TypeOK
<1>3. UNCHANGED <<screen, boot, booting, settled, clicks>> /\ \A r \in reads : r.task # t.id
    BY DEF Ask
<1>4. /\ \A x \in tasks : x.id = t.id => x = t
      /\ GivenNext(t.id) /\ \A b \in booting' : b.boot = boot => settled' < boot
    BY <1>1, <1>3 DEF IdsFit, Given, GivenNext
<1>5. t.page \in J[screen'] /\ J[screen'] = J[screen]
    BY <1>1, <1>3 DEF PagesJoined
<1>6. Solo(t.rest)
    BY <1>1 DEF TasksFit
<1>7. \A d \in Duties : t.page \in J[d.page] => \A s \in Promised(d.script) : Bygone(t.rest, t.page, d, s)
    BY <1>1, <1>2, HarmlessBygone DEF TasksFit
<1>. QED  BY <1>2, <1>3, <1>4, <1>5, <1>6, <1>7 DEF Asker

LEMMA ClickAsker ==
    ASSUME NEW J, Orderly(J), SettlingInv(J), NEW script \in Page[screen].clicks, Click(script)
    PROVE  Asker(J, Task("click", clicks', screen, script), slots)
<1>1. TypeOK /\ IdsFit /\ screen \in Pages
    BY DEF SettlingInv, IInv, TypeOK
<1>2. PICK n, q : n = clicks' /\ q = screen
    OBVIOUS
<1>3. UNCHANGED <<screen, boot, booting, settled>> /\ clicks' = clicks + 1
    BY DEF Click
<1>4. q \in Pages /\ script \in ScriptsOf(q) /\ script \in Scripts /\ n \in Nat /\ clicks < n
    BY <1>1, <1>2, <1>3, PageAssumption DEF ScriptsOf, TypeOK
<1>5. Step(Task("click", n, q, script), slots)
    BY <1>1, <1>2, ClickStep
<1>6. \A b \in booting' : b.boot = boot => settled' < boot
    BY <1>1, <1>3 DEF IdsFit
<1>7. Asker(J, Task("click", n, q, script), slots)
    BY <1>1, <1>2, <1>3, <1>4, <1>5, <1>6, NewAsker
<1>. QED  BY <1>2, <1>7

LEMMA HandoffAsker ==
    ASSUME NEW J, Orderly(J), SettlingInv(J), NEW h \in Handoffs, Handoff(h)
    PROVE  Asker(J, Task("click", clicks', h.to, h.script), Emptied(owed'))
<1>1. TypeOK /\ IdsFit
    BY DEF SettlingInv, IInv
<1>2. PICK n, S : n = clicks' /\ S = owed'
    OBVIOUS
<1>3. UNCHANGED <<boot, booting, settled>> /\ clicks' = clicks + 1 /\ h.from = screen /\ screen' = h.to
    BY DEF Handoff
<1>4. /\ h.to \in Pages /\ h.script \in ScriptsOf(h.to) /\ h.script \in Scripts
      /\ n \in Nat /\ clicks < n
    BY <1>1, <1>2, <1>3, PageAssumption DEF ScriptsOf, TypeOK
<1>5. Step(Task("click", n, h.to, h.script), Emptied(S))
    BY <1>1, <1>2, HandoffStep
<1>6. \A b \in booting' : b.boot = boot => settled' < boot
    BY <1>1, <1>3 DEF IdsFit
<1>7. J[h.to] = J[screen]
    BY <1>3, JoinedFacts
<1>8. Asker(J, Task("click", n, h.to, h.script), Emptied(S))
    BY <1>1, <1>2, <1>3, <1>4, <1>5, <1>6, <1>7, NewAsker
<1>. QED  BY <1>2, <1>8

LEMMA BootstrappedAsker ==
    ASSUME NEW J, Orderly(J), SettlingInv(J), NEW b \in booting, Bootstrapped(b)
    PROVE  Asker(J, Task("chain", b.boot, b.page, Page[b.page].chain), Emptied(Slots))
<1>1. TypeOK /\ IdsFit /\ PagesJoined(J) /\ screen \in Pages
    BY DEF SettlingInv, IInv, TypeOK
<1>2. /\ UNCHANGED boot /\ b.boot = boot /\ settled' = b.boot /\ booting' = booting \ {b}
      /\ screen' = b.page
    BY DEF Bootstrapped, Settle
<1>3. /\ b.page \in Pages /\ Page[b.page].chain \in ScriptsOf(b.page)
      /\ Page[b.page].chain \in Scripts /\ b.boot \in Nat /\ settled < b.boot
    BY <1>1, <1>2, PageAssumption DEF ScriptsOf, TypeOK, IdsFit
<1>4. Step(Task("chain", b.boot, b.page, Page[b.page].chain), Emptied(Slots))
    BY <1>1, BootstrappedStep
<1>5. \A a \in booting' : a.boot = boot => settled' < boot
    BY <1>1, <1>2 DEF IdsFit
<1>6. J[b.page] = J[screen]
    BY <1>1, JoinedFacts DEF PagesJoined
<1>. QED  BY <1>1, <1>2, <1>3, <1>4, <1>5, <1>6, NewAsker

-----------------------------------------------------------------------------
(* Every script and every read stays fit.                                  *)

LEMMA AskedFits ==
    ASSUME NEW J, Orderly(J), SettlingInv(J), NEW t, NEW shown, Asker(J, t, shown)
    PROVE  TasksFit(J)' /\ ReadsFit' /\ PagesJoined(J)'
<1>. DEFINE u == [t EXCEPT !.rest = Tail(@)]
<1>1. /\ TypeOK /\ ReadsAreAsked /\ IdsFit /\ TasksFit(J) /\ ReadsFit /\ PagesJoined(J)
    BY DEF SettlingInv, IInv
<1>2. /\ Step(t, shown) /\ booting' \subseteq booting /\ \A r \in reads : r.task # t.id
      /\ \A x \in tasks : x.id = t.id => x = t
      /\ Solo(t.rest) /\ t.page \in J[screen'] /\ J[screen'] = J[screen] /\ screen' \in Pages
      /\ t.page \in Pages
    BY DEF Asker, Step
<1>3. /\ t.rest \in Scripts /\ t.rest # <<>> /\ u.id = t.id /\ u.page = t.page /\ u.rest = Tail(t.rest)
      /\ \A x \in tasks' : x \in tasks \ {t} \/ x = u
    BY <1>2, StepTasks
<1>. HIDE DEF u
<1>4. \A r \in reads' : r \in reads \/ \E v \in Head(t.rest) : v \in Views /\ Asks(v, t) /\ Asked(r, v, t)
    BY <1>2, StepReads
<1>5. TasksFit(J)'
  <2>. SUFFICES ASSUME NEW x \in tasks'
                PROVE  /\ Solo(x.rest)
                       /\ \A d \in Duties : x.page \in J[d.page] => \A s \in Promised(d.script) :
                              /\ Harmless(x.rest, x.page, d.page, s)
                              /\ \A r \in reads' : r.task = x.id => Onward(r.view, x.page, d.page, s)
    BY DEF TasksFit
  <2>1. CASE x \in tasks \ {t}
    <3>1. \A r \in reads' : r.task = x.id => r \in reads
      BY <1>2, <1>4, <2>1 DEF Asked
    <3>. QED  BY <1>1, <2>1, <3>1 DEF TasksFit
  <2>2. CASE x = u
    <3>1. \A r \in reads' : r.task = x.id => r.view \in Head(t.rest)
      BY <1>2, <1>3, <1>4, <2>2 DEF Asked
    <3>2. Solo(x.rest)
      BY <1>2, <1>3, <2>2, SoloFacts
    <3>3. ASSUME NEW d \in Duties, x.page \in J[d.page], NEW s \in Promised(d.script)
          PROVE  Bygone(t.rest, t.page, d, s)
      BY <1>3, <2>2, <3>3 DEF Asker
    <3>. QED  BY <1>3, <2>2, <3>1, <3>2, <3>3 DEF Bygone
  <2>. QED  BY <1>3, <2>1, <2>2
<1>6. ReadsFit'
  <2>. SUFFICES ASSUME NEW r \in reads', NEW d \in Duties, NEW s \in Promised(d.script),
                       ~Overtaken(r.view, d)
                PROVE  Repaired(r, d.page, s)'
    BY DEF ReadsFit
  <2>1. CASE r \in reads
    BY <1>1, <2>1, StepFrame DEF ReadsFit
  <2>2. CASE r \notin reads
    <3>1. PICK v \in Head(t.rest) : v \in Views /\ Asks(v, t) /\ Asked(r, v, t)
      BY <1>4, <2>2
    <3>2. r.view = v /\ (View[v].fence = "none" => View[v].empties = {})
      BY <3>1, ThenFacts DEF Asked
    <3>3. CASE t.page \in J[d.page]
      <4>1. Bygone(t.rest, t.page, d, s)
        BY <3>3 DEF Asker
      <4>. QED  BY <2>2, <3>1, <3>2, <4>1, StepRepaired DEF Bygone
    <3>4. CASE t.page \notin J[d.page]
      <4>. SUFFICES ASSUME Lively(r, d.page)', s \in View[v].empties \ View[v].shows
                    PROVE  FALSE
        BY <3>2 DEF Repaired
      <4>1. d.page \in {t.page, screen'}
        BY <3>1, <3>2, AskedFor
      <4>. QED  BY <1>2, <3>4, <4>1, JoinedFacts
    <3>. QED  BY <3>3, <3>4
  <2>. QED  BY <2>1, <2>2
<1>7. PagesJoined(J)'
  <2>1. \A r \in reads' : r.page \in J[screen']
    BY <1>1, <1>2, <1>4, JoinedFacts DEF Asked, PathOf, PagesJoined
  <2>2. \A x \in tasks' : x.page \in J[screen']
    BY <1>1, <1>2, <1>3 DEF PagesJoined
  <2>. QED  BY <1>1, <1>2, <2>1, <2>2 DEF PagesJoined
<1>. QED  BY <1>5, <1>6, <1>7


-----------------------------------------------------------------------------
(* What the page is promised, step by step.                                *)

\* A duty that begins: its first reads overtake what they must, and the rest of
\* its script is to come.
LEMMA BeginsSettling ==
    ASSUME NEW J, Orderly(J), SettlingInv(J), NEW t, NEW shown, Asker(J, t, shown),
           NEW d \in Duties, t.page = d.page, t.rest = d.script, screen' = d.page,
           owed' \subseteq Promised(d.script), signed'
    PROVE  StillSettling
<1>1. TypeOK /\ ReadsAreAsked /\ ReadsFit
    BY DEF SettlingInv, IInv
<1>2. Step(t, shown) /\ t.rest \in Scripts /\ t.rest # <<>>
    BY DutyFacts DEF Asker
<1>3. ASSUME NEW s \in Promised(d.script) PROVE Kept(J, d, s)
    BY DutyFacts
<1>4. ASSUME NEW s \in Promised(d.script), NEW r \in reads' PROVE Repaired(r, d.page, s)'
  <2>1. CASE r \in reads /\ Overtaken(r.view, d)
    <3>1. ~Newest(r)'
      BY <1>1, <1>2, <2>1, StepNewest DEF Overtaken
    <3>. QED  BY <3>1 DEF Repaired, Lively
  <2>2. CASE r \in reads /\ ~Overtaken(r.view, d)
    BY <1>1, <2>2, StepFrame DEF ReadsFit
  <2>3. CASE r \notin reads
    <3>1. r.view \in Head(t.rest) /\ r.view \in Views
      BY <1>2, <2>3, StepReads DEF Asked
    <3>2. Harmless(t.rest, t.page, d.page, s)
      BY <1>3 DEF Kept
    <3>3. Bygone(t.rest, t.page, d, s) /\ 1 \in DOMAIN t.rest /\ r.view \in (t.rest)[1]
      BY <1>2, <3>1, <3>2, HarmlessBygone, TailFacts
    <3>4. Empties(r.view, t.page, d.page, s) =>
              Delivers(r.view, t.page, d.page, s) \/ Comes(t.rest, 1, t.page, d.page, s)
      BY <3>2, <3>3 DEF Harmless, Disturbs
    <3>. QED  BY <2>3, <3>1, <3>4, ThenFacts, StepRepaired
  <2>. QED  BY <2>1, <2>2, <2>3
<1>5. ASSUME NEW s \in owed' PROVE Coming(d.page, s)'
  <2>1. Comes(t.rest, 0, t.page, d.page, s)
    BY <1>3, <1>5 DEF Kept
  <2>2. \/ \E v \in Head(t.rest) : Delivers(v, t.page, d.page, s)
        \/ Comes(Tail(t.rest), 0, t.page, d.page, s) /\ ~Breaks(Head(t.rest), s)
    BY <1>2, <2>1, ComesNow
  <2>. QED  BY <1>1, <2>2, StepComes
<1>. QED  BY <1>4, <1>5, SettlingAt

\* A script that does no harm to what the page was promised.
LEMMA StandsSettling ==
    ASSUME NEW J, Orderly(J), SettlingInv(J), NEW t, Asker(J, t, slots),
           UNCHANGED <<screen, signed, owed>>,
           \A s \in owed : Harmless(t.rest, t.page, screen, s)
    PROVE  StillSettling
<1>1. TypeOK /\ ReadsAreAsked /\ PromisesStand /\ Repairs /\ OnDuty /\ (owed # {} => signed)
    BY DEF SettlingInv, IInv
<1>2. CASE owed = {}
    BY <1>2, NothingOwed
<1>3. ASSUME NEW d \in Duties, d.page = screen, owed \subseteq Promised(d.script), owed # {}
      PROVE  StillSettling
  <2>. DEFINE p == d.page
  <2>1. /\ Step(t, slots) /\ UNCHANGED boot /\ signed /\ signed'
        /\ t.rest \in Scripts /\ t.rest # <<>> /\ p = screen' /\ p = screen
    BY <1>1, <1>3, StepTasks DEF Asker, Step
  <2>. HIDE DEF p
  <2>2. ASSUME NEW s \in owed', NEW r \in reads' PROVE Repaired(r, p, s)'
    <3>0. s \in owed /\ Harmless(t.rest, t.page, p, s)
      BY <2>1, <2>2
    <3>1. CASE r \in reads
      BY <1>1, <2>1, <3>0, <3>1, StepFrame DEF Repairs
    <3>2. CASE r \notin reads
      <4>1. r.view \in Head(t.rest) /\ r.view \in Views /\ 1 \in DOMAIN t.rest
        BY <2>1, <3>2, StepReads, TailFacts DEF Asked
      <4>2. Empties(r.view, t.page, p, s) =>
                Delivers(r.view, t.page, p, s) \/ Comes(t.rest, 1, t.page, p, s)
        BY <2>1, <3>0, <4>1, TailFacts DEF Harmless, Disturbs
      <4>. QED  BY <3>2, <4>1, <4>2, ThenFacts, StepRepaired
    <3>. QED  BY <3>1, <3>2
  <2>3. ASSUME NEW s \in owed' PROVE Said(s)' \/ Coming(p, s)'
    <3>1. Harmless(t.rest, t.page, p, s) /\ (Said(s) \/ Coming(p, s))
      BY <1>1, <2>1, <2>3 DEF PromisesStand
    <3>2. ASSUME NEW v \in Head(t.rest), Disturbs(v, t.page, p, s) PROVE Coming(p, s)'
      <4>1. \/ Delivers(v, t.page, p, s)
            \/ Comes(Tail(t.rest), 0, t.page, p, s) /\ ~Breaks(Head(t.rest), s)
        BY <2>1, <3>1, <3>2, HarmlessNow
      <4>. QED  BY <1>1, <2>1, <4>1, StepComes
    <3>3. CASE \A v \in Head(t.rest) : ~Disturbs(v, t.page, p, s)
      <4>1. CASE Said(s)
        <5>1. \A v \in Head(t.rest) : Asks(v, t) => s \notin View[v].starts \cup View[v].clears
          BY <2>1, <3>3 DEF Disturbs, Going, Asks
        <5>2. s \in DOMAIN slots => s \in DOMAIN slots' /\ slots'[s] = slots[s]
          BY <2>1, <5>1 DEF Step, Asking
        <5>3. s \in DOMAIN slots
          BY <4>1 DEF Said, State
        <5>. QED  BY <4>1, <5>2, <5>3 DEF Said, State
      <4>2. ASSUME NEW r \in reads, Heard(r, p), s \in Fills(r.view) \/ GoesOn(r, p, s)
            PROVE  Coming(p, s)'
        <5>1. s \in Brings(r.view) /\ r.view \in Views
          BY <1>1, <4>2 DEF Brings, GoesOn, TypeOK
        <5>2. \A v \in Head(t.rest) : View[r.view].channel \notin Advances(View[v])
          BY <3>3, <5>1 DEF Disturbs
        <5>3. Newest(r)'
          BY <1>1, <2>1, <4>2, <5>2, StepNewest DEF Heard, Lively
        <5>4. Heard(r, p)' /\ r \in reads'
          BY <2>1, <4>2, <5>3, StepReads DEF Heard, Lively
        <5>5. GoesOn(r, p, s) => GoesOn(r, p, s)'
          BY <1>1, StepFrame
        <5>. QED  BY <4>2, <5>4, <5>5 DEF Coming
      <4>3. ASSUME NEW x \in tasks, Relied(x, p, s) PROVE Coming(p, s)'
        <5>1. CASE x = t
          <6>1. \/ \E v \in Head(t.rest) : Delivers(v, t.page, p, s)
                \/ Comes(Tail(t.rest), 0, t.page, p, s) /\ ~Breaks(Head(t.rest), s)
            BY <2>1, <4>3, <5>1, ComesNow DEF Relied
          <6>. QED  BY <1>1, <2>1, <6>1, StepComes
        <5>2. CASE x # t
          BY <1>1, <4>3, <5>2, StepFrame DEF Coming
        <5>. QED  BY <5>1, <5>2
      <4>. QED  BY <3>1, <4>1, <4>2, <4>3 DEF Coming
    <3>. QED  BY <3>2, <3>3
  <2>. QED  BY <1>3, <2>1, <2>2, <2>3, SettlingAt DEF p
<1>. QED  BY <1>1, <1>2, <1>3 DEF OnDuty

LEMMA AskSettling ==
    ASSUME NEW J, Orderly(J), SettlingInv(J), NEW t \in tasks, Ask(t)
    PROVE  StillSettling
<1>1. OnDuty /\ TasksFit(J) /\ PagesJoined(J)
    BY DEF SettlingInv
<1>2. Asker(J, t, slots) /\ UNCHANGED <<screen, signed, owed>>
    BY AskAsker DEF Ask
<1>3. \A s \in owed : Harmless(t.rest, t.page, screen, s)
    BY <1>1 DEF OnDuty, TasksFit, PagesJoined
<1>. QED  BY <1>2, <1>3, StandsSettling

LEMMA ClickSettling ==
    ASSUME NEW J, Orderly(J), SettlingInv(J), NEW script \in Page[screen].clicks, Click(script)
    PROVE  StillSettling
<1>1. OnDuty /\ screen \in Pages
    BY DEF SettlingInv, IInv, TypeOK
<1>2. PICK n : n = clicks'
    OBVIOUS
<1>3. UNCHANGED <<screen, signed, owed>> /\ n \in Nat
    BY <1>2 DEF Click, SettlingInv, IInv, TypeOK
<1>4. script \in Scripts
    BY <1>1, PageAssumption
<1>. DEFINE t == Task("click", n, screen, script)
<1>5. t.rest = script /\ t.page = screen
    BY <1>1, <1>3, <1>4, TaskFacts
<1>6. Asker(J, t, slots)
    BY <1>2, ClickAsker
<1>. HIDE DEF t
<1>7. \A s \in owed : Harmless(t.rest, t.page, screen, s)
    BY <1>1, <1>5, DutyFacts DEF OnDuty, Kept
<1>. QED  BY <1>3, <1>6, <1>7, StandsSettling

LEMMA HandoffSettling ==
    ASSUME NEW J, Orderly(J), SettlingInv(J), NEW h \in Handoffs, Handoff(h)
    PROVE  StillSettling
<1>1. PICK n, S : n = clicks' /\ S = owed'
    OBVIOUS
<1>2. /\ screen' = h.to /\ owed' = Promised(h.script) /\ signed' /\ n \in Nat
    BY <1>1 DEF Handoff, SettlingInv, IInv, TypeOK
<1>3. h.to \in Pages /\ h.script \in Scripts
    BY PageAssumption
<1>4. /\ HandDuty(h) \in Duties /\ HandDuty(h).page = h.to /\ HandDuty(h).script = h.script
    BY DEF Duties, HandDuty
<1>. DEFINE t == Task("click", n, h.to, h.script)
<1>5. t.rest = h.script /\ t.page = h.to
    BY <1>2, <1>3, TaskFacts
<1>6. Asker(J, t, Emptied(S))
    BY <1>1, HandoffAsker
<1>. HIDE DEF t
<1>. QED  BY <1>2, <1>4, <1>5, <1>6, BeginsSettling

LEMMA BootstrappedSettling ==
    ASSUME NEW J, Orderly(J), SettlingInv(J), NEW b \in booting, Bootstrapped(b)
    PROVE  StillSettling
<1>1. /\ screen' = b.page /\ owed' = Promised(Page[b.page].chain) /\ signed'
    BY DEF Bootstrapped, Settle
<1>2. b.page \in Pages /\ b.boot \in Nat /\ Page[b.page].chain \in Scripts
    BY PageAssumption DEF SettlingInv, IInv, TypeOK
<1>3. /\ ChainDuty(b.page) \in Duties /\ ChainDuty(b.page).page = b.page
      /\ ChainDuty(b.page).script = Page[b.page].chain
    BY <1>2 DEF Duties, ChainDuty
<1>. DEFINE t == Task("chain", b.boot, b.page, Page[b.page].chain)
<1>4. t.rest = Page[b.page].chain /\ t.page = b.page
    BY <1>2, TaskFacts
<1>5. Asker(J, t, Emptied(Slots))
    BY BootstrappedAsker
<1>. HIDE DEF t
<1>. QED  BY <1>1, <1>3, <1>4, <1>5, BeginsSettling

\* hydrate() promises nothing yet, and lets no older answer in; nor does a
\* merge without a session.
LEMMA BootOnFits ==
    ASSUME NEW J, Orderly(J), SettlingInv(J), NEW p \in Pages, NEW hide, BootOn(p, hide),
           p = screen \/ (\E l \in Links : {screen, p} \subseteq l)
    PROVE  TasksFit(J)' /\ ReadsFit' /\ PagesJoined(J)' /\ StillSettling
<1>1. TypeOK /\ TasksFit(J) /\ PagesJoined(J) /\ screen \in Pages
    BY DEF SettlingInv, IInv, TypeOK
<1>2. /\ screen' = p /\ boot' = boot + 1 /\ owed' = {} /\ UNCHANGED <<reads, tasks>>
      /\ booting' = booting \cup {[boot |-> boot + 1, page |-> p]}
    BY DEF BootOn
<1>3. J[p] = J[screen] /\ p \in J[p]
    BY <1>1, JoinedFacts
<1>4. TasksFit(J)'
    BY <1>1, <1>2 DEF TasksFit
<1>5. \A r \in reads' : r.boot # boot'
    BY <1>1, <1>2 DEF TypeOK
<1>6. ReadsFit'
    BY <1>5 DEF ReadsFit, Repaired, Lively
<1>7. PagesJoined(J)'
    BY <1>1, <1>2, <1>3 DEF PagesJoined
<1>. QED  BY <1>2, <1>4, <1>6, <1>7, NothingOwed

LEMMA SignedOutFits ==
    ASSUME NEW J, Orderly(J), SettlingInv(J), NEW b \in booting, SignedOut(b)
    PROVE  TasksFit(J)' /\ ReadsFit' /\ PagesJoined(J)' /\ StillSettling
<1>1. TasksFit(J) /\ ReadsFit /\ PagesJoined(J) /\ screen \in Pages
    BY DEF SettlingInv, IInv, TypeOK
<1>2. /\ screen' = b.page /\ owed' = {} /\ booting' \subseteq booting
      /\ UNCHANGED <<boot, epoch, reads, tasks>>
    BY DEF SignedOut, Settle
<1>3. J[b.page] = J[screen]
    BY <1>1, JoinedFacts DEF PagesJoined
<1>4. TasksFit(J)'
    BY <1>1, <1>2 DEF TasksFit
<1>5. ReadsFit'
    BY <1>1, <1>2 DEF ReadsFit, Repaired, Lively, Newest, GoesOn, Relied
<1>6. PagesJoined(J)'
    BY <1>1, <1>2, <1>3 DEF PagesJoined
<1>. QED  BY <1>2, <1>4, <1>5, <1>6, NothingOwed

\* A step that leaves the screen, the slots, the epochs and the tasks as they
\* are, and asks nothing.
LEMMA UnmovedFits ==
    ASSUME NEW J, SettlingInv(J), booting' \subseteq booting,
           UNCHANGED <<screen, boot, signed, epoch, slots, reads, tasks, owed>>
    PROVE  TasksFit(J)' /\ ReadsFit' /\ PagesJoined(J)' /\ StillSettling
<1>1. /\ TasksFit(J) /\ ReadsFit /\ PagesJoined(J)
      /\ OnDuty /\ Repairs /\ PromisesStand
    BY DEF SettlingInv
<1>2. TasksFit(J)'
    BY <1>1 DEF TasksFit
<1>3. ReadsFit'
    BY <1>1 DEF ReadsFit, Repaired, Lively, Newest, GoesOn, Relied
<1>4. PagesJoined(J)'
    BY <1>1 DEF PagesJoined
<1>5. OnDuty' /\ Repairs'
    BY <1>1 DEF OnDuty, Repairs, Repaired, Lively, Newest, GoesOn, Relied
<1>6. PromisesStand'
    BY <1>1 DEF PromisesStand, Said, State, Coming, Heard, Lively, Newest, GoesOn, Relied
<1>. QED  BY <1>2, <1>3, <1>4, <1>5, <1>6 DEF StillSettling

-----------------------------------------------------------------------------
(* Answers.                                                                *)

\* The script of r goes on, first with more.
LEMMA GoesFrame ==
    ASSUME TypeOK, NEW r \in reads, NEW more \in Scripts, Goes(r, more),
           reads' \subseteq reads, UNCHANGED boot, NEW p, NEW s,
           \A q \in reads' : Newest(q)' => Newest(q),
           \A t \in tasks : Comes(t.rest, 0, t.page, p, s) => Comes(more \o t.rest, 0, t.page, p, s)
    PROVE  /\ \A q \in reads' : GoesOn(q, p, s) => GoesOn(q, p, s)'
           /\ \A t \in tasks : Relied(t, p, s) => \E u \in tasks' : Relied(u, p, s)'
           /\ \A q \in reads' : Repaired(q, p, s) => Repaired(q, p, s)'
<1>1. PICK Lost : Lost = {}
    OBVIOUS
<1>2. ASSUME NEW t \in tasks, t.rest # <<>> \/ \E q \in reads' : q.task = t.id
      PROVE  \E u \in tasks' :
                 /\ Same(u, t)
                 /\ Comes(t.rest, 0, t.page, p, s) => Comes(u.rest, 0, u.page, p, s)
  <2>1. CASE t.id # r.task
    <3>1. t \in tasks'
      BY <1>2, <2>1, GoesFacts
    <3>. QED  BY <3>1 DEF Same
  <2>2. CASE t.id = r.task
    <3>1. PICK u \in tasks' : Same(u, t) /\ u.rest = more \o t.rest
      BY <1>2, <2>2, GoesFacts
    <3>. QED  BY <3>1 DEF Same
  <2>. QED  BY <2>1, <2>2
<1>3. /\ \A q \in reads' : q.task \notin Lost => q \in reads
      /\ \A q \in reads' : q.task \notin Lost /\ Newest(q)' => Newest(q)
      /\ \A t \in tasks : t.id \notin Lost /\ (t.rest # <<>> \/ \E q \in reads' : q.task = t.id) =>
             \E u \in tasks' :
                 /\ Same(u, t)
                 /\ Comes(t.rest, 0, t.page, p, s) => Comes(u.rest, 0, u.page, p, s)
    BY <1>2
<1>4. /\ \A q \in reads' : q.task \notin Lost /\ GoesOn(q, p, s) => GoesOn(q, p, s)'
      /\ \A t \in tasks : t.id \notin Lost /\ Relied(t, p, s) =>
             \E u \in tasks' : u.id = t.id /\ Relied(u, p, s)'
      /\ \A q \in reads' : q.task \notin Lost /\ Repaired(q, p, s) => Repaired(q, p, s)'
    BY <1>3, Carry
<1>. QED  BY <1>1, <1>4

LEMMA NothingMore ==
    ASSUME TypeOK
    PROVE  /\ <<>> \in Scripts
           /\ \A t \in tasks : t.rest \in Scripts /\ <<>> \o t.rest = t.rest
    BY EmptyPrefix DEF TypeOK, Scripts

LEMMA GoesNoMore ==
    ASSUME TypeOK, NEW r \in reads, Goes(r, <<>>), reads' \subseteq reads
    PROVE  \A u \in tasks' : \E t \in tasks : Same(u, t) /\ u.rest = t.rest
<1>. SUFFICES ASSUME NEW u \in tasks' PROVE \E t \in tasks : Same(u, t) /\ u.rest = t.rest
    OBVIOUS
<1>1. PICK t \in tasks : Same(u, t) /\ (u = t \/ u.rest = <<>> \o t.rest)
    BY NothingMore, GoesFacts
<1>2. u.rest = t.rest
    BY <1>1, NothingMore
<1>. QED  BY <1>1, <1>2

\* An answer: what keeps every script and read fit, and the duty.
LEMMA AnswerFits ==
    ASSUME NEW J, Orderly(J), SettlingInv(J), NEW r \in reads, reads' \subseteq reads,
           UNCHANGED <<screen, boot, booting>>,
           \A u \in tasks' : \E t \in tasks :
               /\ Same(u, t)
               /\ \/ u.rest = t.rest
                  \/ t.id = r.task /\ u.rest = <<View[r.view].then>> \o t.rest,
           \A p, s : \A q \in reads' : Repaired(q, p, s) => Repaired(q, p, s)'
    PROVE  TasksFit(J)' /\ ReadsFit' /\ PagesJoined(J)'
<1>1. TypeOK /\ TasksFit(J) /\ ReadsFit /\ PagesJoined(J)
    BY DEF SettlingInv, IInv
<1>2. /\ r.view \in Views /\ View[r.view].then \in SUBSET Views
      /\ \A w \in View[r.view].then : ~View[w].throws /\ View[w].then = {}
    BY <1>1, ThenFacts DEF TypeOK
<1>3. TasksFit(J)'
  <2>. SUFFICES ASSUME NEW u \in tasks'
                PROVE  /\ Solo(u.rest)
                       /\ \A d \in Duties : u.page \in J[d.page] => \A s \in Promised(d.script) :
                              /\ Harmless(u.rest, u.page, d.page, s)
                              /\ \A q \in reads' : q.task = u.id => Onward(q.view, u.page, d.page, s)
    BY DEF TasksFit
  <2>1. PICK t \in tasks : /\ Same(u, t)
                           /\ \/ u.rest = t.rest
                              \/ t.id = r.task /\ u.rest = <<View[r.view].then>> \o t.rest
    OBVIOUS
  <2>2. t.rest \in Scripts /\ u.page = t.page /\ u.id = t.id
    BY <1>1, <2>1 DEF TypeOK, Same
  <2>3. /\ Solo(t.rest)
        /\ \A d \in Duties : u.page \in J[d.page] => \A s \in Promised(d.script) :
               /\ Harmless(t.rest, u.page, d.page, s)
               /\ \A q \in reads : q.task = u.id => Onward(q.view, u.page, d.page, s)
    BY <1>1, <2>2 DEF TasksFit
  <2>4. CASE u.rest = t.rest
    BY <2>3, <2>4
  <2>5. CASE t.id = r.task /\ u.rest = <<View[r.view].then>> \o t.rest
    <3>1. Solo(u.rest)
      BY <1>2, <2>2, <2>3, <2>5, PrefixSolo
    <3>2. ASSUME NEW d \in Duties, u.page \in J[d.page], NEW s \in Promised(d.script)
          PROVE  Harmless(u.rest, u.page, d.page, s)
      <4>1. Harmless(t.rest, u.page, d.page, s) /\ Onward(r.view, u.page, d.page, s)
        BY <2>2, <2>3, <2>5, <3>2
      <4>2. \A w \in View[r.view].then : Disturbs(w, u.page, d.page, s) => Delivers(w, u.page, d.page, s)
        BY <4>1 DEF Onward
      <4>. QED  BY <1>2, <2>2, <2>5, <4>1, <4>2, PrefixHarmless
    <3>. QED  BY <2>3, <3>1, <3>2
  <2>. QED  BY <2>1, <2>4, <2>5
<1>4. ReadsFit'
    BY <1>1 DEF ReadsFit
<1>5. PagesJoined(J)'
    BY <1>1 DEF PagesJoined, Same
<1>. QED  BY <1>3, <1>4, <1>5

LEMMA AnswerSettling ==
    ASSUME NEW J, SettlingInv(J), NEW p, p = screen, reads' \subseteq reads,
           UNCHANGED <<screen, owed>>,
           \A s : \A q \in reads' : Repaired(q, p, s) => Repaired(q, p, s)',
           \A s \in owed : Said(s)' \/ Coming(p, s)'
    PROVE  StillSettling
<1>1. OnDuty /\ Repairs
    BY DEF SettlingInv
<1>2. CASE owed = {}
    BY <1>2, NothingOwed
<1>3. ASSUME NEW d \in Duties, d.page = screen, owed \subseteq Promised(d.script)
      PROVE  StillSettling
  <2>1. p = screen' /\ d.page = p /\ owed' \subseteq Promised(d.script)
    BY <1>3
  <2>2. \A s \in owed' : \A q \in reads' : Repaired(q, p, s)'
    BY <1>1 DEF Repairs
  <2>. QED  BY <2>1, <2>2, SettlingAt
<1>. QED  BY <1>1, <1>2, <1>3 DEF OnDuty

\* What is dropped was not counted on.
LEMMA DropFits ==
    ASSUME NEW J, Orderly(J), SettlingInv(J), NEW r \in reads, Drop(r)
    PROVE  TasksFit(J)' /\ ReadsFit' /\ PagesJoined(J)' /\ StillSettling
<1>1. TypeOK /\ PromisesStand
    BY DEF SettlingInv, IInv
<1>2. /\ UNCHANGED <<screen, boot, booting, signed, epoch, slots, owed>>
      /\ ~Current(r) /\ reads' = reads \ {r} /\ reads' \subseteq reads /\ Goes(r, <<>>)
    BY DEF Drop
<1>3. ASSUME NEW p, NEW s
      PROVE  /\ \A q \in reads' : GoesOn(q, p, s) => GoesOn(q, p, s)'
             /\ \A t \in tasks : Relied(t, p, s) => \E u \in tasks' : Relied(u, p, s)'
             /\ \A q \in reads' : Repaired(q, p, s) => Repaired(q, p, s)'
  <2>1. \A q \in reads' : Newest(q)' => Newest(q)
    BY <1>2 DEF Newest
  <2>. QED  BY <1>1, <1>2, <2>1, NothingMore, GoesFrame
<1>4. \A u \in tasks' : \E t \in tasks : Same(u, t) /\ u.rest = t.rest
    BY <1>1, <1>2, GoesNoMore
<1>5. TasksFit(J)' /\ ReadsFit' /\ PagesJoined(J)'
    BY <1>2, <1>3, <1>4, AnswerFits
<1>6. PICK p : p = screen
    OBVIOUS
<1>7. ASSUME NEW s \in owed PROVE Said(s)' \/ Coming(p, s)'
  <2>1. Said(s) => Said(s)'
    BY <1>2 DEF Said, State
  <2>2. ASSUME NEW q \in reads, Heard(q, p), s \in Fills(q.view) \/ GoesOn(q, p, s) PROVE Coming(p, s)'
    <3>1. Current(q)
      BY <1>6, <2>2 DEF Current, Heard, Lively, Newest
    <3>2. Heard(q, p)' /\ q \in reads'
      BY <1>2, <2>2, <3>1 DEF Heard, Lively, Newest
    <3>. QED  BY <1>3, <2>2, <3>2 DEF Coming
  <2>3. \A t \in tasks : Relied(t, p, s) => Coming(p, s)'
    BY <1>3 DEF Coming
  <2>. QED  BY <1>1, <1>6, <2>1, <2>2, <2>3 DEF PromisesStand, Coming
<1>8. StillSettling
    BY <1>2, <1>3, <1>6, <1>7, AnswerSettling
<1>. QED  BY <1>5, <1>8

\* What an answer shows is said; what it takes down, its script brings back.
LEMMA SucceedFits ==
    ASSUME NEW J, Orderly(J), SettlingInv(J), NEW r \in reads, Succeed(r)
    PROVE  TasksFit(J)' /\ ReadsFit' /\ PagesJoined(J)' /\ StillSettling
<1>. DEFINE V == View[r.view]
            emptied == V.empties \ Spared(r)
<1>1. TypeOK /\ IdsFit /\ PromisesStand /\ Repairs
    BY DEF SettlingInv, IInv
<1>2. /\ UNCHANGED <<screen, boot, booting, signed, epoch, owed>>
      /\ Current(r) /\ reads' = reads \ {r} /\ reads' \subseteq reads /\ Goes(r, More(r))
    BY DEF Succeed, More
<1>3. /\ r.view \in Views /\ More(r) \in Scripts /\ V.then \in SUBSET Views
      /\ \A w \in V.then : ~View[w].throws
      /\ More(r) = <<>> \/ More(r) = <<V.then>>
      /\ V.then # {} => More(r) = <<V.then>>
    BY <1>1, MoreFacts, ThenFacts
<1>4. ASSUME NEW t \in tasks, NEW p, NEW s, Comes(t.rest, 0, t.page, p, s)
      PROVE  Comes(More(r) \o t.rest, 0, t.page, p, s)
  <2>1. t.rest \in Scripts
    BY <1>1 DEF TypeOK
  <2>2. CASE More(r) = <<>>
    BY <1>1, <1>4, <2>2, NothingMore
  <2>3. CASE More(r) = <<V.then>>
    BY <1>3, <1>4, <2>1, <2>3, PrefixComes
  <2>. QED  BY <1>3, <2>2, <2>3
<1>5. ASSUME NEW p, NEW s
      PROVE  /\ \A q \in reads' : GoesOn(q, p, s) => GoesOn(q, p, s)'
             /\ \A t \in tasks : Relied(t, p, s) => \E u \in tasks' : Relied(u, p, s)'
             /\ \A q \in reads' : Repaired(q, p, s) => Repaired(q, p, s)'
  <2>1. \A q \in reads' : Newest(q)' => Newest(q)
    BY <1>2 DEF Newest
  <2>. QED  BY <1>1, <1>2, <1>3, <1>4, <2>1, GoesFrame
<1>6. \A u \in tasks' : \E t \in tasks :
          /\ Same(u, t)
          /\ \/ u.rest = t.rest
             \/ t.id = r.task /\ u.rest = <<V.then>> \o t.rest
  <2>. SUFFICES ASSUME NEW u \in tasks'
                PROVE  \E t \in tasks : /\ Same(u, t)
                                        /\ \/ u.rest = t.rest
                                           \/ t.id = r.task /\ u.rest = <<V.then>> \o t.rest
    OBVIOUS
  <2>1. PICK t \in tasks : Same(u, t) /\ (u = t \/ (t.id = r.task /\ u.rest = More(r) \o t.rest))
    BY <1>1, <1>2, <1>3, GoesFacts
  <2>2. u.rest = t.rest \/ (t.id = r.task /\ u.rest = <<V.then>> \o t.rest)
    BY <1>1, <1>3, <2>1, NothingMore
  <2>. QED  BY <2>1, <2>2
<1>7. TasksFit(J)' /\ ReadsFit' /\ PagesJoined(J)'
    BY <1>2, <1>5, <1>6, AnswerFits
<1>. PICK p : p = screen
    OBVIOUS
<1>8. ASSUME NEW s, GoesOn(r, p, s) PROVE Coming(p, s)'
  <2>1. PICK t \in tasks : t.id = r.task /\ \E w \in V.then :
            Lands(w, t.page, p) /\ s \in Fills(w)
    BY <1>8 DEF GoesOn
  <2>2. More(r) = <<V.then>> /\ More(r) # <<>>
    BY <1>1, <2>1, MoreFacts
  <2>3. PICK u \in tasks' : Same(u, t) /\ u.rest = <<V.then>> \o t.rest
    BY <1>1, <1>2, <1>3, <2>1, <2>2, GoesFacts
  <2>4. t.rest \in Scripts /\ \E w \in V.then : Delivers(w, t.page, p, s)
    BY <1>1, <2>1 DEF TypeOK, Delivers
  <2>5. Comes(u.rest, 0, u.page, p, s)
    BY <1>3, <2>3, <2>4, PrefixComes DEF Same
  <2>6. \A q \in reads' : ~(q.task = u.id /\ View[q.view].throws)
    BY <1>1, <1>2, <2>1, <2>3 DEF IdsFit, Same
  <2>. QED  BY <2>3, <2>5, <2>6 DEF Coming, Relied
<1>9. slots' = [s \in DOMAIN slots \cup V.shows \cup emptied |->
                  IF s \in V.shows THEN Mark("ready", r.ask, r.boot)
                  ELSE IF s \in emptied THEN Mark("blank", r.ask, r.boot) ELSE slots[s]]
    BY DEF Succeed
<1>10. /\ \A s \in V.shows : Said(s)'
       /\ \A s : s \notin V.shows \cup emptied /\ Said(s) => Said(s)'
    BY <1>9 DEF Said, State, Mark
<1>11. p = screen
    OBVIOUS
<1>12. ASSUME NEW s \in owed, s \notin V.shows PROVE Said(s)' \/ Coming(p, s)'
  <2>1. CASE s \in emptied
    <3>1. Repaired(r, p, s)
      BY <1>1, <1>11, <1>12 DEF Repairs
    <3>2. Lively(r, p)
      BY <1>2, <1>11 DEF Current, Lively, Newest
    <3>. QED  BY <1>5, <1>8, <1>12, <2>1, <3>1, <3>2 DEF Repaired, Coming
  <2>2. CASE s \notin emptied
    <3>1. ASSUME NEW q \in reads, Heard(q, p), s \in Fills(q.view) \/ GoesOn(q, p, s)
          PROVE  Coming(p, s)'
      <4>1. CASE q = r
        BY <1>8, <1>12, <3>1, <4>1 DEF Fills
      <4>2. CASE q # r
        <5>1. Heard(q, p)' /\ q \in reads'
          BY <1>2, <3>1, <4>2 DEF Heard, Lively, Newest
        <5>. QED  BY <1>5, <3>1, <5>1 DEF Coming
      <4>. QED  BY <4>1, <4>2
    <3>2. \A t \in tasks : Relied(t, p, s) => Coming(p, s)'
      BY <1>5 DEF Coming
    <3>3. Said(s) \/ Coming(p, s)
      BY <1>1, <1>11, <1>12 DEF PromisesStand
    <3>. QED  BY <1>10, <1>12, <2>2, <3>1, <3>2, <3>3 DEF Coming
  <2>. QED  BY <2>1, <2>2
<1>13. StillSettling
    BY <1>2, <1>5, <1>10, <1>11, <1>12, AnswerSettling
<1>. QED  BY <1>7, <1>13

\* What fails says so, in every slot that was counted on for it.
LEMMA FailFits ==
    ASSUME NEW J, Orderly(J), SettlingInv(J), NEW r \in reads, Fail(r)
    PROVE  TasksFit(J)' /\ ReadsFit' /\ PagesJoined(J)' /\ StillSettling
<1>. DEFINE V == View[r.view]
            failed == V.fails \ Spared(r)
            Lost == IF V.throws THEN {r.task} ELSE {}
<1>1. TypeOK /\ IdsFit /\ ReadsAreAsked /\ PromisesStand
    BY DEF SettlingInv, IInv
<1>2. /\ UNCHANGED <<screen, boot, booting, signed, owed>>
      /\ reads' = reads \ {r} /\ reads' \subseteq reads
      /\ IF V.throws THEN Ends(r) ELSE Goes(r, <<>>)
    BY DEF Fail
<1>3. \A q \in reads' : q.task \notin Lost
    BY <1>1, <1>2 DEF IdsFit
<1>4. \A u \in tasks' : \E t \in tasks : Same(u, t) /\ u.rest = t.rest
  <2>1. CASE V.throws
    BY <1>2, <2>1 DEF Ends, Same
  <2>2. CASE ~V.throws
    BY <1>1, <1>2, <2>2, GoesNoMore
  <2>. QED  BY <2>1, <2>2
<1>5. ASSUME NEW t \in tasks, t.id \notin Lost, t.rest # <<>> \/ \E q \in reads' : q.task = t.id
      PROVE  \E u \in tasks' : Same(u, t) /\ u.rest = t.rest
  <2>1. CASE V.throws
    BY <1>2, <1>5, <2>1 DEF Ends, Same
  <2>2. CASE ~V.throws /\ t.id # r.task
    BY <1>1, <1>2, <1>5, <2>2, NothingMore, GoesFacts DEF Same
  <2>3. CASE ~V.throws /\ t.id = r.task
    <3>1. \E u \in tasks' : Same(u, t) /\ u.rest = <<>> \o t.rest
      BY <1>1, <1>2, <1>5, <2>3, NothingMore, GoesFacts
    <3>. QED  BY <1>1, <3>1, NothingMore
  <2>. QED  BY <2>1, <2>2, <2>3
<1>6. r.view \in Views /\ (r.task \in Lost <=> V.throws) /\ \A x \in Lost : x = r.task
    BY <1>1 DEF TypeOK
<1>. HIDE DEF Lost
<1>7. ASSUME NEW q \in reads'
      PROVE  /\ Newest(q)' => Newest(q)
             /\ View[q.view].channel \notin V.revokes => (Newest(q) => Newest(q)')
  <2>1. /\ q.view \in Views /\ q.ask \in Nat /\ q.ask =< asks
        /\ View[q.view].channel \in DOMAIN epoch
    BY <1>1, <1>2, RowFacts DEF TypeOK, ReadsAreAsked
  <2>2. /\ epoch'[View[q.view].channel] =
               IF View[q.view].channel \in V.revokes THEN asks' ELSE epoch[View[q.view].channel]
        /\ V.revokes # {} => asks' = asks + 1
        /\ asks \in Nat
    BY <1>1, <2>1 DEF Fail, Advanced, TypeOK
  <2>3. CASE View[q.view].channel \in V.revokes
    <3>1. asks' # q.ask
      BY <2>1, <2>2, <2>3
    <3>. QED  BY <2>2, <2>3, <3>1 DEF Newest
  <2>4. CASE View[q.view].channel \notin V.revokes
    BY <2>2, <2>4 DEF Newest
  <2>. QED  BY <2>3, <2>4
<1>8. ASSUME NEW p, NEW s
      PROVE  /\ \A q \in reads' : GoesOn(q, p, s) => GoesOn(q, p, s)'
             /\ \A t \in tasks : t.id \notin Lost /\ Relied(t, p, s) => \E u \in tasks' : Relied(u, p, s)'
             /\ \A q \in reads' : Repaired(q, p, s) => Repaired(q, p, s)'
  <2>1. \A t \in tasks : t.id \notin Lost /\ (t.rest # <<>> \/ \E q \in reads' : q.task = t.id) =>
            \E u \in tasks' :
                /\ Same(u, t)
                /\ Comes(t.rest, 0, t.page, p, s) => Comes(u.rest, 0, u.page, p, s)
    BY <1>5 DEF Same
  <2>2. /\ \A q \in reads' : q.task \notin Lost => q \in reads
        /\ \A q \in reads' : q.task \notin Lost /\ Newest(q)' => Newest(q)
    BY <1>2, <1>7
  <2>3. /\ \A q \in reads' : q.task \notin Lost /\ GoesOn(q, p, s) => GoesOn(q, p, s)'
        /\ \A t \in tasks : t.id \notin Lost /\ Relied(t, p, s) =>
               \E u \in tasks' : u.id = t.id /\ Relied(u, p, s)'
        /\ \A q \in reads' : q.task \notin Lost /\ Repaired(q, p, s) => Repaired(q, p, s)'
    BY <1>1, <1>2, <2>1, <2>2, Carry
  <2>. QED  BY <1>3, <2>3
<1>9. TasksFit(J)' /\ ReadsFit' /\ PagesJoined(J)'
    BY <1>2, <1>4, <1>8, AnswerFits
<1>10. slots' = [s \in DOMAIN slots \cup failed |->
                   IF s \in failed THEN Mark("failed", r.ask, r.boot) ELSE slots[s]]
    BY DEF Fail
<1>11. \A s : s \in failed \/ Said(s) => Said(s)'
    BY <1>10 DEF Said, State, Mark
<1>12. Sure(r.view) \subseteq failed
    BY DEF Sure, Spared
<1>. HIDE DEF failed
<1>13. PICK p : p = screen
    OBVIOUS
<1>14. ASSUME NEW s \in owed, s \notin Sure(r.view) PROVE Said(s)' \/ Coming(p, s)'
  <2>1. ASSUME NEW q \in reads, Heard(q, p), s \in Fills(q.view) \/ GoesOn(q, p, s)
        PROVE  Coming(p, s)'
    <3>1. s \in Brings(q.view) /\ s \in Sure(q.view) /\ q.view \in Views
      BY <1>1, <2>1 DEF Brings, Fills, GoesOn, TypeOK
    <3>2. View[q.view].channel \notin V.revokes
      BY <1>6, <1>14, <3>1 DEF Orderly, OrderlyView
    <3>3. q \in reads'
      BY <1>2, <1>14, <3>1
    <3>4. Heard(q, p)'
      BY <1>2, <1>7, <2>1, <3>2, <3>3 DEF Heard, Lively
    <3>. QED  BY <1>8, <2>1, <3>3, <3>4 DEF Coming
  <2>2. ASSUME NEW t \in tasks, Relied(t, p, s) PROVE Coming(p, s)'
    <3>1. t.id \notin Lost
      BY <1>6, <1>14, <2>2 DEF Relied
    <3>. QED  BY <1>8, <2>2, <3>1 DEF Coming
  <2>. QED  BY <1>1, <1>11, <1>13, <1>14, <2>1, <2>2 DEF PromisesStand, Coming
<1>15. StillSettling
    BY <1>2, <1>8, <1>11, <1>12, <1>13, <1>14, AnswerSettling
<1>. QED  BY <1>9, <1>15

-----------------------------------------------------------------------------
(* Every step.                                                             *)

LEMMA OwedSigned ==
    ASSUME owed # {} => signed, [Next]_vars
    PROVE  owed' # {} => signed'
<1>1. ASSUME NEW p, NEW hide, BootOn(p, hide) PROVE owed' = {}
    BY <1>1 DEF BootOn
<1>2. ASSUME NEW b \in booting, Superseded(b) \/ Bootstrapped(b) \/ SignedOut(b)
      PROVE  owed' # {} => signed'
    BY <1>2 DEF Superseded, Bootstrapped, SignedOut
<1>3. ASSUME NEW script \in Page[screen].clicks, Click(script) PROVE owed' # {} => signed'
    BY <1>3 DEF Click
<1>4. ASSUME NEW h \in Handoffs, Handoff(h) PROVE signed'
    BY <1>4 DEF Handoff
<1>5. ASSUME NEW t \in tasks, Ask(t) PROVE owed' # {} => signed'
    BY <1>5 DEF Ask
<1>6. ASSUME NEW r \in reads, Drop(r) \/ Succeed(r) \/ Fail(r) PROVE owed' # {} => signed'
    BY <1>6 DEF Drop, Succeed, Fail
<1>7. CASE UNCHANGED vars
    BY <1>7 DEF vars
<1>. QED  BY <1>1, <1>2, <1>3, <1>4, <1>5, <1>6, <1>7 DEF Next, Hydrate, Link

LEMMA SettlingStep ==
    ASSUME NEW J, Orderly(J), SettlingInv(J), [Next]_vars
    PROVE  IdsFit' /\ TasksFit(J)' /\ ReadsFit' /\ PagesJoined(J)' /\ StillSettling
<1>. DEFINE Goal == IdsFit' /\ TasksFit(J)' /\ ReadsFit' /\ PagesJoined(J)' /\ StillSettling
<1>0. TypeOK /\ IdsFit /\ screen \in Pages
    BY DEF SettlingInv, IInv, TypeOK
<1>1. CASE Hydrate
    BY <1>0, <1>1, BootOnFits, IdsBooted DEF Hydrate
<1>2. ASSUME NEW l \in Links, Link(l) PROVE Goal
  <2>1. PICK p \in l \ {screen} : screen \in l /\ BootOn(p, Hidden \cup Opened[p])
    BY <1>2 DEF Link
  <2>2. p \in Pages /\ {screen, p} \subseteq l
    BY <2>1, PageAssumption
  <2>. QED  BY <1>0, <2>1, <2>2, BootOnFits, IdsBooted
<1>3. ASSUME NEW b \in booting, Superseded(b) PROVE Goal
  <2>1. /\ booting' \subseteq booting
        /\ UNCHANGED <<screen, boot, signed, epoch, slots, reads, tasks, owed>>
    BY <1>3 DEF Superseded
  <2>. QED  BY <1>0, <1>3, <2>1, UnmovedFits, IdsSettled
<1>4. ASSUME NEW b \in booting, SignedOut(b) PROVE Goal
    BY <1>0, <1>4, SignedOutFits, IdsSettled
<1>5. ASSUME NEW t, NEW shown, Asker(J, t, shown), StillSettling PROVE Goal
    BY <1>0, <1>5, AskedFits, IdsAsked
<1>6. ASSUME NEW b \in booting, Bootstrapped(b) PROVE Goal
    BY <1>5, <1>6, BootstrappedAsker, BootstrappedSettling
<1>7. ASSUME NEW script \in Page[screen].clicks, Click(script) PROVE Goal
  <2>1. PICK n : n = clicks'
    OBVIOUS
  <2>2. Asker(J, Task("click", n, screen, script), slots) /\ StillSettling
    BY <1>7, <2>1, ClickAsker, ClickSettling
  <2>. QED  BY <1>5, <2>2
<1>8. ASSUME NEW h \in Handoffs, Handoff(h) PROVE Goal
  <2>1. PICK n, S : n = clicks' /\ S = owed'
    OBVIOUS
  <2>2. Asker(J, Task("click", n, h.to, h.script), Emptied(S)) /\ StillSettling
    BY <1>8, <2>1, HandoffAsker, HandoffSettling
  <2>. QED  BY <1>5, <2>2
<1>9. ASSUME NEW t \in tasks, Ask(t) PROVE Goal
    BY <1>5, <1>9, AskAsker, AskSettling
<1>10. ASSUME NEW r \in reads, Drop(r) \/ Succeed(r) \/ Fail(r) PROVE Goal
  <2>1. TasksFit(J)' /\ ReadsFit' /\ PagesJoined(J)' /\ StillSettling
    BY <1>10, DropFits, SucceedFits, FailFits
  <2>2. reads' \subseteq reads /\ UNCHANGED <<boot, booting, settled, clicks>>
    BY <1>10 DEF Drop, Succeed, Fail
  <2>3. More(r) \in Scripts /\ <<>> \in Scripts
    BY <1>0, MoreFacts, NothingMore
  <2>4. Ends(r) \/ \E more \in Scripts : Goes(r, more)
    BY <1>10, <2>3 DEF Drop, Succeed, Fail, More
  <2>. QED  BY <1>0, <2>1, <2>2, <2>4, IdsAnswered
<1>11. CASE UNCHANGED vars
  <2>1. /\ booting' = booting
        /\ UNCHANGED <<screen, boot, settled, clicks, signed, epoch, slots, reads, tasks, owed>>
    BY <1>11 DEF vars
  <2>2. IdsFit'
    BY <1>0, <2>1 DEF IdsFit, Given
  <2>. QED  BY <2>1, <2>2, UnmovedFits
<1>. QED  BY <1>1, <1>2, <1>3, <1>4, <1>6, <1>7, <1>8, <1>9, <1>10, <1>11 DEF Next

LEMMA SettlingInductive ==
    ASSUME NEW J, Orderly(J), SettlingInv(J), [Next]_vars
    PROVE  SettlingInv(J)'
<1>1. IInv /\ (owed # {} => signed)
    BY DEF SettlingInv
<1>2. IInv' /\ (owed' # {} => signed')
    BY <1>1, OrderInductive, OwedSigned
<1>3. /\ IdsFit' /\ TasksFit(J)' /\ ReadsFit' /\ PagesJoined(J)'
      /\ OnDuty' /\ Repairs' /\ PromisesStand'
    BY SettlingStep DEF StillSettling
<1>. QED  BY <1>2, <1>3 DEF SettlingInv

\* The page that the document is loaded on has been promised nothing yet.
LEMMA SettlingInitially ==
    ASSUME NEW J, Orderly(J), Init
    PROVE  SettlingInv(J)
<1>1. IInv /\ screen \in Pages
    BY OrderInitially DEF IInv, TypeOK
<1>2. /\ reads = {} /\ tasks = {} /\ owed = {} /\ boot = 1 /\ settled = 0
      /\ booting = {[boot |-> 1, page |-> screen]}
    BY DEF Init
<1>3. IdsFit /\ TasksFit(J) /\ ReadsFit
    BY <1>2 DEF IdsFit, TasksFit, ReadsFit
<1>4. PagesJoined(J)
    BY <1>1, <1>2, JoinedFacts DEF PagesJoined
<1>5. OnDuty /\ Repairs /\ PromisesStand /\ (owed # {} => signed)
    BY <1>2 DEF OnDuty, Repairs, PromisesStand
<1>. QED  BY <1>1, <1>3, <1>4, <1>5 DEF SettlingInv

\* Of every table that is orderly, whatever is clicked, whichever way one goes in
\* the document (Back and Forward over hydrate()'s moves and over the handoffs
\* that ask for their reads themselves included), in whatever order the answers
\* come and whichever fail: a slot that the page on the screen was promised says
\* what came of it, or a reader that will say so is on its way (hydrate(), its
\* chain, refreshing buttons, moves in the document, popstate).
THEOREM PromisesAreKept ==
    ASSUME NEW J, Orderly(J)
    PROVE  Spec => []PromisesStand
<1>. DEFINE Inv == SettlingInv(J)
<1>1. Init => Inv
    BY SettlingInitially
<1>2. Inv /\ [Next]_vars => Inv'
    BY SettlingInductive
<1>3. Inv => PromisesStand
    BY DEF SettlingInv
<1>. HIDE DEF Inv
<1>. QED  BY <1>1, <1>2, <1>3, PTL DEF Spec

\* So its pages settle: once nothing is under way, every slot that the page on
\* the screen was promised shows what was read or says that it could not be
\* read, by whichever of those ways the page was reached.
THEOREM OrderlyPagesSettle ==
    ASSUME NEW J, Orderly(J)
    PROVE  Spec => []PagesSettle
<1>1. PromisesStand => PagesSettle
    BY DEF PromisesStand, PagesSettle, Quiet, Coming, Said
<1>2. Spec => []PromisesStand
    BY PromisesAreKept
<1>. QED  BY <1>1, <1>2, PTL
===============================================================================
