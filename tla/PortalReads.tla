----------------------------- MODULE PortalReads -----------------------------
(***************************************************************************)
(* How the portal (integration.js) keeps what it shows in step with what   *)
(* it has asked for.  One page is on the screen.  hydrate() reads the      *)
(* session anew, clears everything private and runs the page's chain of    *)
(* reads; a button runs a script of reads.  Answers come back in any       *)
(* order; each is let in or dropped by the epochs that its reader took     *)
(* when it asked.                                                          *)
(*                                                                         *)
(* Nothing comes between the start of a chain or script and its first      *)
(* reads: they are asked for in the same step.  What follows them is asked *)
(* for once they have been answered, whatever happened meanwhile.          *)
(*                                                                         *)
(* The machine is the same for every workspace: View says of each reader   *)
(* what its lines do, Page says what each page reads (see PortalViews).    *)
(* An epoch is modelled by the number of the ask that last advanced it.    *)
(***************************************************************************)
EXTENDS Integers, Sequences, FiniteSets

CONSTANTS
    View,           \* [reader -> what it does]
    Page,           \* [page -> its chain and its buttons' scripts]
    Links,          \* pairs of pages joined in the document by pushState, and so by Back and Forward
    Handoffs,       \* moves that ask for their reads themselves, without hydrate()
    Home,           \* the pages the document may be loaded on
    Hidden,         \* slots that hydrate() hides before it knows the session
    Opened,         \* [page -> slots that a move to it in the document hides, too]
    MaxMoves        \* bound: how many hydrate() calls and clicks, for the page on the screen

Views == DOMAIN View
Pages == DOMAIN Page
Scripts == Seq(SUBSET Views)

\* The epochs a row advances, the slots its answer writes, and all it writes.
Advances(V) == {V.channel} \cup V.also
Touches(V) == V.shows \cup V.empties \cup V.fails
Writes(V) == Touches(V) \cup V.starts \cup V.clears

Rows == {View[v] : v \in Views}
Channels == UNION {Advances(V) \cup V.revokes : V \in Rows}
Slots == UNION {Writes(V) : V \in Rows}

Fences == {"none", "any", "screen", "route", "given"}

ASSUME ViewAssumption ==
    \A v \in Views :
        /\ View[v].fence \in Fences /\ View[v].auth \in BOOLEAN /\ View[v].throws \in BOOLEAN
        /\ View[v].then \subseteq Views /\ View[v].watches \subseteq Channels
ASSUME PageAssumption ==
    /\ \A p \in Pages : Page[p].chain \in Scripts \ {<<>>} /\ Page[p].clicks \subseteq Scripts \ {<<>>}
    /\ Home \subseteq Pages /\ Links \subseteq SUBSET Pages
    /\ Opened \in [Pages -> SUBSET Slots] /\ Hidden \subseteq Slots
    /\ \A h \in Handoffs : h.from \in Pages /\ h.to \in Pages /\ h.script \in Scripts \ {<<>>}
ASSUME BoundAssumption == MaxMoves \in [Pages -> Nat]

VARIABLES
    screen,         \* base().path
    boot,           \* portalHydrationEpoch; every workspace's session epoch moves with it
    booting,        \* the hydrate() calls that await the bootstrap reads
    settled,        \* the last one that was let in
    signed,         \* base().session.authenticated
    epoch,          \* the request epochs that have been advanced
    slots,          \* what was written: its state, the ask it comes from and the boot of that ask
    reads,          \* requests under way
    tasks,          \* chains and scripts under way
    owed,           \* history: the slots the page on the screen was promised
    asks, clicks    \* counters

vars == <<screen, boot, booting, settled, signed, epoch, slots, reads, tasks, owed, asks, clicks>>

States == {"blank", "loading", "ready", "failed"}
Ids == [by: {"chain", "click"}, n: Nat]

\* Types.
TypeOK ==
    /\ screen \in Pages
    /\ boot \in Nat \ {0} /\ settled \in 0..boot
    /\ booting \subseteq [boot: 1..boot, page: Pages]
    /\ signed \in BOOLEAN
    /\ asks \in Nat /\ clicks \in Nat
    /\ DOMAIN epoch \subseteq Channels /\ \A c \in DOMAIN epoch : epoch[c] \in 1..asks
    /\ DOMAIN slots \subseteq Slots
    /\ \A s \in DOMAIN slots : slots[s] \in [st: States, ask: 1..asks, boot: 1..boot]
    /\ reads \subseteq [view: Views, page: Pages, ask: 1..asks, boot: 1..boot, task: Ids]
    /\ tasks \subseteq [id: Ids, page: Pages, rest: Scripts]
    /\ owed \subseteq Slots

Init ==
    /\ screen \in Home
    /\ boot = 1 /\ booting = {[boot |-> 1, page |-> screen]} /\ settled = 0
    /\ signed = FALSE
    /\ epoch = <<>> /\ slots = <<>>
    /\ reads = {} /\ tasks = {} /\ owed = {}
    /\ asks = 0 /\ clicks = 0

-----------------------------------------------------------------------------
\* What is shown of a slot, and the slots of S emptied; an emptied slot
\* remembers the ask it was last written for.
State(s) == IF s \in DOMAIN slots THEN slots[s].st ELSE "blank"
Emptied(S) ==
    [s \in DOMAIN slots |-> IF s \in S THEN [slots[s] EXCEPT !.st = "blank"] ELSE slots[s]]

Task(by, n, p, script) == [id |-> [by |-> by, n |-> n], page |-> p, rest |-> script]
Tidy(T, R) == {t \in T : t.rest # <<>> \/ \E r \in R : r.task = t.id}

\* What a script brings to the screen: a reader that says nothing when it
\* fails promises nothing.
Shown(v) == View[v].shows \cap View[v].fails
Promised(script) ==
    UNION {UNION {Shown(v) \cup UNION {Shown(w) : w \in View[v].then} : v \in script[i]}
             : i \in DOMAIN script}

-----------------------------------------------------------------------------
(* Asking.                                                                 *)

ReadOn(p) == UNION ({UNION {c[i] : i \in DOMAIN c} : c \in Page[p].clicks}
                    \cup {Page[p].chain[i] : i \in DOMAIN Page[p].chain})

\* The path a reader fences its answer with, and whether it asks at all, for
\* the page and the session that this step leaves on the screen.
PathOf(v, t) == IF View[v].fence \in {"route", "given"} THEN t.page ELSE screen'
Asks(v, t) ==
    /\ View[v].fence = "screen" => v \in ReadOn(screen')
    /\ View[v].fence = "route" => t.page = screen'
    /\ View[v].auth => signed'

Mark(st, ask, b) == [st |-> st, ask |-> ask, boot |-> b]
Advanced(C) == [c \in DOMAIN epoch \cup C |-> IF c \in C THEN asks' ELSE epoch[c]]

\* The next reads of t, with the slots of shown on the screen.  Each advances
\* its epochs whether or not it goes on to ask.
Asking(t, shown) ==
    /\ asks' = asks + 1
    /\ LET group == Head(t.rest)
           going == {v \in group : Asks(v, t)}
           starts == UNION {View[v].starts : v \in going}
           clears == UNION {View[v].clears : v \in going}
       IN /\ epoch' = Advanced(UNION {Advances(View[v]) : v \in group})
          /\ reads' = reads \cup {[view |-> v, page |-> PathOf(v, t), ask |-> asks',
                                   boot |-> boot, task |-> t.id] : v \in going}
          /\ slots' = [s \in DOMAIN shown \cup starts \cup clears |->
                         IF s \in starts THEN Mark("loading", asks', boot)
                         ELSE IF s \in clears THEN Mark("blank", asks', boot) ELSE shown[s]]
    /\ tasks' = Tidy((tasks \ {t}) \cup {[t EXCEPT !.rest = Tail(@)]}, reads')

\* What follows of a chain or script.
Ask(t) ==
    /\ t.rest # <<>> /\ \A r \in reads : r.task # t.id
    /\ UNCHANGED <<screen, boot, booting, settled, signed, owed, clicks>>
    /\ Asking(t, slots)

-----------------------------------------------------------------------------
(* hydrate().                                                              *)

Moves == boot - 1 + clicks < MaxMoves[screen]

\* Up to the bootstrap reads: every session epoch moves on.
BootOn(p, hide) ==
    /\ Moves
    /\ screen' = p
    /\ boot' = boot + 1
    /\ booting' = booting \cup {[boot |-> boot + 1, page |-> p]}
    /\ slots' = Emptied(hide)
    /\ owed' = {}
    /\ UNCHANGED <<settled, signed, epoch, reads, tasks, asks, clicks>>

\* A restored page (pageshow), or a script that ends in hydrate().
Hydrate == BootOn(screen, Hidden)

\* A move in the document that hydrates, or Back and Forward over it.
Link(l) == screen \in l /\ \E p \in l \ {screen} : BootOn(p, Hidden \cup Opened[p])

\* Another hydrate() began meanwhile.
Superseded(b) ==
    /\ b.boot # boot
    /\ booting' = booting \ {b}
    /\ UNCHANGED <<screen, boot, settled, signed, epoch, slots, reads, tasks, owed, asks, clicks>>

\* The one merge that replaces everything private.  It was begun with the state
\* of its own page, and puts that page back if another was moved to meanwhile.
Settle(b) ==
    /\ b.boot = boot
    /\ booting' = booting \ {b}
    /\ settled' = b.boot
    /\ screen' = b.page
    /\ UNCHANGED <<boot, clicks>>

\* The session was read: the chain of the page begins.
Bootstrapped(b) ==
    /\ Settle(b)
    /\ signed' = TRUE
    /\ owed' = Promised(Page[b.page].chain)
    /\ Asking(Task("chain", b.boot, b.page, Page[b.page].chain), Emptied(Slots))

\* There is no session, or it could not be read.
SignedOut(b) ==
    /\ Settle(b)
    /\ signed' = FALSE
    /\ owed' = {}
    /\ slots' = Emptied(Slots)
    /\ UNCHANGED <<epoch, reads, tasks, asks>>

-----------------------------------------------------------------------------
(* Scripts.                                                                *)

\* A button of the page on the screen.
Click(script) ==
    /\ signed /\ Moves
    /\ clicks' = clicks + 1
    /\ UNCHANGED <<screen, boot, booting, settled, signed, owed>>
    /\ Asking(Task("click", clicks', screen, script), slots)

\* A move that asks for what the new page shows without a hydrate().
Handoff(h) ==
    /\ signed /\ Moves /\ h.from = screen
    /\ clicks' = clicks + 1
    /\ screen' = h.to
    /\ owed' = Promised(h.script)
    /\ UNCHANGED <<boot, booting, settled, signed>>
    /\ Asking(Task("click", clicks', h.to, h.script), Emptied(owed'))

-----------------------------------------------------------------------------
(* Answers.                                                                *)

CurrentAnyBoot(r) ==
    /\ epoch[View[r.view].channel] = r.ask
    /\ View[r.view].fence # "none" => r.page = screen
    /\ View[r.view].auth => signed
CurrentAnyAsk(r) ==
    /\ r.boot = boot
    /\ View[r.view].fence # "none" => r.page = screen
    /\ View[r.view].auth => signed

\* The readers' RequestIsCurrent functions.
Current(r) ==
    /\ epoch[View[r.view].channel] = r.ask
    /\ r.boot = boot
    /\ View[r.view].fence # "none" => r.page = screen
    /\ View[r.view].auth => signed

\* The slots left alone because what they belong to was asked for since.
Spared(r) ==
    IF \E c \in View[r.view].watches \cap DOMAIN epoch : epoch[c] > r.ask
    THEN View[r.view].spares ELSE {}

\* The script of r goes on, first with more; or an exception ends it.
Goes(r, more) ==
    tasks' = Tidy({IF t.id = r.task THEN [t EXCEPT !.rest = more \o @] ELSE t : t \in tasks}, reads')
Ends(r) == tasks' = {t \in tasks : t.id # r.task}

DropEnds(r) ==
    /\ ~Current(r)
    /\ reads' = reads \ {r}
    /\ Ends(r)
    /\ UNCHANGED <<screen, boot, booting, settled, signed, epoch, slots, owed, asks, clicks>>

\* An answer that is not wanted any more; the script goes on.
Drop(r) ==
    /\ ~Current(r)
    /\ reads' = reads \ {r}
    /\ Goes(r, <<>>)
    /\ UNCHANGED <<screen, boot, booting, settled, signed, epoch, slots, owed, asks, clicks>>

Succeed(r) ==
    /\ Current(r)
    /\ reads' = reads \ {r}
    /\ LET V == View[r.view]
           emptied == V.empties \ Spared(r)
       IN /\ slots' = [s \in DOMAIN slots \cup V.shows \cup emptied |->
                         IF s \in V.shows THEN Mark("ready", r.ask, r.boot)
                         ELSE IF s \in emptied THEN Mark("blank", r.ask, r.boot) ELSE slots[s]]
          /\ Goes(r, IF V.then = {} THEN <<>> ELSE <<V.then>>)
    /\ UNCHANGED <<screen, boot, booting, settled, signed, epoch, owed, asks, clicks>>

Fail(r) ==
    /\ Current(r)
    /\ reads' = reads \ {r}
    /\ LET V == View[r.view]
           failed == V.fails \ Spared(r)
       IN /\ slots' = [s \in DOMAIN slots \cup failed |->
                         IF s \in failed THEN Mark("failed", r.ask, r.boot) ELSE slots[s]]
          /\ asks' = IF V.revokes = {} THEN asks ELSE asks + 1
          /\ epoch' = Advanced(V.revokes)
          /\ IF V.throws THEN Ends(r) ELSE Goes(r, <<>>)
    /\ UNCHANGED <<screen, boot, booting, settled, signed, owed, clicks>>

-----------------------------------------------------------------------------
Next ==
    \/ Hydrate \/ \E l \in Links : Link(l)
    \/ \E b \in booting : Superseded(b) \/ Bootstrapped(b) \/ SignedOut(b)
    \/ \E script \in Page[screen].clicks : Click(script)
    \/ \E h \in Handoffs : Handoff(h)
    \/ \E t \in tasks : Ask(t)
    \/ \E r \in reads : Drop(r) \/ Succeed(r) \/ Fail(r)

Spec == Init /\ [][Next]_vars

-----------------------------------------------------------------------------
(* Properties.                                                             *)

\* Nothing that was asked for before the last bootstrap is shown after it, and
\* what a reader asked for a session is not shown once that session is over
\* (readers that look at the session again: Private).
Private == {s \in Slots : \A V \in Rows : s \in V.shows => V.auth}
SessionFresh ==
    /\ \A s \in DOMAIN slots : slots[s].st # "blank" => slots[s].boot >= settled
    /\ \A s \in Private \cap DOMAIN slots : slots[s].st = "ready" => signed

\* Readers V and W of one slot are ordered if an ask of W revokes what V asked
\* before, or V leaves the slot alone once W has asked.
Yields(V, W, s) ==
    \/ V.channel \in Advances(W)
    \/ s \in V.spares /\ s \notin V.shows /\ W.channel \in V.watches
Guarded ==
    {s \in Slots : \A V \in {R \in Rows : s \in Touches(R)} :
                     \A W \in {R \in Rows : s \in Writes(R)} : Yields(V, W, s)}

\* A late answer never takes the place of a newer one.
LatestWins ==
    [][\A s \in Guarded \cap DOMAIN slots :
        s \in DOMAIN slots' /\ slots'[s].ask >= slots[s].ask]_vars

\* When everything that was asked has been answered, the page on the screen
\* shows all that its chain reads, or says that it could not be read: no list
\* refreshed late has blanked the detail, nothing is left loading.
Quiet == booting = {} /\ reads = {} /\ tasks = {}
PagesSettle == Quiet /\ signed => \A s \in owed : State(s) \in {"ready", "failed"}
=============================================================================
