---------------------------- MODULE PortalSettling ----------------------------
(***************************************************************************)
(* What a table of readers and pages must be like for its pages to settle: *)
(* whoever takes down a slot that the page on the screen was promised, or  *)
(* revokes what was asked for it, brings it back, alone or later in the    *)
(* same script.  The portal's own table is (MCPortalReads), and of any     *)
(* such table PortalReads_proofs shows that its pages settle, whatever is  *)
(* clicked and in whatever order answers come.                             *)
(*                                                                         *)
(* v is a reader in a script of page q; p is the page on the screen, s one *)
(* of the slots it was promised.  A session has been read.                 *)
(***************************************************************************)
EXTENDS PortalReads

\* v goes on to ask; its answer, if nothing overtakes it, is let in.
Going(v, q, p) ==
    /\ View[v].fence = "screen" => v \in ReadOn(p)
    /\ View[v].fence = "route" => q = p
Lands(v, q, p) == Going(v, q, p) /\ (View[v].fence = "given" => q = p)

\* The slots that say so when v fails, those that say what came of v either
\* way, and with them those that the readers it goes on to would fill.
Sure(v) == View[v].fails \ View[v].spares
Fills(v) == View[v].shows \cap Sure(v)
Brings(v) == Fills(v) \cup (Sure(v) \cap UNION {Fills(w) : w \in View[v].then})

\* Once v has asked, s will be filled or fail, unless v is overtaken.
Delivers(v, q, p, s) ==
    /\ Lands(v, q, p)
    /\ \/ s \in Fills(v)
       \/ s \in Sure(v) /\ \E w \in View[v].then : Lands(w, q, p) /\ s \in Fills(w)

\* v's answer, if it is let in, takes s down.
Empties(v, q, p, s) == Lands(v, q, p) /\ s \in View[v].empties \ View[v].shows

\* v overtakes a reader of s, takes s down to ask, or empties it in its answer.
Disturbs(v, q, p, s) ==
    \/ \E u \in Views : s \in Brings(u) /\ View[u].channel \in Advances(View[v])
    \/ Going(v, q, p) /\ s \in View[v].starts \cup View[v].clears
    \/ Empties(v, q, p, s)

\* After its step i, or 0, the script c comes to a reader that delivers s; an
\* exception that ends c before leaves s failed.
Breaks(V, s) == \E u \in V : View[u].throws /\ s \notin Sure(u)
Comes(c, i, q, p, s) ==
    \E j \in DOMAIN c :
        /\ i < j /\ \E v \in c[j] : Delivers(v, q, p, s)
        /\ \A k \in DOMAIN c : i =< k /\ k < j => ~Breaks(c[k], s)

\* What v goes on to read brings back what it disturbs; so does a script that
\* does no harm to s.
Onward(v, q, p, s) ==
    \A w \in View[v].then : Disturbs(w, q, p, s) => Delivers(w, q, p, s)
Harmless(c, q, p, s) ==
    \A i \in DOMAIN c : \A v \in c[i] :
        /\ Disturbs(v, q, p, s) => Delivers(v, q, p, s) \/ Comes(c, i, q, p, s)
        /\ Onward(v, q, p, s)

\* A reader that throws is asked alone.
Solo(c) == \A i \in DOMAIN c : \A v \in c[i] : View[v].throws => c[i] = {v}

-----------------------------------------------------------------------------
\* The scripts that may be started on q.
ScriptsOf(q) ==
    {Page[q].chain} \cup Page[q].clicks \cup {h.script : h \in {g \in Handoffs : g.to = q}}

\* What a page is promised: by its chain, or by the move that brought it to
\* the screen.
ChainDuty(p) == [page |-> p, script |-> Page[p].chain]
HandDuty(h) == [page |-> h.to, script |-> h.script]
Duties == {ChainDuty(p) : p \in Pages} \cup {HandDuty(h) : h \in Handoffs}

\* The first reads of d overtake v, if v was asked for before.
Overtaken(v, d) == \E u \in Head(d.script) : View[v].channel \in Advances(View[u])

\* Joined[p] are the pages that one document may have come to p from, in any
\* number of moves: whichever way one goes over links and handoffs, Back and
\* Forward included, one stays among them.
Closed(Joined) ==
    /\ Joined \in [Pages -> SUBSET Pages]
    /\ \A p \in Pages : p \in Joined[p] /\ \A q \in Joined[p] : Joined[q] = Joined[p]
    /\ \A l \in Links : \A p, q \in l : Joined[p] = Joined[q]
    /\ \A h \in Handoffs : Joined[h.from] = Joined[h.to]

\* Readers: what v goes on to read neither throws nor goes on; what v revokes
\* fails with it; a reader without a path empties nothing.
OrderlyView(v) ==
    /\ \A w \in View[v].then : ~View[w].throws /\ View[w].then = {}
    /\ \A u \in Views : View[u].channel \in View[v].revokes => Brings(u) \subseteq Sure(v)
    /\ View[v].fence = "none" => View[v].empties = {}

\* What is left of a script c of page q once its first reads have been asked for
\* does no harm to what d promises; nor do the answers to these, unless d
\* overtakes them.
Bygone(c, q, d, s) ==
    /\ Harmless(Tail(c), q, d.page, s)
    /\ \A v \in Head(c) :
           /\ Onward(v, q, d.page, s)
           /\ Empties(v, q, d.page, s) =>
                  Overtaken(v, d) \/ Delivers(v, q, d.page, s) \/ Comes(c, 1, q, d.page, s)

\* Scripts: d's own keeps the promise; the buttons of its page do no harm to it,
\* nor does what was begun on any page before it came to the screen.
Kept(Joined, d, s) ==
    /\ Comes(d.script, 0, d.page, d.page, s)
    /\ \A c \in Page[d.page].clicks \cup {d.script} : Harmless(c, d.page, d.page, s)
    /\ \A q \in Joined[d.page] : \A c \in ScriptsOf(q) : Bygone(c, q, d, s)

Orderly(Joined) ==
    /\ Closed(Joined)
    /\ \A v \in Views : OrderlyView(v)
    /\ \A q \in Pages : \A c \in ScriptsOf(q) : Solo(c)
    /\ \A d \in Duties : \A s \in Promised(d.script) : Kept(Joined, d, s)
=============================================================================
