---------------------------- MODULE MCPortalReads ----------------------------
(***************************************************************************)
(* The portal's own readers and pages, for the machine of PortalReads.     *)
(***************************************************************************)
EXTENDS PortalSettling, PortalViews

\* One more hydrate() or click on every page, none where the chain is long,
\* two where several scripts meet in one slot, and at the far end of a handoff:
\* there and back.
Long == {"/dashboard", "/content/handoffs", "/content/handoffs/id", "/admin/content-handoffs"}
Busy == {"/projects/id", "/audio/assets", "/analytics/id", "/admin/topups"}
PortalMoves == [p \in Pages |-> IF p \in Busy THEN 2 ELSE IF p \in Long THEN 0 ELSE 1]

\* The pages one document may hold, from p.
Linked(P) == P \cup UNION {l \in Links : l \cap P # {}}
             \cup UNION {{h.from, h.to} : h \in {g \in Handoffs : {g.from, g.to} \cap P # {}}}
PortalJoined == [p \in Pages |-> Linked(Linked(Linked({p})))]

\* The portal's table keeps what its pages promise.
ASSUME OrderlyAssumption == Orderly(PortalJoined)
=============================================================================
