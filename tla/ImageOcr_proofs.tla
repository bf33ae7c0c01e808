-------------------------- MODULE ImageOcr_proofs --------------------------
(* Theorems about ImageOcr, for every set of operations, sources and       *)
(* files, every quota and any number of crashes.                           *)
EXTENDS ImageOcr, TLAPS

\* A handler has a file exactly while it may still record or unlink it.
HandlersFit ==
    \A o \in Ops : handler[o].made # NoFile <=> handler[o].at \in {"verifying", "read"}

\* A row refers to a file exactly when it has been delivered.
RowsFit ==
    \A o \in Ops : row[o].output # NoFile <=> row[o].state \in {"completed", "unavailable"}

\* A file is young while its handler works and no row refers to it yet; what
\* the scan goes to unlink is old and no row refers to it.
FilesFit ==
    /\ \A o \in Ops : handler[o].made # NoFile =>
           /\ handler[o].made \in disk \ agedFiles
           /\ \A p \in Ops : row[p].output # handler[o].made
    /\ scan = "files" => orphans \subseteq agedFiles
    /\ scan = "files" => \A p \in Ops : row[p].output \notin orphans
    /\ \A o \in Ops : row[o].state = "completed" => row[o].output \in disk
    /\ crashes = 0 => \A f \in disk :
           \E o \in Ops : row[o].output = f \/ handler[o].made = f

IInv ==
    /\ TypeOK
    /\ SlotIsHeld
    /\ RowsAreWorked
    /\ HandlersFit
    /\ RowsFit
    /\ FilesFit

-----------------------------------------------------------------------------

\* Nothing is stored and nobody works at first.
LEMMA InitIInv == Init => IInv
<1>. SUFFICES ASSUME Init PROVE IInv
    OBVIOUS
<1>1. Idle \in HandlerType /\ Idle.at = "idle" /\ Idle.made = NoFile
    BY DEF Idle, HandlerType, Stages
<1>2. [state |-> "absent", code |-> "none", output |-> NoFile] \in RowType
    BY DEF RowType, States
<1>3. TypeOK
    <2>1. row \in [Ops -> RowType] /\ handler \in [Ops -> HandlerType]
        BY <1>1, <1>2 DEF Init
    <2>2. permits \in 0..1 /\ crashes \in 0..MaxCrashes
        BY BoundAssumption DEF Init
    <2>. QED  BY <2>1, <2>2 DEF Init, TypeOK
<1>4. \A o \in Ops : handler[o] = Idle /\ row[o].state = "absent" /\ row[o].output = NoFile
    BY DEF Init
<1>. QED
    BY <1>1, <1>3, <1>4 DEF Init, IInv, SlotIsHeld, RowsAreWorked, HandlersFit, RowsFit, FilesFit,
       Live

\* What a handler's step leaves alone of the others.
LEMMA HandlerChanges ==
    ASSUME IInv, NEW o \in Ops, NEW h \in HandlerType, handler' = [handler EXCEPT ![o] = h]
    PROVE  /\ handler' \in [Ops -> HandlerType]
           /\ handler'[o] = h
           /\ \A p \in Ops \ {o} : handler'[p] = handler[p]
BY DEF IInv, TypeOK

\* The same of a row.
LEMMA RowChanges ==
    ASSUME IInv, NEW o \in Ops, NEW r \in RowType, row' = [row EXCEPT ![o] = r]
    PROVE  /\ row' \in [Ops -> RowType]
           /\ row'[o] = r
           /\ \A p \in Ops \ {o} : row'[p] = row[p]
BY DEF IInv, TypeOK

\* The only live handler has the only unrecorded file.
LEMMA OneHandler ==
    ASSUME IInv, NEW o \in Ops, Live(o)
    PROVE  /\ \A p \in Ops \ {o} : handler[p].at = "idle" /\ handler[p].made = NoFile
           /\ permits = 0 /\ other = FALSE
           /\ row[o].state = "processing" /\ o \notin agedRows
BY DEF IInv, TypeOK, SlotIsHeld, RowsAreWorked, HandlersFit, Live

\* A live handler that goes on with the file it has, or none.
LEMMA GoesOn ==
    ASSUME IInv, NEW o \in Ops, Live(o), NEW h \in HandlerType,
           handler' = [handler EXCEPT ![o] = h],
           h.at # "idle", h.made = handler[o].made,
           h.made # NoFile <=> h.at \in {"verifying", "read"},
           condemned' \subseteq Assets,
           UNCHANGED <<row, agedRows, disk, agedFiles, permits, other, process>>
    PROVE  IInv'
<1>1. /\ handler' \in [Ops -> HandlerType]
      /\ handler'[o] = h
      /\ \A p \in Ops \ {o} : handler'[p] = handler[p]
    BY HandlerChanges
<1>2. TypeOK'
    BY <1>1 DEF IInv, TypeOK, process
<1>3. \A p \in Ops : /\ handler'[p].made = handler[p].made
                     /\ Live(p)' <=> Live(p)
    BY <1>1 DEF Live
<1>4. SlotIsHeld' /\ RowsAreWorked'
    BY <1>3 DEF IInv, SlotIsHeld, RowsAreWorked, process, Live
<1>5. HandlersFit' /\ RowsFit'
    BY <1>1 DEF IInv, HandlersFit, RowsFit
<1>6. FilesFit'
    BY <1>3 DEF IInv, FilesFit, process
<1>. QED  BY <1>2, <1>4, <1>5, <1>6 DEF IInv

\* A live handler unlinks the file it has published.
LEMMA Unlinks ==
    ASSUME IInv, NEW o \in Ops, handler[o].at \in {"verifying", "read"},
           handler' = [handler EXCEPT ![o] = [at |-> "settle", cause |-> "error",
                                              made |-> NoFile]],
           disk' = disk \ {handler[o].made},
           UNCHANGED <<row, agedRows, condemned, agedFiles, permits, other, process>>
    PROVE  IInv'
<1>. DEFINE h == [at |-> "settle", cause |-> "error", made |-> NoFile]
<1>0. h \in HandlerType
    BY DEF HandlerType, Stages, Failures
<1>1. /\ handler' \in [Ops -> HandlerType]
      /\ handler'[o] = h
      /\ \A p \in Ops \ {o} : handler'[p] = handler[p]
    BY <1>0, HandlerChanges
<1>2. Live(o) /\ handler[o].made # NoFile
    BY DEF Live, IInv, HandlersFit
<1>3. TypeOK'
    <2>1. agedFiles' \subseteq disk'
        BY <1>2 DEF IInv, TypeOK, FilesFit
    <2>. QED  BY <1>1, <2>1 DEF IInv, TypeOK, process
<1>4. \A p \in Ops : Live(p)' <=> Live(p)
    BY <1>1, <1>2 DEF Live
<1>5. SlotIsHeld' /\ RowsAreWorked'
    BY <1>4 DEF IInv, SlotIsHeld, RowsAreWorked, process, Live
<1>6. HandlersFit' /\ RowsFit'
    BY <1>1 DEF IInv, HandlersFit, RowsFit
<1>7. FilesFit'
    <2>1. \A p \in Ops : handler'[p].made = NoFile
        BY <1>1, <1>2, OneHandler
    <2>2. \A p \in Ops : row[p].output # handler[o].made
        BY <1>2 DEF IInv, FilesFit
    <2>3. \A f \in disk' : \A p \in Ops : handler[p].made = f => FALSE
        <3>. SUFFICES ASSUME NEW f \in disk', NEW p \in Ops, handler[p].made = f PROVE FALSE
            OBVIOUS
        <3>1. CASE p = o
            BY <3>1
        <3>2. CASE p # o
            BY <3>2, <1>2, OneHandler, FileAssumption DEF IInv, TypeOK
        <3>. QED  BY <3>1, <3>2
    <2>. QED  BY <2>1, <2>2, <2>3 DEF IInv, FilesFit, process
<1>. QED  BY <1>3, <1>5, <1>6, <1>7 DEF IInv

\* Starting on a new or resumed row takes the free slot.
LEMMA BeginKeepsIInv ==
    ASSUME IInv, NEW o \in Ops, Begin(o)
    PROVE  IInv'
<1>. DEFINE r == [state |-> "processing", code |-> "none", output |-> NoFile]
            h == [handler[o] EXCEPT !.at = "copying"]
<1>0. permits = 1 /\ other = FALSE /\ \A p \in Ops : ~Live(p)
    BY DEF IInv, TypeOK, SlotIsHeld, Begin
<1>1. /\ handler[o].at = "idle" /\ handler[o].made = NoFile
      /\ handler[o] \in HandlerType
    BY <1>0 DEF Live, IInv, HandlersFit, TypeOK
<1>2. h \in HandlerType /\ h.at = "copying" /\ h.made = NoFile
    BY <1>1 DEF HandlerType, Stages
<1>3. r \in RowType
    BY DEF RowType, States
<1>4. handler' = [handler EXCEPT ![o] = h] /\ row' = [row EXCEPT ![o] = r]
    BY DEF Begin
<1>. HIDE DEF h
<1>5. /\ handler' \in [Ops -> HandlerType] /\ handler'[o] = h
      /\ \A p \in Ops \ {o} : handler'[p] = handler[p]
    BY <1>2, <1>4, HandlerChanges
<1>6. /\ row' \in [Ops -> RowType] /\ row'[o] = r
      /\ \A p \in Ops \ {o} : row'[p] = row[p]
    BY <1>3, <1>4, RowChanges
<1>7. row[o].output = NoFile
    BY DEF Begin, Retryable, IInv, RowsFit
<1>8. TypeOK'
    BY <1>0, <1>5, <1>6 DEF IInv, TypeOK, Begin, store, process
<1>9. \A p \in Ops : (Live(p)' <=> p = o) /\ handler'[p].made = handler[p].made
                     /\ row'[p].output = row[p].output
    BY <1>0, <1>1, <1>2, <1>5, <1>6, <1>7 DEF Live
<1>10. SlotIsHeld'
    BY <1>0, <1>9 DEF SlotIsHeld, Begin
<1>11. RowsAreWorked'
    BY <1>0, <1>6, <1>9 DEF IInv, RowsAreWorked, Begin, process
<1>12. HandlersFit' /\ RowsFit'
    BY <1>2, <1>5, <1>6 DEF IInv, HandlersFit, RowsFit
<1>13. FilesFit'
    BY <1>6, <1>9 DEF IInv, FilesFit, Begin, store, process
<1>. QED  BY <1>8, <1>10, <1>11, <1>12, <1>13 DEF IInv

\* Publishing adds a file that nothing refers to.
LEMMA PublishKeepsIInv ==
    ASSUME IInv, NEW o \in Ops, PublishText(o)
    PROVE  IInv'
<1>1. PICK f \in Files \ (disk \cup Outputs) :
          /\ handler[o].at = "reading"
          /\ handler' = [handler EXCEPT ![o] = [handler[o] EXCEPT !.at = "verifying", !.made = f]]
          /\ disk' = disk \cup {f}
          /\ UNCHANGED <<row, agedRows, condemned, agedFiles, permits, other, process>>
    BY DEF PublishText
<1>. DEFINE h == [handler[o] EXCEPT !.at = "verifying", !.made = f]
<1>2. h \in HandlerType /\ h.at = "verifying" /\ h.made = f
    BY DEF IInv, TypeOK, HandlerType, Stages
<1>. HIDE DEF h
<1>3. /\ handler' \in [Ops -> HandlerType] /\ handler'[o] = h
      /\ \A p \in Ops \ {o} : handler'[p] = handler[p]
    BY <1>1, <1>2, HandlerChanges DEF h
<1>4. Live(o) /\ f # NoFile /\ handler[o].made = NoFile
    BY <1>1, FileAssumption DEF Live, IInv, HandlersFit
<1>5. TypeOK'
    BY <1>1, <1>3 DEF IInv, TypeOK, process
<1>6. \A p \in Ops : Live(p)' <=> Live(p)
    BY <1>2, <1>3, <1>4 DEF Live
<1>7. SlotIsHeld' /\ RowsAreWorked'
    BY <1>1, <1>6 DEF IInv, SlotIsHeld, RowsAreWorked, process, Live
<1>8. HandlersFit' /\ RowsFit'
    BY <1>1, <1>2, <1>3, <1>4 DEF IInv, HandlersFit, RowsFit
<1>9. \A p \in Ops : row[p].output # f
    BY <1>1, <1>4 DEF Outputs
<1>10. f \notin agedFiles
    BY <1>1 DEF IInv, TypeOK
<1>11. \A p \in Ops \ {o} : handler'[p].made = NoFile
    BY <1>3, <1>4, OneHandler
<1>12. FilesFit'
    <2>1. \A p \in Ops : handler'[p].made # NoFile =>
              /\ handler'[p].made \in disk' \ agedFiles'
              /\ \A q \in Ops : row'[q].output # handler'[p].made
        BY <1>1, <1>2, <1>3, <1>9, <1>10, <1>11
    <2>2. crashes' = 0 => \A g \in disk' : \E p \in Ops : row'[p].output = g \/ handler'[p].made = g
        <3>. SUFFICES ASSUME crashes' = 0, NEW g \in disk'
                      PROVE  \E p \in Ops : row'[p].output = g \/ handler'[p].made = g
            OBVIOUS
        <3>1. CASE g = f
            BY <3>1, <1>2, <1>3
        <3>2. CASE g # f
          <4>1. crashes = 0 /\ g \in disk /\ row' = row
              BY <3>2, <1>1 DEF process
          <4>2. PICK p \in Ops : row[p].output = g \/ handler[p].made = g
              BY <4>1 DEF IInv, FilesFit
          <4>3. handler[p].made # g
              BY <4>1, <1>4, OneHandler, FileAssumption DEF IInv, TypeOK
          <4>. QED  BY <4>1, <4>2, <4>3
        <3>. QED  BY <3>1, <3>2
    <2>. QED  BY <2>1, <2>2, <1>1 DEF IInv, FilesFit, process
<1>. QED  BY <1>5, <1>7, <1>8, <1>12 DEF IInv

\* A handler that settles its row and leaves gives back the slot it holds.
LEMMA LeavesKeepsSlot ==
    ASSUME IInv, NEW o \in Ops, Live(o), Leaves(o)
    PROVE  /\ handler' \in [Ops -> HandlerType]
           /\ \A p \in Ops : ~Live(p)' /\ handler'[p].made = NoFile
           /\ permits' = 1 /\ other' = FALSE
           /\ SlotIsHeld' /\ HandlersFit'
<1>1. Idle \in HandlerType /\ Idle.at = "idle" /\ Idle.made = NoFile
    BY DEF Idle, HandlerType, Stages
<1>2. /\ handler' \in [Ops -> HandlerType]
      /\ handler'[o] = Idle
      /\ \A p \in Ops \ {o} : handler'[p] = handler[p]
    BY <1>1, HandlerChanges DEF Leaves
<1>3. permits = 0 /\ other = FALSE
      /\ \A p \in Ops \ {o} : handler[p].at = "idle" /\ handler[p].made = NoFile
    BY OneHandler
<1>4. permits' = 1 /\ other' = FALSE
    BY <1>3 DEF Leaves
<1>5. \A p \in Ops : handler'[p].at = "idle" /\ handler'[p].made = NoFile
    BY <1>1, <1>2, <1>3
<1>. QED  BY <1>2, <1>4, <1>5 DEF SlotIsHeld, HandlersFit, Live

\* Completing records the handler's file in its row.
LEMMA CompleteKeepsIInv ==
    ASSUME IInv, NEW o \in Ops, Complete(o)
    PROVE  IInv'
<1>. DEFINE f == handler[o].made
            r == [state |-> "completed", code |-> "none", output |-> f]
<1>1. Live(o) /\ f # NoFile /\ f \in disk /\ f \notin agedFiles
      /\ \A p \in Ops : row[p].output # f
    BY DEF Complete, Live, IInv, HandlersFit, FilesFit
<1>2. r \in RowType /\ r.output = f /\ r.state = "completed"
    BY <1>1 DEF RowType, States, IInv, TypeOK
<1>. HIDE DEF f
<1>3. row' = [row EXCEPT ![o] = r]
    BY DEF Complete, f
<1>. HIDE DEF r
<1>4. /\ row' \in [Ops -> RowType] /\ row'[o] = r
      /\ \A p \in Ops \ {o} : row'[p] = row[p]
    BY <1>2, <1>3, RowChanges
<1>5. /\ handler' \in [Ops -> HandlerType]
      /\ \A p \in Ops : ~Live(p)' /\ handler'[p].made = NoFile
      /\ permits' = 1 /\ other' = FALSE
      /\ SlotIsHeld' /\ HandlersFit'
    BY <1>1, LeavesKeepsSlot DEF Complete
<1>6. TypeOK'
    BY <1>4, <1>5 DEF IInv, TypeOK, Complete, Leaves, store, process
<1>7. RowsAreWorked'
    <2>1. \A p \in Ops \ {o} : ~Live(p)
        BY <1>1, OneHandler DEF Live
    <2>. QED  BY <1>2, <1>4, <1>5, <2>1 DEF IInv, RowsAreWorked, Complete, Leaves, process
<1>8. RowsFit'
    BY <1>1, <1>2, <1>4 DEF IInv, RowsFit
<1>9. FilesFit'
    <2>1. /\ disk' = disk /\ agedFiles' = agedFiles /\ crashes' = crashes
          /\ scan' = scan /\ orphans' = orphans
        BY DEF Complete, Leaves, store, process
    <2>2. scan' = "files" => orphans' \subseteq agedFiles' /\ \A p \in Ops : row'[p].output \notin orphans'
        BY <2>1, <1>1, <1>2, <1>4 DEF IInv, FilesFit
    <2>3. \A p \in Ops : row'[p].state = "completed" => row'[p].output \in disk'
        BY <2>1, <1>1, <1>2, <1>4 DEF IInv, FilesFit
    <2>4. crashes' = 0 => \A g \in disk' : \E p \in Ops : row'[p].output = g \/ handler'[p].made = g
        <3>. SUFFICES ASSUME crashes = 0, NEW g \in disk
                      PROVE  \E p \in Ops : row'[p].output = g
            BY <2>1
        <3>1. PICK p \in Ops : row[p].output = g \/ handler[p].made = g
            BY DEF IInv, FilesFit
        <3>2. CASE g = f
            BY <3>2, <1>2, <1>4
        <3>3. CASE g # f
          <4>1. handler[p].made # g
              BY <3>3, <1>1, OneHandler, FileAssumption DEF f, IInv, TypeOK
          <4>2. p # o
            <5>1. row[o].output = NoFile
                BY <1>1, OneHandler DEF IInv, RowsFit
            <5>. QED  BY <5>1, <3>1, <4>1, FileAssumption DEF IInv, TypeOK
          <4>. QED  BY <3>1, <4>1, <4>2, <1>4
        <3>. QED  BY <3>2, <3>3
    <2>. QED  BY <1>5, <2>2, <2>3, <2>4 DEF FilesFit
<1>. QED  BY <1>5, <1>6, <1>7, <1>8, <1>9 DEF IInv

\* Steps that keep every handler's place, every output and the disk, and that
\* take rows nobody works on out of processing or complete.
LEMMA RowsMove ==
    ASSUME IInv, row' \in [Ops -> RowType],
           \A o \in Ops : row'[o] # row[o] =>
               /\ row'[o].output = row[o].output
               /\ row'[o].state \in States \ {"absent", "processing", "completed"}
               /\ row'[o].state = "unavailable" <=> row[o].state = "completed",
           \A o \in Ops : Live(o)' => Live(o) /\ row'[o] = row[o],
           agedRows' \subseteq agedRows,
           \A o \in Ops : Live(o) /\ ~Live(o)' => row'[o].state # "processing",
           \A o \in Ops : row[o].state = "unavailable" => row'[o] = row[o],
           \A o \in Ops : handler'[o].made = handler[o].made,
           UNCHANGED <<disk, agedFiles, crashes>>,
           scan' = "files" => orphans' \subseteq agedFiles,
           scan' = "files" => \A o \in Ops : row[o].output \notin orphans'
    PROVE  RowsAreWorked' /\ RowsFit' /\ FilesFit'
<1>1. \A o \in Ops : /\ row'[o].output = row[o].output
                     /\ row'[o].state = "completed" => row[o].state = "completed"
                     /\ row'[o].state = "processing" => row'[o] = row[o]
    OBVIOUS
<1>2. RowsAreWorked'
    BY <1>1 DEF IInv, RowsAreWorked
<1>3. RowsFit'
    BY <1>1 DEF IInv, RowsFit
<1>4. FilesFit'
    BY <1>1 DEF IInv, FilesFit
<1>. QED  BY <1>2, <1>3, <1>4

\* A verdict is written to a row that no file belongs to.
LEMMA SettleKeepsIInv ==
    ASSUME IInv, NEW o \in Ops, Settle(o)
    PROVE  IInv'
<1>. DEFINE r == [row[o] EXCEPT !.state = Verdict(handler[o].cause), !.code = handler[o].cause]
<1>1. Live(o) /\ row[o].state = "processing" /\ row[o].output = NoFile
      /\ row[o] \in RowType /\ handler[o].cause \in Failures \cup {"none"}
    BY OneHandler DEF Settle, Live, IInv, RowsFit, TypeOK, HandlerType
<1>2. row' = [row EXCEPT ![o] = r]
    BY <1>1 DEF Settle, Settled
<1>3. r \in RowType /\ r.output = row[o].output /\ r.state \in {"guarded", "failed"}
    BY <1>1 DEF RowType, States, Verdict
<1>. HIDE DEF r
<1>4. /\ row' \in [Ops -> RowType] /\ row'[o] = r
      /\ \A p \in Ops \ {o} : row'[p] = row[p]
    BY <1>2, <1>3, RowChanges
<1>5. /\ handler' \in [Ops -> HandlerType]
      /\ \A p \in Ops : ~Live(p)' /\ handler'[p].made = NoFile
      /\ permits' = 1 /\ other' = FALSE
      /\ SlotIsHeld' /\ HandlersFit'
    BY <1>1, LeavesKeepsSlot DEF Settle
<1>6. TypeOK'
    BY <1>4, <1>5 DEF IInv, TypeOK, Settle, Leaves, store, process
<1>7. \A p \in Ops : handler'[p].made = handler[p].made
    BY <1>1, <1>5, OneHandler DEF Settle, IInv, HandlersFit
<1>8. \A p \in Ops : p # o => ~Live(p)
    BY <1>1, OneHandler DEF Live
<1>9. RowsAreWorked' /\ RowsFit' /\ FilesFit'
    <2>1. /\ disk' = disk /\ agedFiles' = agedFiles /\ crashes' = crashes
          /\ scan' = scan /\ orphans' = orphans /\ agedRows' = agedRows
        BY DEF Settle, Leaves, store, process
    <2>2. \A p \in Ops : row'[p] # row[p] =>
              /\ row'[p].output = row[p].output
              /\ row'[p].state \in States \ {"absent", "processing", "completed"}
              /\ row'[p].state = "unavailable" <=> row[p].state = "completed"
        BY <1>1, <1>3, <1>4 DEF States
    <2>3. \A p \in Ops : Live(p) /\ ~Live(p)' => row'[p].state # "processing"
        BY <1>3, <1>4, <1>8
    <2>4. \A p \in Ops : row[p].state = "unavailable" => row'[p] = row[p]
        BY <1>1, <1>4
    <2>5. scan = "files" => /\ orphans \subseteq agedFiles
                            /\ \A p \in Ops : row[p].output \notin orphans
        BY DEF IInv, FilesFit
    <2>. QED  BY <1>4, <1>5, <1>7, <2>1, <2>2, <2>3, <2>4, <2>5, RowsMove
<1>. QED  BY <1>5, <1>6, <1>9 DEF IInv

\* Withdrawing an output leaves its file and its storage key.
LEMMA WithdrawKeepsIInv ==
    ASSUME IInv, NEW o \in Ops, Withdraw(o)
    PROVE  IInv'
<1>. DEFINE r == [row[o] EXCEPT !.state = "unavailable"]
<1>1. row[o] \in RowType /\ row[o].state = "completed" /\ row' = [row EXCEPT ![o] = r]
    BY DEF Withdraw, IInv, TypeOK
<1>2. r \in RowType /\ r.output = row[o].output /\ r.state = "unavailable"
    BY <1>1 DEF RowType, States
<1>. HIDE DEF r
<1>3. /\ row' \in [Ops -> RowType] /\ row'[o] = r
      /\ \A p \in Ops \ {o} : row'[p] = row[p]
    BY <1>1, <1>2, RowChanges
<1>4. ~Live(o)
    BY <1>1 DEF IInv, RowsAreWorked
<1>5. \A p \in Ops : Live(p)' <=> Live(p)
    BY DEF Withdraw, Live
<1>6. TypeOK'
    BY <1>3 DEF IInv, TypeOK, Withdraw, store, process
<1>7. SlotIsHeld' /\ HandlersFit'
    BY DEF IInv, SlotIsHeld, HandlersFit, Withdraw, Live
<1>8. RowsAreWorked' /\ RowsFit' /\ FilesFit'
    <2>1. /\ disk' = disk /\ agedFiles' = agedFiles /\ crashes' = crashes /\ handler' = handler
          /\ scan' = scan /\ orphans' = orphans /\ agedRows' = agedRows
        BY DEF Withdraw, store, process
    <2>2. \A p \in Ops : row'[p] # row[p] =>
              /\ row'[p].output = row[p].output
              /\ row'[p].state \in States \ {"absent", "processing", "completed"}
              /\ row'[p].state = "unavailable" <=> row[p].state = "completed"
        BY <1>1, <1>2, <1>3 DEF States
    <2>3. \A p \in Ops : Live(p)' => Live(p) /\ row'[p] = row[p]
        BY <1>3, <1>4, <1>5
    <2>4. \A p \in Ops : row[p].state = "unavailable" => row'[p] = row[p]
        BY <1>1, <1>3
    <2>5. scan = "files" => /\ orphans \subseteq agedFiles
                            /\ \A p \in Ops : row[p].output \notin orphans
        BY DEF IInv, FilesFit
    <2>. QED  BY <1>3, <1>5, <2>1, <2>2, <2>3, <2>4, <2>5, RowsMove
<1>. QED  BY <1>6, <1>7, <1>8 DEF IInv

\* A thread's end that leaves the file its handler has.
LEMMA ThreadKeepsIInv ==
    ASSUME IInv, NEW o \in Ops, NEW from, NEW to \in Stages, NEW cause \in Failures \cup {"none"},
           ThreadEnds(o, from, to, cause),
           from # "idle", to # "idle",
           from \in {"verifying", "read"} <=> to \in {"verifying", "read"},
           UNCHANGED <<disk, agedFiles>>
    PROVE  IInv'
<1>. DEFINE h == [handler[o] EXCEPT !.at = to, !.cause = cause]
<1>1. handler[o] \in HandlerType /\ handler[o].at = from /\ Live(o)
    BY DEF IInv, TypeOK, ThreadEnds, Live
<1>2. h \in HandlerType /\ h.at = to /\ h.made = handler[o].made
    BY <1>1 DEF HandlerType
<1>3. handler' = [handler EXCEPT ![o] = h]
    BY DEF ThreadEnds
<1>. HIDE DEF h
<1>4. h.made # NoFile <=> h.at \in {"verifying", "read"}
    BY <1>1, <1>2 DEF IInv, HandlersFit
<1>5. condemned' \subseteq Assets
    BY DEF IInv, TypeOK, ThreadEnds
<1>. QED  BY <1>1, <1>2, <1>3, <1>4, <1>5, GoesOn DEF ThreadEnds

\* Condemning the source leaves the error to be reported.
LEMMA CondemnKeepsIInv ==
    ASSUME IInv, NEW o \in Ops, CondemnSource(o)
    PROVE  IInv'
<1>. DEFINE h == [handler[o] EXCEPT !.at = "settle"]
<1>1. handler[o] \in HandlerType /\ handler[o].at = "condemn" /\ Live(o)
    BY DEF IInv, TypeOK, CondemnSource, Live
<1>2. h \in HandlerType /\ h.at = "settle" /\ h.made = handler[o].made
    BY <1>1 DEF HandlerType, Stages
<1>3. handler' = [handler EXCEPT ![o] = h]
    BY DEF CondemnSource
<1>. HIDE DEF h
<1>4. h.made # NoFile <=> h.at \in {"verifying", "read"}
    BY <1>1, <1>2 DEF IInv, HandlersFit
<1>5. condemned' \subseteq Assets
    <2>1. SourceOf[o] \in Assets
        BY SourceAssumption
    <2>2. condemned' = condemned \/ condemned' = condemned \cup {SourceOf[o]}
        BY DEF CondemnSource
    <2>. QED  BY <2>1, <2>2 DEF IInv, TypeOK
<1>. QED  BY <1>1, <1>2, <1>3, <1>4, <1>5, GoesOn DEF CondemnSource

\* Every step of a handler keeps the invariant.
LEMMA HandlerKeepsIInv ==
    ASSUME IInv, NEW o \in Ops, HandlerStep(o)
    PROVE  IInv'
<1>. USE DEF Stages, Failures, ErrorStage
<1>1. CASE CopySource(o)
    BY <1>1, ThreadKeepsIInv DEF CopySource
<1>2. CASE CopyFails(o)
    <2>1. PICK cause \in {"source", "error"} : ThreadEnds(o, "copying", ErrorStage(cause), cause)
        BY <1>2 DEF CopyFails
    <2>. QED  BY <1>2, <2>1, ThreadKeepsIInv DEF CopyFails
<1>3. CASE ReadFails(o)
    <2>1. PICK cause \in {"runtime", "no_text", "error"} :
              ThreadEnds(o, "reading", ErrorStage(cause), cause)
        BY <1>3 DEF ReadFails
    <2>. QED  BY <1>3, <2>1, ThreadKeepsIInv DEF ReadFails
<1>4. CASE PublishText(o)
    BY <1>4, PublishKeepsIInv
<1>5. CASE VerifyText(o)
    BY <1>5, ThreadKeepsIInv DEF VerifyText
<1>6. CASE VerifyFails(o)
    BY <1>6, Unlinks DEF VerifyFails
<1>7. CASE Complete(o)
    BY <1>7, CompleteKeepsIInv
<1>8. CASE RefuseText(o)
    BY <1>8, Unlinks DEF RefuseText
<1>9. CASE CondemnSource(o)
    BY <1>9, CondemnKeepsIInv
<1>10. CASE Settle(o)
    BY <1>10, SettleKeepsIInv
<1>. QED
    BY <1>1, <1>2, <1>3, <1>4, <1>5, <1>6, <1>7, <1>8, <1>9, <1>10 DEF HandlerStep

-----------------------------------------------------------------------------

\* Another feature takes a slot nobody holds, and gives back its own.
LEMMA OtherKeepsIInv ==
    ASSUME IInv, OtherTakesSlot \/ OtherReleasesSlot
    PROVE  IInv'
<1>1. UNCHANGED <<row, agedRows, store, handler, process>>
    BY DEF OtherTakesSlot, OtherReleasesSlot
<1>2. permits' \in 0..1 /\ other' \in BOOLEAN /\ SlotIsHeld'
    <2>1. CASE OtherTakesSlot
        BY <2>1 DEF OtherTakesSlot, IInv, TypeOK, SlotIsHeld, Live
    <2>2. CASE OtherReleasesSlot
      <3>1. permits \in 0..1 /\ permits # 1 /\ \A o \in Ops : ~Live(o)
          BY <2>2 DEF OtherReleasesSlot, IInv, TypeOK, SlotIsHeld
      <3>2. permits' = 1 /\ other' = FALSE /\ \A o \in Ops : ~Live(o)'
          BY <2>2, <3>1 DEF OtherReleasesSlot, Live
      <3>3. SlotIsHeld'
          BY <3>2 DEF SlotIsHeld, Live
      <3>4. permits' \in 0..1
          BY <3>2
      <3>. QED  BY <3>2, <3>3, <3>4
    <2>. QED  BY <2>1, <2>2
<1>. QED
    BY <1>1, <1>2 DEF IInv, TypeOK, RowsAreWorked, HandlersFit, RowsFit, FilesFit, Live, store,
       process

\* The death of the process leaves rows and files, and frees the slot.
LEMMA CrashKeepsIInv ==
    ASSUME IInv, Crash
    PROVE  IInv'
<1>1. Idle \in HandlerType /\ Idle.at = "idle" /\ Idle.made = NoFile
    BY DEF Idle, HandlerType, Stages
<1>2. \A o \in Ops : handler'[o].at = "idle" /\ handler'[o].made = NoFile
    BY <1>1 DEF Crash
<1>3. crashes' \in 0..MaxCrashes /\ crashes' # 0
    BY BoundAssumption DEF Crash, IInv, TypeOK
<1>4. handler' \in [Ops -> HandlerType]
    BY <1>1 DEF Crash
<1>5. TypeOK'
    <2>1. permits' \in 0..1 /\ orphans' \subseteq Files /\ scan' = "down"
        BY DEF Crash
    <2>3. other' \in BOOLEAN
        BY DEF Crash
    <2>2. UNCHANGED <<row, agedRows, condemned, disk, agedFiles>>
        BY DEF Crash, store
    <2>. QED  BY <1>3, <1>4, <2>1, <2>2, <2>3 DEF IInv, TypeOK
<1>6. SlotIsHeld' /\ HandlersFit'
    BY <1>2 DEF Crash, SlotIsHeld, HandlersFit, Live
<1>7. RowsAreWorked' /\ RowsFit' /\ FilesFit'
    BY <1>2, <1>3 DEF Crash, IInv, RowsAreWorked, RowsFit, FilesFit, Live, store
<1>. QED  BY <1>5, <1>6, <1>7 DEF IInv

\* A new process serves, and has not scanned anything.
LEMMA StartKeepsIInv ==
    ASSUME IInv, StartProcess
    PROVE  IInv'
BY DEF StartProcess, IInv, TypeOK, SlotIsHeld, RowsAreWorked, HandlersFit, RowsFit, FilesFit,
   Live, store

\* The scan fails only rows that nobody works on.
LEMMA ScanRowsKeepsIInv ==
    ASSUME IInv, ScanRows
    PROVE  IInv'
<1>1. \A o \in Ops : Interrupted(o) => ~Live(o) /\ row[o].output = NoFile
    BY DEF IInv, RowsAreWorked, RowsFit, Interrupted
<1>2. \A o \in Ops :
          IF Interrupted(o) THEN /\ row'[o] = [row[o] EXCEPT !.state = "failed",
                                                           !.code = "interrupted"]
                                 /\ row[o].state = "processing"
          ELSE row'[o] = row[o]
    BY DEF ScanRows, Interrupted
<1>3. \A o \in Ops : /\ row[o] \in RowType
                     /\ row'[o] \in RowType
                     /\ row'[o].output = row[o].output
                     /\ row'[o] # row[o] => row'[o].state = "failed" /\ row[o].state = "processing"
    BY <1>2 DEF IInv, TypeOK, RowType, States, Failures
<1>4. row' \in [Ops -> RowType]
    BY <1>3 DEF ScanRows
<1>5. orphans' \subseteq agedFiles /\ \A o \in Ops : row[o].output \notin orphans'
    <2>1. \A o \in Ops : row[o].output # NoFile => row[o].output \in Outputs
        BY DEF Outputs
    <2>2. NoFile \notin agedFiles
        BY FileAssumption DEF IInv, TypeOK
    <2>. QED  BY <2>1, <2>2 DEF ScanRows, Unreferenced
<1>6. TypeOK'
    BY <1>4, <1>5 DEF ScanRows, IInv, TypeOK, store
<1>7. SlotIsHeld' /\ HandlersFit'
    BY DEF ScanRows, IInv, SlotIsHeld, HandlersFit, Live
<1>8. RowsAreWorked' /\ RowsFit' /\ FilesFit'
    <2>1. \A o \in Ops : row'[o] # row[o] =>
              /\ row'[o].output = row[o].output
              /\ row'[o].state \in States \ {"absent", "processing", "completed"}
              /\ row'[o].state = "unavailable" <=> row[o].state = "completed"
        BY <1>3 DEF States
    <2>2. \A o \in Ops : Live(o)' => Live(o) /\ row'[o] = row[o]
        BY <1>1, <1>2 DEF ScanRows, Live
    <2>3. \A o \in Ops : row[o].state = "unavailable" => row'[o] = row[o]
        BY <1>2
    <2>4. \A o \in Ops : Live(o)' <=> Live(o)
        BY DEF ScanRows, Live
    <2>5. /\ agedRows' \subseteq agedRows
          /\ \A o \in Ops : handler'[o].made = handler[o].made
          /\ UNCHANGED <<disk, agedFiles, crashes>>
        BY DEF ScanRows, store
    <2>. QED  BY <1>4, <1>5, <2>1, <2>2, <2>3, <2>4, <2>5, RowsMove
<1>. QED  BY <1>6, <1>7, <1>8 DEF IInv

\* The scan unlinks only what nobody refers to or works on.
LEMMA ScanFilesKeepsIInv ==
    ASSUME IInv, ScanFiles
    PROVE  IInv'
<1>1. /\ disk' = disk \ orphans /\ agedFiles' = agedFiles \ orphans
      /\ orphans \subseteq agedFiles /\ \A o \in Ops : row[o].output \notin orphans
      /\ scan' = "done"
      /\ UNCHANGED <<row, agedRows, condemned, permits, other, handler, orphans, crashes>>
    BY DEF ScanFiles, IInv, FilesFit
<1>2. TypeOK'
    BY <1>1 DEF IInv, TypeOK
<1>3. SlotIsHeld' /\ HandlersFit' /\ RowsAreWorked' /\ RowsFit'
    BY <1>1 DEF IInv, SlotIsHeld, HandlersFit, RowsAreWorked, RowsFit, Live
<1>4. FilesFit'
    <2>1. \A o \in Ops : handler[o].made # NoFile =>
              handler[o].made \in disk \ agedFiles /\ \A p \in Ops : row[p].output # handler[o].made
        BY DEF IInv, FilesFit
    <2>. QED  BY <1>1, <2>1 DEF IInv, FilesFit
<1>. QED  BY <1>2, <1>3, <1>4 DEF IInv

\* An hour passes over rows and files that nobody works on.
LEMMA AgingKeepsIInv ==
    ASSUME IInv, (\E o \in Ops : RowAges(o)) \/ (\E f \in Files : FileAges(f))
    PROVE  IInv'
<1>1. CASE \E o \in Ops : RowAges(o)
    BY <1>1 DEF RowAges, IInv, TypeOK, SlotIsHeld, RowsAreWorked, HandlersFit, RowsFit, FilesFit,
       Live, store, process
<1>2. CASE \E f \in Files : FileAges(f)
    <2>1. PICK f \in Files : FileAges(f)
        BY <1>2
    <2>2. /\ f \in disk /\ agedFiles' = agedFiles \cup {f}
          /\ UNCHANGED <<row, agedRows, condemned, disk, permits, other, handler, process>>
        BY <2>1 DEF FileAges
    <2>3. \A o \in Ops : handler[o].made # f
        BY <2>1, FileAssumption DEF FileAges, Made
    <2>4. TypeOK'
        BY <2>2 DEF IInv, TypeOK, process
    <2>5. SlotIsHeld' /\ HandlersFit' /\ RowsAreWorked' /\ RowsFit'
        BY <2>2 DEF IInv, SlotIsHeld, HandlersFit, RowsAreWorked, RowsFit, Live, process
    <2>6. FilesFit'
        BY <2>2, <2>3 DEF IInv, FilesFit, process
    <2>. QED  BY <2>4, <2>5, <2>6 DEF IInv
<1>. QED  BY <1>1, <1>2

\* The invariant is inductive.
LEMMA NextKeepsIInv == IInv /\ [Next]_vars => IInv'
<1>. SUFFICES ASSUME IInv, [Next]_vars PROVE IInv'
    OBVIOUS
<1>1. CASE \E o \in Ops : Begin(o)
    BY <1>1, BeginKeepsIInv
<1>2. CASE \E o \in Ops : HandlerStep(o)
    BY <1>2, HandlerKeepsIInv
<1>3. CASE \E o \in Ops : Withdraw(o)
    BY <1>3, WithdrawKeepsIInv
<1>4. CASE (\E o \in Ops : RowAges(o)) \/ (\E f \in Files : FileAges(f))
    BY <1>4, AgingKeepsIInv
<1>5. CASE OtherTakesSlot \/ OtherReleasesSlot
    BY <1>5, OtherKeepsIInv
<1>6. CASE Crash
    BY <1>6, CrashKeepsIInv
<1>7. CASE StartProcess
    BY <1>7, StartKeepsIInv
<1>8. CASE ScanRows
    BY <1>8, ScanRowsKeepsIInv
<1>9. CASE ScanFiles
    BY <1>9, ScanFilesKeepsIInv
<1>10. CASE UNCHANGED vars
    BY <1>10 DEF vars, store, process, IInv, TypeOK, SlotIsHeld, RowsAreWorked, HandlersFit,
       RowsFit, FilesFit, Live
<1>. QED
    BY <1>1, <1>2, <1>3, <1>4, <1>5, <1>6, <1>7, <1>8, <1>9, <1>10 DEF Next, Scan

\* The inductive invariant holds in every reachable state.
THEOREM InvariantHolds == Spec => []IInv
<1>1. Init => IInv
    BY InitIInv
<1>2. IInv /\ [Next]_vars => IInv'
    BY NextKeepsIInv
<1>. QED  BY <1>1, <1>2, PTL DEF Spec

\* Type correctness: the semaphore never passes its bound, and the scan's view
\* of old files is one of files that exist.
THEOREM TypeCorrect == Spec => []TypeOK
BY InvariantHolds, PTL DEF IInv

\* One image is decoded at a time, and no release is lost or doubled.
THEOREM SlotHasOneHolder == Spec => []SlotIsHeld
BY InvariantHolds, PTL DEF IInv

\* The startup scan never fails the row of a handler at work.
THEOREM ScanSparesWorkers == Spec => []RowsAreWorked
BY InvariantHolds, PTL DEF IInv

\* A completed operation has its file; only a crash leaves a file behind.
THEOREM OutputsAreKept == Spec => []OutputsMatchRows
<1>1. IInv => OutputsMatchRows
    <2>. SUFFICES ASSUME IInv PROVE OutputsMatchRows
        OBVIOUS
    <2>1. crashes = 0 => disk \subseteq Outputs \cup Made
        <3>. SUFFICES ASSUME crashes = 0, NEW f \in disk PROVE f \in Outputs \cup Made
            OBVIOUS
        <3>1. PICK o \in Ops : row[o].output = f \/ handler[o].made = f
            BY DEF IInv, FilesFit
        <3>2. f # NoFile
            BY FileAssumption DEF IInv, TypeOK
        <3>. QED  BY <3>1, <3>2 DEF Outputs, Made
    <2>. QED  BY <2>1 DEF IInv, FilesFit, OutputsMatchRows
<1>. QED  BY <1>1, InvariantHolds, PTL

-----------------------------------------------------------------------------
(* The refinement of LocalJob.                                             *)

\* A step that changes one row, or none, seen from above.
LEMMA PhaseChanges ==
    ASSUME IInv, NEW o \in Ops, NEW r, row' = [row EXCEPT ![o] = r]
    PROVE  /\ row'[o] = r
           /\ \A p \in Ops \ {o} : row'[p].output = row[p].output
           /\ \A p \in Ops \ {o} : Phase(p)' = Phase(p)
<1>1. row'[o] = r /\ \A p \in Ops \ {o} : row'[p] = row[p]
    BY DEF IInv, TypeOK
<1>2. \A p \in Ops \ {o} : Phase(p)' = Phase(p)
    BY <1>1 DEF Phase
<1>. QED  BY <1>1, <1>2

\* No row is delivered, and no artefact exists, at first.
LEMMA RefinesInit == Init => Abstract!Init
BY DEF Init, Abstract!Init, Phase

\* Every step is a step of LocalJob or leaves every row's phase and output alone.
LEMMA RefinesNext == IInv /\ [Next]_vars => [Abstract!Next]_(Abstract!vars)
<1>. SUFFICES ASSUME IInv, [Next]_vars PROVE [Abstract!Next]_(Abstract!vars)
    OBVIOUS
<1>. DEFINE phase == [o \in Ops |-> Phase(o)]
            artefact == [o \in Ops |-> row[o].output]
<1>1. ASSUME NEW o \in Ops, Begin(o) PROVE Abstract!Work(o)
    <2>. DEFINE r == [state |-> "processing", code |-> "none", output |-> NoFile]
    <2>1. row[o].output = NoFile /\ Phase(o) \in {"new", "paused"}
        BY <1>1 DEF Begin, Retryable, IInv, RowsFit, Phase
    <2>2. row' = [row EXCEPT ![o] = r]
        BY <1>1 DEF Begin
    <2>3. Phase(o)' = "working" /\ r.output = NoFile
        BY <2>2 DEF IInv, TypeOK, Phase
    <2>. HIDE DEF r
    <2>4. /\ row'[o].output = NoFile
          /\ \A p \in Ops \ {o} : row'[p].output = row[p].output
          /\ \A p \in Ops \ {o} : Phase(p)' = Phase(p)
        BY <2>2, <2>3, PhaseChanges
    <2>5. phase' = [phase EXCEPT ![o] = "working"]
        BY <2>3, <2>4
    <2>6. artefact' = artefact
        BY <2>1, <2>4
    <2>. QED  BY <2>1, <2>5, <2>6 DEF Abstract!Work
<1>2. ASSUME NEW o \in Ops, NEW f \in Files, f = handler[o].made, Complete(o)
      PROVE  Abstract!Deliver(o, f)
    <2>. DEFINE r == [state |-> "completed", code |-> "none", output |-> f]
    <2>1. Live(o) /\ handler[o].made # NoFile
        BY <1>2 DEF Complete, Live, IInv, HandlersFit
    <2>2. Phase(o) = "working" /\ \A p \in Ops : row[p].output # f
        BY <1>2, <2>1, OneHandler DEF Phase, IInv, FilesFit
    <2>3. row' = [row EXCEPT ![o] = r]
        BY <1>2 DEF Complete
    <2>4. Phase(o)' = "delivered" /\ r.output = f
        BY <2>3 DEF IInv, TypeOK, Phase
    <2>. HIDE DEF r
    <2>5. /\ row'[o].output = f
          /\ \A p \in Ops \ {o} : row'[p].output = row[p].output
          /\ \A p \in Ops \ {o} : Phase(p)' = Phase(p)
        BY <2>3, <2>4, PhaseChanges
    <2>6. phase' = [phase EXCEPT ![o] = "delivered"]
        BY <2>4, <2>5
    <2>7. artefact' = [artefact EXCEPT ![o] = f]
        BY <2>5
    <2>. QED  BY <2>2, <2>6, <2>7 DEF Abstract!Deliver
<1>3. ASSUME NEW o \in Ops, Settle(o) PROVE Abstract!Pause(o) \/ Abstract!GiveUp({o})
    <2>. DEFINE r == [row[o] EXCEPT !.state = Verdict(handler[o].cause), !.code = handler[o].cause]
    <2>1. row[o].state = "processing" /\ row[o] \in RowType
        BY <1>3, OneHandler DEF Settle, Live, IInv, TypeOK
    <2>2. row' = [row EXCEPT ![o] = r]
        BY <1>3, <2>1 DEF Settle, Settled
    <2>3. r.output = row[o].output /\ r.state \in {"guarded", "failed"}
        BY <2>1 DEF RowType, Verdict
    <2>4. row'[o] = r
        BY <2>2 DEF IInv, TypeOK
    <2>. HIDE DEF r
    <2>5. Phase(o) = "working" /\ Phase(o)' \in {"paused", "over"}
        BY <2>1, <2>3, <2>4 DEF Phase
    <2>6. artefact' = artefact /\ phase' = [phase EXCEPT ![o] = Phase(o)']
        BY <2>2, <2>3, PhaseChanges
    <2>7. CASE Phase(o)' = "paused"
        BY <2>5, <2>6, <2>7 DEF Abstract!Pause
    <2>8. CASE Phase(o)' = "over"
        BY <2>5, <2>6, <2>8 DEF Abstract!GiveUp
    <2>. QED  BY <2>5, <2>7, <2>8
<1>4. ASSUME NEW o \in Ops, Withdraw(o) PROVE Abstract!Withdraw(o)
    <2>. DEFINE r == [row[o] EXCEPT !.state = "unavailable"]
    <2>1. row[o] \in RowType /\ row[o].state = "completed" /\ row' = [row EXCEPT ![o] = r]
        BY <1>4 DEF Withdraw, IInv, TypeOK
    <2>2. r.output = row[o].output /\ r.state = "unavailable" /\ row'[o] = r
        BY <2>1 DEF RowType, IInv, TypeOK
    <2>. HIDE DEF r
    <2>3. Phase(o) = "delivered" /\ Phase(o)' = "withdrawn"
        BY <2>1, <2>2 DEF Phase
    <2>4. artefact' = artefact /\ phase' = [phase EXCEPT ![o] = "withdrawn"]
        BY <2>1, <2>2, <2>3, PhaseChanges
    <2>. QED  BY <2>3, <2>4 DEF Abstract!Withdraw
<1>5. ASSUME ScanRows PROVE Abstract!GiveUp({o \in Ops : Interrupted(o)})
    <2>1. \A o \in Ops :
              /\ row[o] \in RowType
              /\ Interrupted(o) => row'[o] = [row[o] EXCEPT !.state = "failed",
                                                          !.code = "interrupted"]
              /\ ~Interrupted(o) => row'[o] = row[o]
        BY <1>5 DEF ScanRows, IInv, TypeOK
    <2>2. \A o \in Ops : row'[o].output = row[o].output
        BY <2>1 DEF RowType
    <2>3. \A o \in Ops : Interrupted(o) => Phase(o) = "working" /\ Phase(o)' = "over"
        BY <2>1 DEF Interrupted, Phase, RowType
    <2>4. \A o \in Ops : ~Interrupted(o) => Phase(o)' = Phase(o)
        BY <2>1 DEF Phase
    <2>. QED  BY <2>2, <2>3, <2>4 DEF Abstract!GiveUp
<1>6. ASSUME row' = row PROVE UNCHANGED Abstract!vars
    BY <1>6 DEF Abstract!vars, Phase
<1>7. CASE \E o \in Ops : HandlerStep(o)
    <2>1. PICK o \in Ops : HandlerStep(o)
        BY <1>7
    <2>2. CASE Complete(o)
        <3>1. handler[o].made \in Files
            BY <2>2 DEF Complete, IInv, TypeOK, HandlersFit, HandlerType
        <3>2. PICK f \in Files : f = handler[o].made
            BY <3>1
        <3>3. \E j \in Ops, g \in Files : Abstract!Deliver(j, g)
            BY <1>2, <2>1, <2>2, <3>2
        <3>. QED  BY <3>3 DEF Abstract!Next
    <2>3. CASE Settle(o)
        <3>1. Abstract!Pause(o) \/ Abstract!GiveUp({o})
            BY <1>3, <2>3
        <3>2. {o} \in SUBSET Ops
            OBVIOUS
        <3>. QED  BY <3>1, <3>2 DEF Abstract!Next
    <2>4. CASE ~Complete(o) /\ ~Settle(o)
        <3>1. row' = row
            BY <2>1, <2>4 DEF HandlerStep, CopySource, CopyFails, ReadFails, PublishText, VerifyText,
               VerifyFails, RefuseText, CondemnSource, ThreadEnds
        <3>. QED  BY <1>6, <3>1
    <2>. QED  BY <2>2, <2>3, <2>4
<1>8. CASE \E o \in Ops : Begin(o)
    BY <1>1, <1>8 DEF Abstract!Next
<1>9. CASE \E o \in Ops : Withdraw(o)
    BY <1>4, <1>9 DEF Abstract!Next
<1>10. CASE ScanRows
    <2>1. {o \in Ops : Interrupted(o)} \in SUBSET Ops
        OBVIOUS
    <2>. QED  BY <1>5, <1>10, <2>1 DEF Abstract!Next
<1>11. CASE UNCHANGED row
    BY <1>6, <1>11
<1>. QED
    BY <1>7, <1>8, <1>9, <1>10, <1>11
    DEF Next, Scan, RowAges, FileAges, OtherTakesSlot, OtherReleasesSlot, Crash, StartProcess,
        ScanFiles, vars

\* Every behaviour of the executor keeps the promise of LocalJob.
THEOREM Refinement == Spec => ImplementsLocalJob
<1>1. Init => Abstract!Init
    BY RefinesInit
<1>2. IInv /\ [Next]_vars => [Abstract!Next]_(Abstract!vars)
    BY RefinesNext
<1>. QED  BY <1>1, <1>2, InvariantHolds, PTL DEF Spec, ImplementsLocalJob, Abstract!Spec
=============================================================================
