------------------------------ MODULE ImageOcr ------------------------------
(***************************************************************************)
(* Local OCR of private images: one request handler at a time, which works *)
(* in threads between its transactions, a decoder slot shared with other   *)
(* image features, files published before the row that refers to them, and *)
(* the scan that every process runs once, after it has begun to serve.     *)
(*                                                                         *)
(* An operation is known by the server's key: the source image's revision  *)
(* and the language.  A repeated request finds the operation's row.        *)
(***************************************************************************)
EXTENDS Integers, FiniteSets

CONSTANTS
    Ops,       \* operations: server_idempotency_key
    Assets,    \* source images in the Asset Vault
    SourceOf,  \* SourceOf[o]: the image o reads
    Files,     \* names of output files
    NoFile,    \* storage_key IS NULL
    Quota,     \* outputs an account may store (every output has the same size)
    MaxCrashes \* bound: how often the process dies

ASSUME SourceAssumption == SourceOf \in [Ops -> Assets]
ASSUME FileAssumption == NoFile \notin Files
ASSUME BoundAssumption == Quota \in Nat /\ MaxCrashes \in Nat

VARIABLES
    row,       \* web_document_operations: state, failure_code, storage_key
    agedRows,  \* operations whose updated_at is older than ORPHAN_RETENTION_SECONDS
    condemned, \* sources whose state is unavailable
    disk,      \* the files under outputs/
    agedFiles, \* those whose mtime is older than ORPHAN_RETENTION_SECONDS
    permits,   \* the value of the BoundedSemaphore image_decoder_capacity()
    other,     \* another image feature holds the slot
    handler,   \* the request handler of each operation
    scan,      \* the process: down, or how far its startup scan has come
    orphans,   \* the files the scan goes to unlink
    crashes    \* how often the process has died

store == <<condemned, disk, agedFiles>>
process == <<scan, orphans, crashes>>
vars == <<row, agedRows, store, permits, other, handler, process>>

States == {"absent", "processing", "guarded", "failed", "completed", "unavailable"}
Failures == {"runtime", "no_text", "source", "error", "interrupted"}
RowType == [state: States, code: Failures \cup {"none"}, output: Files \cup {NoFile}]

\* Where a handler stands.  cause is the error it reports, made its final_path.
Stages == {"idle", "copying", "reading", "verifying", "read", "condemn", "settle"}
HandlerType == [at: Stages, cause: Failures \cup {"none"}, made: Files \cup {NoFile}]
Idle == [at |-> "idle", cause |-> "none", made |-> NoFile]

\* Types: what is old on disk is on disk, and the semaphore holds 0 or 1.
TypeOK ==
    /\ row \in [Ops -> RowType]
    /\ agedRows \subseteq Ops
    /\ condemned \subseteq Assets
    /\ disk \subseteq Files /\ agedFiles \subseteq disk
    /\ permits \in 0..1 /\ other \in BOOLEAN
    /\ handler \in [Ops -> HandlerType]
    /\ scan \in {"down", "due", "files", "done"}
    /\ orphans \subseteq Files
    /\ crashes \in 0..MaxCrashes

Init ==
    /\ row = [o \in Ops |-> [state |-> "absent", code |-> "none", output |-> NoFile]]
    /\ agedRows = {} /\ condemned = {}
    /\ disk = {} /\ agedFiles = {}
    /\ permits = 1 /\ other = FALSE
    /\ handler = [o \in Ops |-> Idle]
    /\ scan = "due" /\ orphans = {}
    /\ crashes = 0

Up == scan # "down"
Live(o) == handler[o].at # "idle"
Outputs == {row[o].output : o \in Ops} \ {NoFile}
Made == {handler[o].made : o \in Ops} \ {NoFile}

-----------------------------------------------------------------------------
(* POST /ocr-image.                                                        *)

\* A guarded row answers for its request, except that a missing runtime may
\* have been installed since.
RetryableAnyCode(o) == row[o].state = "guarded"
Retryable(o) == row[o].state = "guarded" /\ row[o].code = "runtime"

\* The first transaction: the source is active, the slot is free, and the row
\* is new or resumed.  Everything else is a replay or a refusal.
BeginUnreserved(o) ==
    /\ Up
    /\ SourceOf[o] \notin condemned
    /\ row[o].state = "absent" \/ Retryable(o)
    /\ row' = [row EXCEPT ![o] = [state |-> "processing", code |-> "none", output |-> NoFile]]
    /\ agedRows' = agedRows \ {o}
    /\ handler' = [handler EXCEPT ![o].at = "copying"]
    /\ UNCHANGED <<store, permits, other, process>>
Begin(o) ==
    /\ Up
    /\ SourceOf[o] \notin condemned
    /\ row[o].state = "absent" \/ Retryable(o)
    /\ permits > 0
    /\ permits' = permits - 1
    /\ row' = [row EXCEPT ![o] = [state |-> "processing", code |-> "none", output |-> NoFile]]
    /\ agedRows' = agedRows \ {o}
    /\ handler' = [handler EXCEPT ![o].at = "copying"]
    /\ UNCHANGED <<store, other, process>>

\* A thread ends, and its handler goes on at another stage.
ThreadEnds(o, from, to, cause) ==
    /\ handler[o].at = from
    /\ handler' = [handler EXCEPT ![o].at = to, ![o].cause = cause]
    /\ UNCHANGED <<row, agedRows, condemned, permits, other, process>>

\* The stage at which a handler deals with an error.
ErrorStage(cause) == IF cause = "source" THEN "condemn" ELSE "settle"

CopySource(o) ==
    /\ ThreadEnds(o, "copying", "reading", "none")
    /\ UNCHANGED <<disk, agedFiles>>

\* No image at the source's path that can be read and matches, or no room.
CopyFails(o) ==
    /\ \E cause \in {"source", "error"} : ThreadEnds(o, "copying", ErrorStage(cause), cause)
    /\ UNCHANGED <<disk, agedFiles>>

\* The decoder or Tesseract fails, or there is no text in the image.
ReadFails(o) ==
    /\ \E cause \in {"runtime", "no_text", "error"} :
           ThreadEnds(o, "reading", ErrorStage(cause), cause)
    /\ UNCHANGED <<disk, agedFiles>>

\* os.replace to a new name under outputs/, before any row refers to it.
PublishText(o) ==
    \E f \in Files \ (disk \cup Outputs) :
        /\ handler[o].at = "reading"
        /\ handler' = [handler EXCEPT ![o].at = "verifying", ![o].made = f]
        /\ disk' = disk \cup {f}
        /\ UNCHANGED <<row, agedRows, condemned, agedFiles, permits, other, process>>

VerifyText(o) ==
    /\ ThreadEnds(o, "verifying", "read", "none")
    /\ UNCHANGED <<disk, agedFiles>>

\* The published file does not read back: the thread unlinks it.
VerifyFails(o) ==
    /\ handler[o].at = "verifying"
    /\ handler' = [handler EXCEPT ![o] = [at |-> "settle", cause |-> "error", made |-> NoFile]]
    /\ disk' = disk \ {handler[o].made}
    /\ UNCHANGED <<row, agedRows, condemned, agedFiles, permits, other, process>>

\* The slot is released last, in the handler's finally clause.
Leaves(o) ==
    /\ handler' = [handler EXCEPT ![o] = Idle]
    /\ permits' = permits + 1
    /\ UNCHANGED <<other, process>>

\* _quota_available: every stored output counts, an unavailable one too.
QuotaAvailable == Cardinality(Outputs) < Quota

CanComplete(o) == row[o].state = "processing" /\ QuotaAvailable

Complete(o) ==
    /\ handler[o].at = "read"
    /\ CanComplete(o)
    /\ row' = [row EXCEPT ![o] = [state |-> "completed", code |-> "none",
                                  output |-> handler[o].made]]
    /\ Leaves(o)
    /\ UNCHANGED <<agedRows, store>>

\* The last transaction rolls back, and the published file is unlinked.
RefuseTextRetrying(o) ==
    /\ handler[o].at = "read"
    /\ ~CanComplete(o)
    /\ handler' = [handler EXCEPT ![o].at = "reading", ![o].made = NoFile]
    /\ disk' = disk \ {handler[o].made}
    /\ UNCHANGED <<row, agedRows, condemned, agedFiles, permits, other, process>>
RefuseText(o) ==
    /\ handler[o].at = "read"
    /\ ~CanComplete(o)
    /\ handler' = [handler EXCEPT ![o] = [at |-> "settle", cause |-> "error", made |-> NoFile]]
    /\ disk' = disk \ {handler[o].made}
    /\ UNCHANGED <<row, agedRows, condemned, agedFiles, permits, other, process>>

\* _mark_source_unavailable: a source its owner archived meanwhile stays so.
CondemnSource(o) ==
    /\ handler[o].at = "condemn"
    /\ condemned' \in {condemned, condemned \cup {SourceOf[o]}}
    /\ handler' = [handler EXCEPT ![o].at = "settle"]
    /\ UNCHANGED <<row, agedRows, disk, agedFiles, permits, other, process>>

\* _mark_guarded and _mark_failed leave these alone.
Settled == {"completed", "unavailable", "guarded"}

Verdict(cause) == IF cause \in {"runtime", "no_text"} THEN "guarded" ELSE "failed"

Settle(o) ==
    /\ handler[o].at = "settle"
    /\ row' = IF row[o].state \in Settled THEN row
              ELSE [row EXCEPT ![o].state = Verdict(handler[o].cause),
                               ![o].code = handler[o].cause]
    /\ Leaves(o)
    /\ UNCHANGED <<agedRows, store>>

-----------------------------------------------------------------------------
(* Downloads and other image features.                                     *)

\* A download or export finds the file of a completed operation missing, altered
\* or unreadable.
Withdraw(o) ==
    /\ Up
    /\ row[o].state = "completed"
    /\ row' = [row EXCEPT ![o].state = "unavailable"]
    /\ UNCHANGED <<agedRows, store, permits, other, handler, process>>

OtherTakesSlot ==
    /\ Up /\ permits > 0
    /\ permits' = permits - 1 /\ other' = TRUE
    /\ UNCHANGED <<row, agedRows, store, handler, process>>

OtherReleasesSlot ==
    /\ other
    /\ permits' = permits + 1 /\ other' = FALSE
    /\ UNCHANGED <<row, agedRows, store, handler, process>>

-----------------------------------------------------------------------------
(* The process and its startup scan.                                       *)

\* Handlers, the semaphore and the scan die with the process.
Crash ==
    /\ Up
    /\ crashes < MaxCrashes
    /\ crashes' = crashes + 1
    /\ handler' = [o \in Ops |-> Idle]
    /\ permits' = 1 /\ other' = FALSE
    /\ scan' = "down" /\ orphans' = {}
    /\ UNCHANGED <<row, agedRows, store>>

\* It serves at once; the scan is only scheduled.
StartProcess ==
    /\ scan = "down"
    /\ scan' = "due"
    /\ UNCHANGED <<row, agedRows, store, permits, other, handler, orphans, crashes>>

\* A row that nobody has written to for the retention window.
InterruptedAnyAge(o) == row[o].state = "processing"
InterruptedYoung(o) == row[o].state = "processing" /\ o \notin agedRows
Interrupted(o) == row[o].state = "processing" /\ o \in agedRows

\* Files older than the retention window that no row refers to.
UnreferencedAnyAge == disk \ Outputs
Unreferenced == agedFiles \ Outputs

\* The scan's transaction, which reads the rows and fails the interrupted ones;
\* the age limit of files is fixed with it.
ScanRows ==
    /\ scan = "due"
    /\ scan' = "files"
    /\ orphans' = Unreferenced
    /\ row' = [o \in Ops |-> IF Interrupted(o)
                             THEN [row[o] EXCEPT !.state = "failed", !.code = "interrupted"]
                             ELSE row[o]]
    /\ agedRows' = {o \in agedRows : ~Interrupted(o)}
    /\ UNCHANGED <<store, permits, other, handler, crashes>>

\* Then it walks the directory.
ScanFiles ==
    /\ scan = "files"
    /\ scan' = "done"
    /\ disk' = disk \ orphans
    /\ agedFiles' = agedFiles \ orphans
    /\ UNCHANGED <<row, agedRows, condemned, permits, other, handler, orphans, crashes>>

\* The retention window of one hour passes over a row or a file.  A handler is
\* over long before: 30 s of Tesseract and files of at most 20 MB.
RowAges(o) ==
    /\ row[o].state = "processing" /\ ~Live(o) /\ o \notin agedRows
    /\ agedRows' = agedRows \cup {o}
    /\ UNCHANGED <<row, store, permits, other, handler, process>>

FileAges(f) ==
    /\ f \in disk \ (agedFiles \cup Made)
    /\ agedFiles' = agedFiles \cup {f}
    /\ UNCHANGED <<row, agedRows, condemned, disk, permits, other, handler, process>>

-----------------------------------------------------------------------------

HandlerStep(o) ==
    \/ CopySource(o) \/ CopyFails(o)
    \/ ReadFails(o) \/ PublishText(o)
    \/ VerifyText(o) \/ VerifyFails(o)
    \/ Complete(o) \/ RefuseText(o)
    \/ CondemnSource(o) \/ Settle(o)

Scan == ScanRows \/ ScanFiles

Next ==
    \/ \E o \in Ops : Begin(o) \/ HandlerStep(o) \/ Withdraw(o) \/ RowAges(o)
    \/ \E f \in Files : FileAges(f)
    \/ OtherTakesSlot \/ OtherReleasesSlot
    \/ Crash \/ StartProcess \/ Scan

Spec == Init /\ [][Next]_vars

\* Every thread has a timeout, every handler is resumed, the platform restarts
\* the process, the scan runs in its own thread, and time passes.
Fairness ==
    /\ \A o \in Ops : WF_vars(HandlerStep(o)) /\ WF_vars(RowAges(o))
    /\ WF_vars(OtherReleasesSlot)
    /\ WF_vars(StartProcess) /\ WF_vars(Scan)

FairSpec == Spec /\ Fairness

-----------------------------------------------------------------------------
(* Safety.                                                                 *)

\* The slot has one holder: this feature decodes one image at a time, never
\* beside another one, and a free slot is a slot nobody works under.
SlotIsHeld ==
    /\ \A o, p \in Ops : Live(o) /\ Live(p) => o = p
    /\ \A o \in Ops : Live(o) => ~other
    /\ permits = 1 <=> ~other /\ \A o \in Ops : ~Live(o)

\* A live handler's row stays processing until the handler settles it, whatever
\* the scan does; and as long as the process has not died, a row that says
\* processing has a handler.
RowsAreWorked ==
    \A o \in Ops :
        /\ Live(o) => row[o].state = "processing" /\ o \notin agedRows
        /\ crashes = 0 => (row[o].state = "processing" => Live(o))

\* A completed operation has its file, which neither the scan nor another
\* operation's error takes away; and as long as the process has not died, every
\* file belongs to a row or to the handler that is about to record it.
OutputsMatchRows ==
    /\ \A o \in Ops : row[o].state = "completed" => row[o].output \in disk
    /\ crashes = 0 => disk \subseteq Outputs \cup Made

\* The refinement: guarded for a missing runtime is a pause, guarded for an
\* image without text is the end.
Phase(o) ==
    CASE row[o].state = "absent"      -> "new"
      [] row[o].state = "processing"  -> "working"
      [] row[o].state = "completed"   -> "delivered"
      [] row[o].state = "unavailable" -> "withdrawn"
      [] OTHER -> IF row[o].code = "runtime" THEN "paused" ELSE "over"

Abstract == INSTANCE LocalJob
    WITH Jobs <- Ops, Artefacts <- Files, None <- NoFile,
         phase <- [o \in Ops |-> Phase(o)],
         artefact <- [o \in Ops |-> row[o].output]

\* The abstract promise: one artefact per operation, once, and no result twice.
ImplementsLocalJob == Abstract!Spec

-----------------------------------------------------------------------------
(* Liveness.                                                               *)

\* No outcome, error or crash loses the decoder slot: it always comes free.
SlotComesFree == permits = 0 ~> permits = 1

\* A row that was old when a process started does not outlive that process's
\* scan: it is failed, unless the process dies first.
OldInterruptedSettles ==
    \A o \in Ops :
        scan = "due" /\ row[o].state = "processing" /\ o \in agedRows
            ~> row[o].state # "processing" \/ scan = "down"

-----------------------------------------------------------------------------
(* What a comment of the code says, and the code does not do.              *)

\* "An interrupted synchronous parser must never remain replayable as
\* `queued`/`processing` forever."  But a process started within the hour skips
\* the young row, and nothing scans again while that process lives.
InterruptedSettles ==
    \A o \in Ops : row[o].state = "processing" ~> row[o].state # "processing"
=============================================================================
