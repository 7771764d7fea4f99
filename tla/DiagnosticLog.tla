---------------------------- MODULE DiagnosticLog ----------------------------
(***************************************************************************)
(* The persistent log (electron/diagnostic-log-store.ts): records are      *)
(* appended one after another to a file that is rotated through a fixed    *)
(* number of generations.  Each step of that is a file operation which may *)
(* fail, or be the last one before the app ends; the first failure turns   *)
(* the store off until the app is started again.                           *)
(*                                                                         *)
(* A record is its number and counts as one unit of a file's size.         *)
(***************************************************************************)
EXTENDS Integers, SequencesExt

CONSTANTS
    FileSize,    \* maxFileBytes, in records
    MaxFiles,    \* generations, the active file being number 0
    MaxRecords,  \* bound on the records
    MaxEnds      \* bound on crashes and exits of the app

ASSUME LogAssumption ==
    /\ FileSize \in Nat \ {0} /\ MaxFiles \in Nat \ {0}
    /\ MaxRecords \in Nat /\ MaxEnds \in Nat

VARIABLES
    files,       \* the records of each generation; none: no such file
    logQueue,    \* records whose operation has not ended; the head's runs
    logStage,    \* its next file operation
    moving,      \* the generation that the rotation moves next
    disabled,
    recorded,    \* records that were handed to the store
    ends,
    written,     \* history: the records that were appended, in order
    refused      \* history: records the store did not take, being turned off

logVars == <<files, logQueue, logStage, moving, disabled, recorded, ends, written, refused>>

Generations == 0..MaxFiles - 1

LogTypeOK ==
    /\ files \in [Generations -> Seq(1..MaxRecords)]
    /\ logQueue \in Seq(1..MaxRecords)
    /\ logStage \in {"stat", "unlink", "rename", "append"}
    /\ moving \in Generations /\ disabled \in BOOLEAN
    /\ recorded \in 0..MaxRecords /\ ends \in 0..MaxEnds
    /\ written \in Seq(1..MaxRecords) /\ refused \subseteq 1..MaxRecords

LogInit ==
    /\ files = [g \in Generations |-> <<>>]
    /\ logQueue = <<>> /\ logStage = "stat" /\ moving = 0 /\ disabled = FALSE
    /\ recorded = 0 /\ ends = 0 /\ written = <<>> /\ refused = {}

Oldest == MaxFiles - 1

(***************************************************************************)
(* Recording.                                                              *)
(***************************************************************************)
Record ==
    /\ recorded < MaxRecords /\ recorded' = recorded + 1
    /\ \/ disabled /\ refused' = refused \cup {recorded'} /\ UNCHANGED logQueue
       \/ ~disabled /\ logQueue' = Append(logQueue, recorded') /\ UNCHANGED refused
    /\ UNCHANGED <<files, logStage, moving, disabled, ends, written>>

\* appendRecord begins: is there room in the active file?
Stat ==
    /\ logQueue # <<>> /\ logStage = "stat"
    /\ logStage' = IF files[0] # <<>> /\ Len(files[0]) + 1 > FileSize
                   THEN "unlink" ELSE "append"
    /\ UNCHANGED <<files, logQueue, moving, disabled, recorded, ends, written, refused>>

\* The oldest generation goes; with a single one, that is the active file.
Unlink ==
    /\ logQueue # <<>> /\ logStage = "unlink"
    /\ files' = [files EXCEPT ![Oldest] = <<>>]
    /\ IF MaxFiles = 1 THEN logStage' = "append" /\ UNCHANGED moving
                       ELSE logStage' = "rename" /\ moving' = Oldest - 1
    /\ UNCHANGED <<logQueue, disabled, recorded, ends, written, refused>>

Rename(from) ==
    files' = IF files[from] = <<>> THEN files
             ELSE [files EXCEPT ![from + 1] = files[from], ![from] = <<>>]

\* Mutant: the active file is moved first and overwrites the next.
MoveYoungestFirst ==
    /\ logQueue # <<>> /\ logStage = "rename"
    /\ Rename(Oldest - 1 - moving)
    /\ IF moving = 0 THEN logStage' = "append" /\ UNCHANGED moving
                     ELSE moving' = moving - 1 /\ UNCHANGED logStage
    /\ UNCHANGED <<logQueue, disabled, recorded, ends, written, refused>>

\* The generations move up from the oldest to the active file.
MoveGeneration ==
    /\ logQueue # <<>> /\ logStage = "rename"
    /\ Rename(moving)
    /\ IF moving = 0 THEN logStage' = "append" /\ UNCHANGED moving
                     ELSE moving' = moving - 1 /\ UNCHANGED logStage
    /\ UNCHANGED <<logQueue, disabled, recorded, ends, written, refused>>

\* All or nothing: a record of which the end of the app or a full disk leaves a
\* part in the file is not modelled.
AppendRecord ==
    /\ logQueue # <<>> /\ logStage = "append"
    /\ files' = [files EXCEPT ![0] = Append(@, Head(logQueue))]
    /\ written' = Append(written, Head(logQueue))
    /\ logQueue' = Tail(logQueue) /\ logStage' = "stat"
    /\ UNCHANGED <<moving, disabled, recorded, ends, refused>>

\* disable; what is queued finds the store turned off, and so do the records
\* of the failure itself (reportPersistentLogFailure).
OperationFailed ==
    /\ logQueue # <<>>
    /\ disabled' = TRUE
    /\ refused' = refused \cup {logQueue[i] : i \in DOMAIN logQueue}
    /\ logQueue' = <<>> /\ logStage' = "stat" /\ moving' = 0
    /\ UNCHANGED <<files, recorded, ends, written>>

\* The app ends, with what is still queued: shutdown waits for the queue but
\* not for ever.  It is started again with a new store.
AppEnds ==
    /\ ends < MaxEnds /\ ends' = ends + 1
    /\ refused' = refused \cup {logQueue[i] : i \in DOMAIN logQueue}
    /\ logQueue' = <<>> /\ logStage' = "stat" /\ moving' = 0 /\ disabled' = FALSE
    /\ UNCHANGED <<files, recorded, written>>

LogNext ==
    \/ Record \/ Stat \/ Unlink \/ MoveGeneration \/ AppendRecord
    \/ OperationFailed \/ AppEnds

LogSpec == LogInit /\ [][LogNext]_logVars

(***************************************************************************)
(* Properties.                                                             *)
(***************************************************************************)
InFiles == UNION {ToSet(files[g]) : g \in Generations}

IsIncreasing(seq) == \A i, j \in DOMAIN seq : i < j => seq[i] < seq[j]

\* What the files hold, oldest generation first, is the end of what was written
\* in the order it was recorded: no rotation, failed or cut short at any of its
\* steps, overwrites or reorders a record, and no generation exceeds its size.
\* A rotation costs the oldest generation, and one more only if the app ended
\* during an earlier one.  A record that was not written was refused by a store
\* that is turned off or was lost with the app's end
\* (diagnostic-log-store.ts:71-84, 122-156).
LogIsOrdered ==
    /\ \A g \in Generations : Len(files[g]) <= FileSize /\ IsIncreasing(files[g])
    /\ \A g, h \in Generations : g > h =>
          \A older \in ToSet(files[g]), newer \in ToSet(files[h]) : older < newer
    /\ InFiles \subseteq ToSet(written) /\ IsIncreasing(written)
    /\ \A r \in InFiles, w \in ToSet(written) : r < w => w \in InFiles
    /\ \A i \in DOMAIN written :
          i + (MaxFiles - 1 - ends) * FileSize > Len(written) => written[i] \in InFiles
    /\ 1..recorded = ToSet(written) \cup ToSet(logQueue) \cup refused

(***************************************************************************)
(* The inductive invariant of the proofs.                                  *)
(***************************************************************************)
\* So many generations may be empty below this one: one for each rotation that was cut
\* short, and one for a rotation that has come below it or that failed.
MayBeEmpty(g) ==
    IF ((logStage = "rename" /\ g > moving) \/ disabled) /\ Len(files[0]) = FileSize
    THEN ends + 1 ELSE ends

\* With so many empty generations between the active file and the one of this number,
\* this many records were written when the next of them was moved on.
Upto(holes, g) == Len(written) - Len(files[0]) - (g - 1 - holes[g]) * FileSize

\* A generation that is not empty is full and holds the records that were written
\* before those of the next younger one that is not empty.
GenerationInPlace(holes, g) ==
    IF files[g] = <<>> THEN holes[g + 1] = holes[g] + 1
    ELSE /\ holes[g + 1] = holes[g] /\ holes[g] <= MayBeEmpty(g)
         /\ Len(files[g]) = FileSize
         /\ \A i \in 1..FileSize : files[g][i] = written[Upto(holes, g) - FileSize + i]

InPlace(holes) ==
    /\ holes[1] = 0
    /\ \A g \in 1..Oldest : GenerationInPlace(holes, g)
    /\ \A g, h \in 1..MaxFiles : g <= h => holes[h] - holes[g] \in 0..h - g
    /\ Upto(holes, MaxFiles) >= 0
    /\ Upto(holes, MaxFiles) > 0 => holes[MaxFiles] <= MayBeEmpty(MaxFiles)

ActiveInPlace ==
    /\ Len(files[0]) <= Len(written) /\ Len(files[0]) <= FileSize
    /\ \A i \in DOMAIN files[0] : files[0][i] = written[Len(written) - Len(files[0]) + i]

RotationStage ==
    /\ logStage = "append" => Len(files[0]) < FileSize
    /\ logStage \in {"unlink", "rename"} => Len(files[0]) = FileSize
    /\ logStage = "rename" => moving < Oldest /\ files[moving + 1] = <<>>
    /\ logStage # "stat" => logQueue # <<>>
    /\ disabled => logQueue = <<>>

RecordsInTurn ==
    /\ IsIncreasing(written) /\ IsIncreasing(logQueue)
    /\ \A i \in DOMAIN written, j \in DOMAIN logQueue : written[i] < logQueue[j]
    /\ ToSet(logQueue) \cup ToSet(written) \subseteq 1..recorded
    /\ 1..recorded = ToSet(written) \cup ToSet(logQueue) \cup refused

LogInv ==
    /\ LogTypeOK /\ ActiveInPlace /\ RotationStage /\ RecordsInTurn
    /\ \E holes \in [1..MaxFiles -> 0..MaxFiles] : InPlace(holes)
=============================================================================
