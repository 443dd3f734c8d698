------------------------------ MODULE StateLog ------------------------------
(***************************************************************************)
(* state.go: completed.log as the bytes matter to load().  The file is a   *)
(* sequence of lines, a line the sequence of fields between its tabs.  A   *)
(* write may be cut short, by a full disk (its result is ignored) or by a  *)
(* power loss, and the next record is then glued to the torn line.         *)
(***************************************************************************)
EXTENDS Integers, Sequences, FiniteSets

CONSTANTS
    Keys,      \* the object keys
    Pieces,    \* Pieces[k]: what k becomes when it is split at its tabs
    Time, Size, MD5,   \* the other fields of a record
    Junk,      \* a field that was cut, or glued to the field after it
    Numeric,   \* the fields that ParseInt accepts
    MaxLines,  \* bound: lines of completed.log
    MaxTears   \* bound: writes cut short and power losses

Plain == {k \in Keys : Pieces[k] = <<k>>}     \* the keys without a tab
FirstPieces(S) == {Pieces[k][1] : k \in S}
Fields == {Time, Size, MD5, Junk}
          \cup UNION {{Pieces[k][i] : i \in DOMAIN Pieces[k]} : k \in Keys}

ASSUME PiecesAssumption ==
    /\ \A k \in Keys : /\ Pieces[k] \in Seq(Fields) /\ Len(Pieces[k]) >= 1
                       /\ Pieces[k] = <<k>> \/ Len(Pieces[k]) >= 2
    /\ Size \in Numeric /\ {Time, MD5, Junk} \cap Numeric = {}
    /\ Junk \notin FirstPieces(Keys)
    /\ MaxLines \in Nat /\ MaxTears \in Nat

VARIABLES
    lines,      \* the lines of completed.log
    open,       \* the last line has no newline
    synced,     \* how much of the file a power loss leaves: records with
                \* lines, and fields of the line after them
    cut,        \* the lines (and open) that a Reset has cut and that a power
                \* loss may bring back, because the file was not synced since
    completed,  \* StateManager.completed
    running,    \* a StateManager exists
    marked,     \* the keys marked since the log was created or reset, but
                \* for those an unsynced record of which a power loss took
    ever,       \* the keys ever marked
    flushed,    \* those whose record, if it was written, is on the disk
    tears       \* counts what MaxTears bounds

file == <<lines, open>>
vars == <<file, synced, cut, completed, running, marked, ever, flushed, tears>>

Nothing == [lines |-> 0, fields |-> 0]
NoCut == <<<<>>, FALSE>>

(* All of the file is on the disk.                                         *)
Whole(ls, o) ==
    IF o THEN [lines |-> Len(ls) - 1, fields |-> Len(ls[Len(ls)])]
         ELSE [lines |-> Len(ls), fields |-> 0]

TypeOK ==
    /\ lines \in Seq(Seq(Fields))
    /\ open \in BOOLEAN
    /\ synced \in [lines : Nat, fields : Nat] /\ synced.lines <= Len(lines)
    /\ cut \in Seq(Seq(Fields)) \X BOOLEAN
    /\ completed \subseteq Keys \cup Fields
    /\ running \in BOOLEAN
    /\ marked \subseteq ever /\ ever \subseteq Keys
    /\ flushed \subseteq marked
    /\ tears \in 0 .. MaxTears

Init ==
    /\ lines = <<>> /\ open = FALSE
    /\ synced = Nothing /\ cut = NoCut
    /\ completed = {} /\ running = FALSE
    /\ marked = {} /\ ever = {} /\ flushed = {}
    /\ tears = 0

-----------------------------------------------------------------------------
(* Reading.                                                                *)

(* Mutant: a line of two fields is enough.                                 *)
IsRecordShort(L) == Len(L) >= 2 /\ (Len(L) >= 3 => L[3] \in Numeric)

(* load() takes a line for a record; all others it skips.                  *)
IsRecord(L) == Len(L) >= 3 /\ L[3] \in Numeric

Loaded(ls) == {ls[i][2] : i \in {j \in DOMAIN ls : IsRecord(ls[j])}}

NewStateManager ==
    /\ ~running
    /\ completed' = Loaded(lines)
    /\ running' = TRUE
    /\ UNCHANGED <<file, synced, cut, marked, ever, flushed, tears>>

-----------------------------------------------------------------------------
(* Writing.                                                                *)
Record(k) == <<Time>> \o Pieces[k] \o <<Size, MD5>>

(* What is left of L when the write ends in its n-th field.                *)
TornAt(L, n) == {SubSeq(L, 1, n), [SubSeq(L, 1, n) EXCEPT ![n] = Junk]}
Torn(L) == UNION {TornAt(L, n) : n \in DOMAIN L}

(* O_APPEND: the bytes go behind the last one, which may not be a newline. *)
Glue(L, M) == [L EXCEPT ![Len(L)] = Junk] \o Tail(M)
Appended(L) ==
    IF open THEN [lines EXCEPT ![Len(lines)] = Glue(@, L)] ELSE Append(lines, L)

Mark(k) ==
    /\ completed' = completed \cup {k}
    /\ marked' = marked \cup {k}
    /\ ever' = ever \cup {k}

(* Mutant: the record is kept in a buffer that Flush writes.               *)
MarkCompletedBuffered(k) ==
    /\ running /\ k \notin completed /\ Len(lines) < MaxLines
    /\ Mark(k)
    /\ UNCHANGED <<file, synced, cut, running, flushed, tears>>

(* MarkCompleted, called for keys that are not recorded, and the body of   *)
(* the loop of MarkMatchingAsCompleted, which differs in the last field.   *)
(* The map is updated whatever becomes of the write.                       *)
MarkCompleted(k) ==
    /\ running /\ k \notin completed /\ Len(lines) < MaxLines
    /\ Mark(k)
    /\ \/ /\ lines' = Appended(Record(k)) /\ open' = FALSE
          /\ UNCHANGED tears
       \/ /\ tears < MaxTears /\ tears' = tears + 1
          /\ \/ \E t \in Torn(Record(k)) : lines' = Appended(t) /\ open' = TRUE
             \/ UNCHANGED file
    /\ UNCHANGED <<synced, cut, running, flushed>>

(* What a Sync leaves on the disk.                                         *)
Sync ==
    /\ synced' = Whole(lines, open)
    /\ cut' = NoCut
    /\ flushed' = marked

(* Reset: the truncation is not synced.  When it fails, or the Seek after  *)
(* it, the run ends, and closes the log.                                   *)
Reset ==
    /\ running
    /\ completed' = {}
    /\ \/ /\ lines' = <<>> /\ open' = FALSE
          /\ synced' = Nothing
          /\ marked' = {} /\ flushed' = {}
          /\ \/ cut' = (IF cut = NoCut THEN file ELSE cut) /\ running' \in BOOLEAN
             \/ cut' = NoCut /\ running' = FALSE
       \/ /\ running' = FALSE
          /\ Sync \/ UNCHANGED <<synced, cut, flushed>>
          /\ UNCHANGED <<file, marked>>
    /\ UNCHANGED <<ever, tears>>

(* Mutant: the file is not synced.                                         *)
FlushOnly ==
    /\ running
    /\ flushed' = marked
    /\ UNCHANGED <<file, synced, cut, completed, running, marked, ever, tears>>

(* Flush, and Close at the end of a run; that the file could not be synced *)
(* is only logged.                                                         *)
Flush ==
    /\ running
    /\ Sync
    /\ UNCHANGED <<file, completed, running, marked, ever, tears>>

Close ==
    /\ running
    /\ running' = FALSE /\ completed' = {}
    /\ Sync \/ UNCHANGED <<synced, cut, flushed>>
    /\ UNCHANGED <<file, marked, ever, tears>>

-----------------------------------------------------------------------------
(* The process is killed: what was written stays in the file.              *)
Kill ==
    /\ running
    /\ running' = FALSE /\ completed' = {}
    /\ UNCHANGED <<file, synced, cut, marked, ever, flushed, tears>>

(* The machine loses power: of what was not synced a first part is left,   *)
(* and a truncation may be undone.                                         *)
PowerLoss ==
    /\ tears < MaxTears /\ tears' = tears + 1
    /\ running' = FALSE /\ completed' = {}
    /\ \/ UNCHANGED file
       \/ cut # NoCut /\ lines' = cut[1] /\ open' = cut[2]
       \/ \E n \in synced.lines .. Len(lines) - 1 :
             LET kept == SubSeq(lines, 1, n)
                 safe == IF n = synced.lines THEN synced.fields ELSE 0
             IN  \/ safe = 0 /\ lines' = kept /\ open' = FALSE
                 \/ \E m \in safe + 1 .. Len(lines[n + 1]) : \E t \in TornAt(lines[n + 1], m) :
                       lines' = Append(kept, t) /\ open' = TRUE
                 \/ /\ safe > 0
                    /\ lines' = Append(kept, SubSeq(lines[n + 1], 1, safe)) /\ open' = TRUE
    /\ synced' = Whole(lines', open') /\ cut' = NoCut
    /\ marked' = flushed \cup (marked \cap Loaded(lines'))
    /\ flushed' = marked'
    /\ UNCHANGED ever

Next ==
    \/ NewStateManager \/ Reset \/ Flush \/ Close \/ Kill \/ PowerLoss
    \/ \E k \in Keys : MarkCompleted(k)

Spec == Init /\ [][Next]_vars

-----------------------------------------------------------------------------
(* What a restart takes for completed was completed once, however often a  *)
(* write was cut short (state.go:198-209): an object that was never        *)
(* transferred is not skipped.  A key that holds a tab comes back as its   *)
(* first piece, and a key that is a number may make a record of the torn   *)
(* line in front of it, under a key of no object.                          *)
LoadedWasMarked ==
    /\ Loaded(lines) \ {Junk} \subseteq FirstPieces(ever)
    /\ Junk \in Loaded(lines) => tears > 0 /\ \E k \in ever : Pieces[k][1] \in Numeric

(* The log needs no shutdown: a process that is killed loses no record and *)
(* brings none back that was reset, because a record is written when it is *)
(* made, unbuffered (state.go:54-64), and a reset truncates the file.      *)
KillLosesNothing ==
    tears = 0 =>
        /\ marked \cap Plain \subseteq Loaded(lines)
        /\ Loaded(lines) \subseteq FirstPieces(marked)

(* What was synced before a tear is lost only next to it: the record that  *)
(* was cut and the one that is glued to it (state.go:166, 200-203).        *)
TearsStayLocal ==
    Cardinality((flushed \cap Plain) \ Loaded(lines)) <= 2 * tears
=============================================================================
