---------------------------- MODULE FeedbackStore ----------------------------
\* The feedback file of the Zenz correction (session/zenz_feedback_store.cc). The
\* server appends a line per decision of the user and reads the whole file at each
\* question; the config dialog, another process, reads it, writes it anew and
\* renames it into place. Nothing locks the file, and a write may stop half way.
EXTENDS Naturals, Sequences, SequencesExt, FiniteSets, Selection

CONSTANTS
    Value,          \* the values for one key
    ContextClass,   \* the context classes that occur
    Reason,         \* what the user did: "accepted" or the reason of a reject
    Tsv,            \* the files the user may have to import, as their records
    MaxRecords,     \* bound: how many records are made
    MaxLines,       \* bound: how many records an import may leave
    MaxEdits,       \* bound: how often the dialog is used
    MaxTears        \* bound: how many writes stop half way
ASSUME FeedbackAssumption ==
    /\ MaxRecords \in Nat /\ MaxLines \in Nat /\ MaxEdits \in Nat
    /\ MaxTears \in Nat
    /\ "garbled" \notin Value
    /\ \A tsv \in Tsv :
         /\ tsv \in Seq([id : Nat, value : Value, class : ContextClass, reason : Reason])
         /\ \A r \in Range(tsv) : r.id > MaxRecords
         /\ \A q, r \in Range(tsv) : q.id = r.id => q = r

VARIABLES
    file,       \* the lines of the file; no line, no file
    unended,    \* the last line has no newline
    writer,     \* the record the server has opened the file for, if any
    stale,      \* the file it has opened is not the file any more
    dialog,     \* what the dialog is about to write
    exported,   \* the records of the TSV file the dialog exports to and imports from
    made,       \* how many records were made
    edits,      \* how often the dialog was used
    kept,       \* ghost: the records the user should have
    removed,    \* ghost: the records the user removed
    raced,      \* ghost: an append met a rewrite
    tears       \* ghost: how many writes stopped half way

feedbackGhosts == <<kept, removed, raced, tears>>
feedbackVars == <<file, unended, writer, stale, dialog, exported, made, edits, feedbackGhosts>>

Record == [id : Nat, value : Value \cup {"garbled"}, class : ContextClass, reason : Reason \cup {"other"}]
Cut == {"no", "head", "value", "reason", "end"}
Line == [rec : Record, cut : Cut]
Idle == [op |-> "none"]
\* Part of a line is a line: each keeps its record and where it was cut.
FeedbackTypeOK ==
    /\ file \in Seq(Line)
    /\ unended \in BOOLEAN /\ (unended => file # << >> /\ file[Len(file)].cut # "no")
    /\ writer \in Seq(Record) /\ Len(writer) <= 1 /\ stale \in BOOLEAN
    /\ dialog = Idle \/ (dialog.op \in {"replace", "append", "delete"} /\ dialog.records \in Seq(Record))
    /\ exported \in Seq(Record) /\ kept \in Seq(Record)
    /\ made \in 0..MaxRecords /\ edits \in 0..MaxEdits /\ removed \subseteq Nat
    /\ raced \in BOOLEAN /\ tears \in 0..MaxTears

FeedbackInit ==
    /\ file = << >> /\ unended = FALSE /\ writer = << >> /\ stale = FALSE
    /\ dialog = Idle /\ exported \in Tsv /\ made = 0 /\ edits = 0
    /\ kept = << >> /\ removed = {} /\ raced = FALSE /\ tears = 0

IdsOf(rs) == {r.id : r \in Range(rs)}
-----------------------------------------------------------------------------
\* ParseFeedbackRecord of a line that was cut: in its value, which then is another
\* one; in its reason, which only matters to a reject; before, and nothing is left.
ParseFeedbackRecord(line) ==
    LET r == line.rec
        Unreasoned == IF r.reason = "accepted" THEN r ELSE [r EXCEPT !.reason = "other"]
    IN  CASE line.cut \in {"no", "end"} -> r
          [] line.cut = "reason" -> Unreasoned
          [] line.cut = "value" -> [Unreasoned EXCEPT !.value = "garbled"]

\* Fault: the store is read as strictly as an import.
LoadRecordsStrict ==
    IF \E l \in Range(file) : l.cut = "head" THEN << >>
    ELSE [i \in 1..Len(file) |-> ParseFeedbackRecord(file[i])]

\* LoadFeedbackRecords: lines that make no record are passed over.
LoadFeedbackRecords ==
    LET lines == Selection(file, {l \in Range(file) : l.cut # "head"})
    IN  [i \in 1..Len(lines) |-> ParseFeedbackRecord(lines[i])]

\* WriteRecordsToStream
WriteRecords(rs) == [i \in 1..Len(rs) |-> [rec |-> rs[i], cut |-> "no"]]

-----------------------------------------------------------------------------
\* AppendRecord: the file is opened, or made ...
AppendOpen(v, c, why) ==
    /\ writer = << >> /\ made < MaxRecords
    /\ writer' = <<[id |-> made + 1, value |-> v, class |-> c, reason |-> why]>>
    /\ made' = made + 1 /\ stale' = FALSE
    /\ UNCHANGED <<edits, file, unended, dialog, exported, feedbackGhosts>>

\* The file with the line at its end; after a line without a newline it only
\* makes that one longer.
Appended(line) ==
    IF ~unended THEN Append(file, line)
    ELSE LET last == file[Len(file)] IN
         [file EXCEPT ![Len(file)].cut = IF last.cut = "end" THEN "reason" ELSE last.cut]

\* ... and written to, if it still is the file, as a whole or not.
AppendWrite(cut) ==
    /\ writer # << >>
    /\ cut # "no" => tears < MaxTears
    /\ IF stale THEN UNCHANGED <<file, unended>>
                ELSE /\ file' = Appended([rec |-> Head(writer), cut |-> cut])
                     /\ unended' = (cut # "no")
    /\ writer' = << >> /\ stale' = FALSE
    /\ kept' = kept \o writer
    /\ raced' = (raced \/ stale \/ dialog.op \in {"append", "delete"})
    /\ tears' = (IF cut = "no" THEN tears ELSE tears + 1)
    /\ UNCHANGED <<edits, dialog, exported, made, removed>>

AppendFails ==
    /\ writer # << >>
    /\ writer' = << >> /\ stale' = FALSE
    /\ UNCHANGED <<edits, file, unended, dialog, exported, made, feedbackGhosts>>

-----------------------------------------------------------------------------
Edit == edits < MaxEdits /\ edits' = edits + 1

\* WriteFeedbackRecordsAtomically: a rename, or no file for no records.
WriteAtomically(rs) ==
    /\ file' = WriteRecords(rs) /\ unended' = FALSE
    /\ stale' = (writer # << >>)

\* What DeleteEntry is asked for: a value in a context class.
Matching(rs, v, c) == {r \in Range(rs) : r.value = v /\ r.class = c}

\* Fault: remove_if without the erase that ends it.
RemainingUnerased(rs, v, c) ==
    LET rest == Selection(rs, Range(rs) \ Matching(rs, v, c))
    IN  rest \o SubSeq(rs, Len(rest) + 1, Len(rs))

\* Fault: the value goes in every context class.
RemainingInNoClass(rs, v, c) == Selection(rs, {r \in Range(rs) : r.value # v})

\* DeleteEntry: what is left of the records ...
Remaining(rs, v, c) == Selection(rs, Range(rs) \ Matching(rs, v, c))

Delete(v, c) ==
    LET rs == LoadFeedbackRecords IN
    /\ dialog = Idle /\ Edit /\ rs # Remaining(rs, v, c)
    /\ dialog' = [op |-> "delete", value |-> v, class |-> c, records |-> Remaining(rs, v, c)]
    /\ UNCHANGED <<file, unended, writer, stale, exported, made, feedbackGhosts>>

\* ... is written.
DeleteWrite ==
    /\ dialog.op = "delete"
    /\ WriteAtomically(dialog.records)
    /\ LET gone == Matching(kept, dialog.value, dialog.class)
       IN  /\ removed' = removed \cup {r.id : r \in gone}
           /\ kept' = Selection(kept, Range(kept) \ gone)
    /\ dialog' = Idle
    /\ UNCHANGED <<edits, writer, exported, made, raced, tears>>

\* ImportFromFile with kAppend reads the store and adds to it, else it replaces it.
Import(mode) ==
    LET rs == (IF mode = "append" THEN LoadFeedbackRecords ELSE << >>) \o exported IN
    /\ dialog = Idle /\ Edit /\ Len(rs) <= MaxLines
    /\ dialog' = [op |-> mode, records |-> rs]
    /\ UNCHANGED <<file, unended, writer, stale, exported, made, feedbackGhosts>>

ImportWrite ==
    /\ dialog.op \in {"append", "replace"}
    /\ WriteAtomically(dialog.records)
    /\ LET left == IF dialog.op = "append" THEN kept ELSE << >> IN
       /\ kept' = left \o exported
       /\ removed' = (removed \cup (IdsOf(kept) \ IdsOf(left))) \ IdsOf(exported)
    /\ dialog' = Idle
    /\ UNCHANGED <<edits, writer, exported, made, raced, tears>>

\* The temporary file cannot be written or renamed, or the dialog ends before.
DialogGivesUp ==
    /\ dialog # Idle /\ dialog' = Idle
    /\ UNCHANGED <<edits, file, unended, writer, stale, exported, made, feedbackGhosts>>

ClearAll ==
    /\ dialog = Idle /\ Edit /\ kept # << >>
    /\ WriteAtomically(<< >>)
    /\ removed' = removed \cup IdsOf(kept) /\ kept' = << >>
    /\ UNCHANGED <<writer, dialog, exported, made, raced, tears>>

ExportToFile ==
    /\ dialog = Idle /\ Edit /\ exported # LoadFeedbackRecords
    /\ exported' = LoadFeedbackRecords
    /\ UNCHANGED <<file, unended, writer, stale, dialog, made, feedbackGhosts>>

FeedbackNext ==
    \/ \E v \in Value, c \in ContextClass, why \in Reason : AppendOpen(v, c, why)
    \/ \E cut \in Cut : AppendWrite(cut)
    \/ AppendFails
    \/ \E v \in Value \cup {"garbled"}, c \in ContextClass : Delete(v, c)
    \/ \E mode \in {"append", "replace"} : Import(mode)
    \/ DeleteWrite \/ ImportWrite \/ DialogGivesUp \/ ClearAll \/ ExportToFile

FeedbackSpec == FeedbackInit /\ [][FeedbackNext]_feedbackVars
-----------------------------------------------------------------------------
\* The file holds what the user decided and did not remove, in order, after any
\* sequence of appends, deletions, imports and clears of both processes, unless an
\* append met a rewrite or a write stopped half way.
StoreMatchesHistory == (~raced /\ tears = 0) => LoadFeedbackRecords = kept

\* What the user deleted or cleared does not come back, even when the server
\* appends while the dialog works on what it has read, or a write was cut in another
\* place than its value: only an import brings it back.
RemovedStaysRemoved ==
    \A r \in Range(LoadFeedbackRecords) : r.id \in removed => r.value = "garbled"

\* A write that stops half way costs its own record and the next one at most: the
\* lines that cannot be read do not take the others with them.
TearLosesTwoAtMost == ~raced => Len(LoadFeedbackRecords) + 2 * tears >= Len(kept)
=============================================================================
