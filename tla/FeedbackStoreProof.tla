------------------------- MODULE FeedbackStoreProof -------------------------
(***************************************************************************)
(* Proofs about FeedbackStore for any values, context classes and imports  *)
(* and any number of records, edits and torn writes: the file holds what   *)
(* the user decided and did not remove, what was removed stays removed,    *)
(* and a torn write costs two records at most.                             *)
(*                                                                         *)
(* The first needs no torn write and no race, and then the file is exactly *)
(* the records the user should have.  The second holds through both: it    *)
(* rests on what a record keeps when its line is cut.  The third needs no  *)
(* race, and finds each record the user should have in the file, but for   *)
(* those the tears have cost.                                              *)
(***************************************************************************)
EXTENDS FeedbackStore, SelectionProof, FiniteSetTheorems, SequenceTheorems

\* What the dialog has read and not yet written.
Read == IF dialog.op = "none" THEN << >> ELSE dialog.records

FeedbackTypes ==
    /\ file \in Seq(Line) /\ (unended => file # << >>)
    /\ writer = << >> \/ \E w \in Record : writer = <<w>>
    /\ exported \in Seq(Record) /\ kept \in Seq(Record) /\ Read \in Seq(Record)
    /\ dialog = Idle \/ dialog.op \in {"replace", "append", "delete"}
    /\ made \in Nat /\ removed \subseteq Nat /\ tears \in Nat

\* Without races and tears the file and what the dialog has read are up to date.
FileIsKept ==
    ~raced /\ tears = 0 =>
        /\ file = WriteRecords(kept) /\ ~unended
        /\ dialog.op = "delete" =>
             dialog.records = Remaining(kept, dialog.value, dialog.class)
        /\ dialog.op = "append" => dialog.records = kept \o exported
        /\ dialog.op = "replace" => dialog.records = exported

MatchIInv == FeedbackTypes /\ FileIsKept

\* What identifies a record and decides whether a removal meets it.
Key(r) == [id |-> r.id, value |-> r.value, class |-> r.class]
Keys(rs) == {Key(r) : r \in Range(rs)}
\* The keys in the file, those in the dialog and those in the exported file.
Stored == Keys(LoadFeedbackRecords) \cup Keys(Read) \cup Keys(exported)

\* An id has one key wherever it is stored, and it is the key of the record the user
\* should have, but for a value that was cut.
KeysAgree ==
    /\ \A q, r \in Stored : q.id = r.id => q = r
    /\ \A k \in Keys(kept), r \in Stored :
         k.id = r.id => k.class = r.class /\ r.value \in {k.value, "garbled"}

\* The id of the record that is about to be written is nobody else's.
WriterIsNew ==
    /\ \A r \in Stored \cup Keys(kept) : r.id <= made \/ r.id > MaxRecords
    /\ \A i \in removed : i <= made \/ i > MaxRecords
    /\ \A w \in Range(writer) :
         /\ w.id = made /\ made <= MaxRecords /\ made \notin removed
         /\ \A r \in Stored \cup Keys(kept) : r.id # made

\* What was removed is neither in the file nor about to be, unless its value was cut
\* or the user imports it.
RemovedIsGone ==
    /\ \A r \in Keys(LoadFeedbackRecords) : r.id \in removed => r.value = "garbled"
    /\ \A r \in Keys(Read) : r.id \in removed =>
         r.value = "garbled" \/ (dialog.op # "delete" /\ r \in Keys(exported))
    /\ dialog.op = "replace" => dialog.records = exported
    /\ dialog.op = "delete" =>
         \A r \in Keys(Read) : ~(r.value = dialog.value /\ r.class = dialog.class)

RemovedIInv == FeedbackTypes /\ KeysAgree /\ WriterIsNew /\ RemovedIsGone

\* LoadFeedbackRecords of any file.
Loaded(f) ==
    LET lines == Selection(f, {l \in Range(f) : l.cut # "head"})
    IN  [i \in 1 .. Len(lines) |-> ParseFeedbackRecord(lines[i])]

-----------------------------------------------------------------------------
\* Lists.
LEMMA RangeOfConcat ==
    ASSUME NEW S, NEW a \in Seq(S), NEW b \in Seq(S)
    PROVE  a \o b \in Seq(S) /\ Range(a \o b) = Range(a) \cup Range(b)
<1> DEFINE c == a \o b
<1>1. /\ c \in Seq(S) /\ Len(a) \in Nat /\ Len(b) \in Nat
      /\ DOMAIN a = 1 .. Len(a) /\ DOMAIN b = 1 .. Len(b)
      /\ DOMAIN c = 1 .. Len(a) + Len(b)
      /\ \A i \in 1 .. Len(a) : i \in DOMAIN c /\ c[i] = a[i]
      /\ \A i \in 1 .. Len(b) : i + Len(a) \in DOMAIN c /\ c[i + Len(a)] = b[i]
      /\ \A i \in DOMAIN c : i \in 1 .. Len(a) \/ i - Len(a) \in 1 .. Len(b)
  OBVIOUS
<1>2. \A i \in DOMAIN c : i \notin 1 .. Len(a) => c[i] = b[i - Len(a)]
  OBVIOUS
<1> HIDE DEF c
<1>3. Range(c) \subseteq Range(a) \cup Range(b)
  BY <1>1, <1>2 DEF Range
<1>4. Range(a) \subseteq Range(c) /\ Range(b) \subseteq Range(c)
  BY <1>1 DEF Range
<1> QED
  BY <1>1, <1>3, <1>4 DEF c

\* A line that was cut keeps its record's id and class, and its value or none.
LEMMA ParsedKeeps ==
    ASSUME NEW l \in Line, l.cut # "head"
    PROVE  /\ ParseFeedbackRecord(l) \in Record
           /\ ParseFeedbackRecord(l).id = l.rec.id
           /\ ParseFeedbackRecord(l).class = l.rec.class
           /\ ParseFeedbackRecord(l).value =
                IF l.cut = "value" THEN "garbled" ELSE l.rec.value
           /\ l.cut = "no" => ParseFeedbackRecord(l) = l.rec
<1> DEFINE r == l.rec
           u == IF r.reason = "accepted" THEN r ELSE [r EXCEPT !.reason = "other"]
<1>1. r \in Record /\ l.cut \in {"no", "value", "reason", "end"}
  BY DEF Line, Cut
<1>2. u \in Record /\ u.id = r.id /\ u.class = r.class /\ u.value = r.value
  BY <1>1 DEF Record
<1>3. /\ l.cut \in {"no", "end"} => ParseFeedbackRecord(l) = r
      /\ l.cut = "reason" => ParseFeedbackRecord(l) = u
      /\ l.cut = "value" => ParseFeedbackRecord(l) = [u EXCEPT !.value = "garbled"]
  BY DEF ParseFeedbackRecord
<1> HIDE DEF u, r
<1>4. LET g == [u EXCEPT !.value = "garbled"]
      IN  g \in Record /\ g.id = u.id /\ g.class = u.class /\ g.value = "garbled"
  BY <1>2 DEF Record
<1> QED
  BY <1>1, <1>2, <1>3, <1>4 DEF r

\* LoadFeedbackRecords is Loaded of the file, before a step and after it.
LEMMA LoadIsLoaded ==
    LoadFeedbackRecords = Loaded(file) /\ LoadFeedbackRecords' = Loaded(file')
BY DEF LoadFeedbackRecords, Loaded

\* The records that are read are those of the lines that can be read.
LEMMA LoadedRecords ==
    ASSUME NEW f \in Seq(Line)
    PROVE  /\ Loaded(f) \in Seq(Record)
           /\ Range(Loaded(f))
                = {ParseFeedbackRecord(l) : l \in {x \in Range(f) : x.cut # "head"}}
<1> DEFINE readable == {x \in Range(f) : x.cut # "head"}
           lines == Selection(f, readable)
           parsed == [i \in 1 .. Len(lines) |-> ParseFeedbackRecord(lines[i])]
<1>1. lines \in Seq(Line) /\ Range(lines) = Range(f) \cap readable
  BY SelectionKeeps
<1>2. Range(lines) = readable
  BY <1>1
<1>3. parsed = Loaded(f)
  BY DEF Loaded
<1> HIDE DEF lines
<1>4. DOMAIN lines = 1 .. Len(lines) /\ Len(lines) \in Nat
  BY <1>1
<1>5. \A i \in 1 .. Len(lines) : lines[i] \in Line /\ lines[i].cut # "head"
  BY <1>1, <1>2, <1>4 DEF Range
<1>6. parsed \in [1 .. Len(lines) -> Record]
  BY <1>5, ParsedKeeps
<1>7. DOMAIN parsed = 1 .. Len(lines) /\ \A i \in 1 .. Len(lines) : parsed[i] = ParseFeedbackRecord(lines[i])
  OBVIOUS
<1> HIDE DEF parsed
<1>8. parsed \in Seq(Record)
  BY <1>4, <1>6, SeqDef
<1>9. Range(parsed) = {ParseFeedbackRecord(l) : l \in readable}
  <2>1. Range(parsed) = {ParseFeedbackRecord(lines[i]) : i \in 1 .. Len(lines)}
    BY <1>7 DEF Range
  <2>2. readable = {lines[i] : i \in 1 .. Len(lines)}
    BY <1>2, <1>4 DEF Range
  <2> HIDE DEF readable
  <2> QED
    BY <2>1, <2>2
<1> QED
  BY <1>3, <1>8, <1>9

\* What was written whole is read as it was.
LEMMA WrittenIsRead ==
    ASSUME NEW rs \in Seq(Record)
    PROVE  WriteRecords(rs) \in Seq(Line) /\ Loaded(WriteRecords(rs)) = rs
<1> DEFINE f == WriteRecords(rs)
<1>1. Len(rs) \in Nat /\ DOMAIN rs = 1 .. Len(rs) /\ \A i \in 1 .. Len(rs) : rs[i] \in Record
  OBVIOUS
<1>2. f = [i \in 1 .. Len(rs) |-> [rec |-> rs[i], cut |-> "no"]]
  BY DEF WriteRecords
<1> HIDE DEF f
<1>3. f \in [1 .. Len(rs) -> Line]
  BY <1>1, <1>2 DEF Line, Cut
<1>4. f \in Seq(Line) /\ Len(f) = Len(rs)
  BY <1>1, <1>3, SeqDef
<1>5. \A l \in Range(f) : l.cut # "head"
  BY <1>1, <1>2 DEF Range
<1>6. Range(f) \subseteq {l \in Range(f) : l.cut # "head"}
  BY <1>5
<1>7. Selection(f, {l \in Range(f) : l.cut # "head"}) = f
  BY <1>4, <1>6, SelectionOfAll
<1>8. \A i \in 1 .. Len(rs) : ParseFeedbackRecord(f[i]) = rs[i]
  <2> SUFFICES ASSUME NEW i \in 1 .. Len(rs) PROVE ParseFeedbackRecord(f[i]) = rs[i]
    OBVIOUS
  <2>1. f[i] \in Line /\ f[i].cut = "no" /\ f[i].rec = rs[i]
    BY <1>1, <1>2, <1>3
  <2> QED
    BY <2>1, ParsedKeeps
<1>9. Loaded(f) = [i \in 1 .. Len(rs) |-> ParseFeedbackRecord(f[i])]
  BY <1>4, <1>7 DEF Loaded
<1>10. Loaded(f) = [i \in 1 .. Len(rs) |-> rs[i]]
  BY <1>8, <1>9
<1>11. Loaded(f) = rs
  BY <1>1, <1>10
<1> QED
  BY <1>4, <1>11 DEF f

\* The file is written record by record.
LEMMA WrittenOneMore ==
    ASSUME NEW rs \in Seq(Record), NEW w \in Record
    PROVE  WriteRecords(rs \o <<w>>) = Append(WriteRecords(rs), [rec |-> w, cut |-> "no"])
<1> DEFINE longer == rs \o <<w>>
           more == Append(WriteRecords(rs), [rec |-> w, cut |-> "no"])
<1>1. /\ longer \in Seq(Record) /\ Len(longer) = Len(rs) + 1 /\ Len(rs) \in Nat
      /\ longer[Len(rs) + 1] = w /\ \A i \in 1 .. Len(rs) : longer[i] = rs[i]
  OBVIOUS
<1>2. /\ WriteRecords(rs) \in Seq(Line) /\ Len(WriteRecords(rs)) = Len(rs)
      /\ \A i \in 1 .. Len(rs) : WriteRecords(rs)[i] = [rec |-> rs[i], cut |-> "no"]
  <2>1. WriteRecords(rs) \in Seq(Line)
    BY WrittenIsRead
  <2>2. WriteRecords(rs) = [i \in 1 .. Len(rs) |-> [rec |-> rs[i], cut |-> "no"]]
    BY DEF WriteRecords
  <2> QED
    BY <1>1, <2>1, <2>2
<1>3. [rec |-> w, cut |-> "no"] \in Line
  BY DEF Line, Cut
<1> HIDE DEF longer
<1>4. /\ DOMAIN more = 1 .. Len(rs) + 1
      /\ more[Len(rs) + 1] = [rec |-> w, cut |-> "no"]
      /\ \A i \in 1 .. Len(rs) : more[i] = WriteRecords(rs)[i]
  BY <1>1, <1>2, <1>3
<1>5. /\ DOMAIN WriteRecords(longer) = 1 .. Len(rs) + 1
      /\ \A i \in 1 .. Len(rs) + 1 : WriteRecords(longer)[i] = [rec |-> longer[i], cut |-> "no"]
  BY <1>1 DEF WriteRecords
<1>6. \A i \in 1 .. Len(rs) + 1 : WriteRecords(longer)[i] = more[i]
  BY <1>1, <1>2, <1>4, <1>5
<1>7. WriteRecords(longer) = more
  <2>1. more \in Seq(Line) /\ WriteRecords(longer) \in Seq(Line)
    BY <1>1, <1>2, <1>3, WrittenIsRead
  <2> QED
    BY <1>4, <1>5, <1>6, <2>1
<1> QED
  BY <1>7 DEF longer

\* A line at the end of the file: after a line without a newline it is lost, and of
\* the other lines all stay what they are, but that one may lose its reason.
LEMMA AppendedLines ==
    ASSUME file \in Seq(Line), unended => file # << >>, NEW line \in Line
    PROVE  /\ Appended(line) \in Seq(Line) /\ Appended(line) # << >>
           /\ \A l \in Range(Appended(line)) :
                \/ l = line
                \/ \E m \in Range(file) :
                     /\ l.rec = m.rec
                     /\ l.cut = m.cut \/ (m.cut = "end" /\ l.cut = "reason")
<1>1. Len(file) \in Nat /\ DOMAIN file = 1 .. Len(file) /\ \A i \in 1 .. Len(file) : file[i] \in Line
  OBVIOUS
<1>2. CASE ~unended
  <2>1. Appended(line) = Append(file, line)
    BY <1>2 DEF Appended
  <2>2. /\ Append(file, line) \in Seq(Line) /\ Append(file, line) # << >>
        /\ DOMAIN Append(file, line) = 1 .. Len(file) + 1
        /\ Append(file, line)[Len(file) + 1] = line
        /\ \A i \in 1 .. Len(file) : Append(file, line)[i] = file[i]
    BY <1>1
  <2>3. \A l \in Range(Append(file, line)) : l = line \/ l \in Range(file)
    <3> DEFINE longer == Append(file, line)
    <3> HIDE DEF longer
    <3>1. ASSUME NEW i \in 1 .. Len(file) + 1
          PROVE  longer[i] = line \/ longer[i] \in Range(file)
      BY <1>1, <2>2 DEF Range, longer
    <3> QED
      BY <2>2, <3>1 DEF Range, longer
  <2> QED
    BY <2>1, <2>2, <2>3
<1>3. CASE unended
  <2> DEFINE n == Len(file)
             last == file[n]
             cut == IF last.cut = "end" THEN "reason" ELSE last.cut
             longer == [file EXCEPT ![n].cut = cut]
  <2>1. n \in 1 .. Len(file) /\ last \in Line
    BY <1>1, <1>3
  <2>2. Appended(line) = longer
    BY <1>3 DEF Appended
  <2>3. /\ DOMAIN longer = 1 .. Len(file)
        /\ \A i \in 1 .. Len(file) : i # n => longer[i] = file[i]
        /\ longer[n] = [last EXCEPT !.cut = cut]
    BY <1>1, <2>1
  <2>4. [last EXCEPT !.cut = cut] \in Line /\ [last EXCEPT !.cut = cut].rec = last.rec
        /\ [last EXCEPT !.cut = cut].cut = cut
    BY <2>1 DEF Line, Cut
  <2>5. longer \in [1 .. Len(file) -> Line]
    BY <1>1, <2>1, <2>4
  <2> HIDE DEF longer
  <2>6. longer \in Seq(Line) /\ longer # << >>
    BY <1>1, <2>1, <2>3, <2>5, SeqDef
  <2>7. ASSUME NEW i \in 1 .. Len(file)
        PROVE  \E m \in Range(file) :
                 /\ longer[i].rec = m.rec
                 /\ longer[i].cut = m.cut \/ (m.cut = "end" /\ longer[i].cut = "reason")
    <3>1. file[i] \in Range(file)
      BY <1>1 DEF Range
    <3>2. CASE i # n
      BY <2>3, <3>1, <3>2
    <3>3. CASE i = n
      BY <2>3, <2>4, <3>1, <3>3
    <3> QED
      BY <3>2, <3>3
  <2> QED
    BY <2>2, <2>3, <2>6, <2>7 DEF Range
<1> QED
  BY <1>2, <1>3

-----------------------------------------------------------------------------
\* The types.  What is left of a list of records is one.
LEMMA RemainingRecords ==
    ASSUME NEW rs \in Seq(Record), NEW v, NEW c
    PROVE  /\ Remaining(rs, v, c) \in Seq(Record)
           /\ Range(Remaining(rs, v, c)) = Range(rs) \ Matching(rs, v, c)
<1>1. Remaining(rs, v, c) = Selection(rs, Range(rs) \ Matching(rs, v, c))
  BY DEF Remaining
<1>2. /\ Selection(rs, Range(rs) \ Matching(rs, v, c)) \in Seq(Record)
      /\ Range(Selection(rs, Range(rs) \ Matching(rs, v, c))) = Range(rs) \cap (Range(rs) \ Matching(rs, v, c))
  BY SelectionKeeps
<1> QED
  BY <1>1, <1>2

\* The ids of records are numbers.
LEMMA IdsAreNumbers ==
    ASSUME NEW rs \in Seq(Record)
    PROVE  /\ \A r \in Range(rs) : r \in Record /\ r.id \in Nat
           /\ IdsOf(rs) \subseteq Nat
<1>1. DOMAIN rs = 1 .. Len(rs) /\ \A i \in 1 .. Len(rs) : rs[i] \in Record
  OBVIOUS
<1>2. \A r \in Range(rs) : r \in Record
  BY <1>1 DEF Range
<1>3. \A r \in Record : r.id \in Nat
  BY DEF Record
<1> QED
  BY <1>2, <1>3 DEF IdsOf

\* The records of the files to import are records, with ids of their own.
LEMMA ImportedRecords ==
    ASSUME NEW tsv \in Tsv
    PROVE  tsv \in Seq(Record) /\ \A r \in Range(tsv) : r.id > MaxRecords
<1> DEFINE Intact == [id : Nat, value : Value, class : ContextClass, reason : Reason]
<1>1. tsv \in Seq(Intact) /\ \A r \in Range(tsv) : r.id > MaxRecords
  BY FeedbackAssumption
<1>2. Intact \subseteq Record
  BY DEF Record
<1> HIDE DEF Intact
<1>3. Len(tsv) \in Nat /\ tsv \in [1 .. Len(tsv) -> Record]
  BY <1>1, <1>2
<1> QED
  BY <1>1, <1>3, SeqDef

\* The first state.
LEMMA FirstTypes == FeedbackInit => FeedbackTypes
<1> SUFFICES ASSUME FeedbackInit PROVE FeedbackTypes
  OBVIOUS
<1>1. exported \in Seq(Record)
  BY ImportedRecords DEF FeedbackInit
<1>2. << >> \in Seq(Line) /\ << >> \in Seq(Record)
  OBVIOUS
<1> QED
  BY <1>1, <1>2 DEF FeedbackInit, FeedbackTypes, Read, Idle

\* AppendWrite either loses the record or puts its line at the end.
LEMMA WriteStep ==
    ASSUME FeedbackTypes, NEW cut \in Cut, AppendWrite(cut)
    PROVE  \E w \in Record :
             /\ writer = <<w>> /\ writer' = << >>
             /\ kept' = kept \o <<w>>
             /\ IF stale THEN file' = file /\ unended' = unended
                ELSE file' = Appended([rec |-> w, cut |-> cut]) /\ unended' = (cut # "no")
<1>1. PICK w \in Record : writer = <<w>>
  BY DEF AppendWrite, FeedbackTypes
<1>2. Head(writer) = w
  BY <1>1
<1> QED
  BY <1>1, <1>2 DEF AppendWrite

\* Every step keeps the types.
LEMMA StepTypes ==
    ASSUME FeedbackTypes, [FeedbackNext]_feedbackVars
    PROVE  FeedbackTypes'
<1>0. LoadFeedbackRecords \in Seq(Record)
  BY LoadIsLoaded, LoadedRecords DEF FeedbackTypes
<1>1. ASSUME NEW v \in Value, NEW c \in ContextClass, NEW why \in Reason, AppendOpen(v, c, why)
      PROVE  FeedbackTypes'
  <2>1. made' \in Nat /\ writer' = <<[id |-> made + 1, value |-> v, class |-> c, reason |-> why]>>
    BY <1>1 DEF AppendOpen, FeedbackTypes
  <2>2. [id |-> made + 1, value |-> v, class |-> c, reason |-> why] \in Record
    BY DEF Record, FeedbackTypes
  <2> QED
    BY <1>1, <2>1, <2>2 DEF AppendOpen, FeedbackTypes, feedbackGhosts, Read
<1>2. ASSUME NEW cut \in Cut, AppendWrite(cut)
      PROVE  FeedbackTypes'
  <2>1. PICK w \in Record :
             /\ writer = <<w>> /\ writer' = << >>
             /\ kept' = kept \o <<w>>
             /\ IF stale THEN file' = file /\ unended' = unended
                ELSE file' = Appended([rec |-> w, cut |-> cut]) /\ unended' = (cut # "no")
    BY <1>2, WriteStep
  <2>2. kept' \in Seq(Record)
    BY <2>1 DEF FeedbackTypes
  <2>3. [rec |-> w, cut |-> cut] \in Line
    BY DEF Line
  <2>4. file' \in Seq(Line) /\ (unended' => file' # << >>)
    BY <2>1, <2>3, AppendedLines DEF FeedbackTypes
  <2> QED
    BY <1>2, <2>1, <2>2, <2>4 DEF AppendWrite, FeedbackTypes, Read
<1>3. ASSUME AppendFails PROVE FeedbackTypes'
  BY <1>3 DEF AppendFails, FeedbackTypes, feedbackGhosts, Read
<1>4. ASSUME NEW v, NEW c, Delete(v, c) PROVE FeedbackTypes'
  <2>1. Remaining(LoadFeedbackRecords, v, c) \in Seq(Record)
    BY <1>0, RemainingRecords
  <2> QED
    BY <1>4, <2>1 DEF Delete, FeedbackTypes, feedbackGhosts, Read
<1>5. ASSUME NEW mode \in {"append", "replace"}, Import(mode) PROVE FeedbackTypes'
  <2>1. dialog'.op = mode /\ dialog'.records \in Seq(Record)
    <3>1. dialog'.records = (IF mode = "append" THEN LoadFeedbackRecords ELSE << >>) \o exported
      BY <1>5 DEF Import
    <3> QED
      BY <1>0, <1>5, <3>1 DEF Import, FeedbackTypes
  <2> QED
    BY <1>5, <2>1 DEF Import, FeedbackTypes, feedbackGhosts, Read
<1>6. ASSUME DeleteWrite PROVE FeedbackTypes'
  <2> DEFINE gone == Matching(kept, dialog.value, dialog.class)
  <2>1. file' \in Seq(Line) /\ ~unended'
    BY <1>6, WrittenIsRead DEF DeleteWrite, WriteAtomically, FeedbackTypes, Read
  <2>2. kept' \in Seq(Record)
    <3>1. kept' = Selection(kept, Range(kept) \ gone) /\ kept \in Seq(Record)
      BY <1>6 DEF DeleteWrite, FeedbackTypes
    <3> QED
      BY <3>1, SelectionKeeps
  <2>3. removed' \subseteq Nat
    <3>1. removed' = removed \cup {r.id : r \in gone}
      BY <1>6 DEF DeleteWrite
    <3>2. \A r \in gone : r.id \in Nat
      BY IdsAreNumbers DEF Matching, FeedbackTypes
    <3> QED
      BY <3>1, <3>2 DEF FeedbackTypes
  <2>4. Read' = << >> /\ << >> \in Seq(Record)
    BY <1>6 DEF DeleteWrite, Read, Idle
  <2> QED
    BY <1>6, <2>1, <2>2, <2>3, <2>4 DEF DeleteWrite, FeedbackTypes
<1>7. ASSUME ImportWrite PROVE FeedbackTypes'
  <2>1. file' \in Seq(Line) /\ ~unended'
    BY <1>7, WrittenIsRead DEF ImportWrite, WriteAtomically, FeedbackTypes, Read
  <2>2. kept' \in Seq(Record)
    <3>1. kept \in Seq(Record) /\ exported \in Seq(Record)
      BY DEF FeedbackTypes
    <3>2. kept \o exported \in Seq(Record) /\ << >> \o exported \in Seq(Record)
      BY <3>1
    <3>3. kept' = kept \o exported \/ kept' = << >> \o exported
      BY <1>7 DEF ImportWrite
    <3> QED
      BY <3>2, <3>3
  <2>3. removed' \subseteq removed \cup IdsOf(kept)
    BY <1>7 DEF ImportWrite
  <2>4. IdsOf(kept) \subseteq Nat
    BY IdsAreNumbers DEF FeedbackTypes
  <2>5. Read' = << >> /\ << >> \in Seq(Record)
    BY <1>7 DEF ImportWrite, Read, Idle
  <2> QED
    BY <1>7, <2>1, <2>2, <2>3, <2>4, <2>5 DEF ImportWrite, FeedbackTypes
<1>8. ASSUME DialogGivesUp PROVE FeedbackTypes'
  <2>1. Read' = << >> /\ << >> \in Seq(Record)
    BY <1>8 DEF DialogGivesUp, Read, Idle
  <2> QED
    BY <1>8, <2>1 DEF DialogGivesUp, FeedbackTypes, feedbackGhosts
<1>9. ASSUME ClearAll PROVE FeedbackTypes'
  <2>1. file' \in Seq(Line) /\ ~unended' /\ << >> \in Seq(Record)
    <3>1. << >> \in Seq(Record)
      OBVIOUS
    <3> QED
      BY <1>9, <3>1, WrittenIsRead DEF ClearAll, WriteAtomically
  <2>2. IdsOf(kept) \subseteq Nat
    BY IdsAreNumbers DEF FeedbackTypes
  <2> QED
    BY <1>9, <2>1, <2>2 DEF ClearAll, FeedbackTypes, Read
<1>10. ASSUME ExportToFile PROVE FeedbackTypes'
  BY <1>0, <1>10 DEF ExportToFile, FeedbackTypes, feedbackGhosts, Read
<1>11. ASSUME UNCHANGED feedbackVars PROVE FeedbackTypes'
  BY <1>11 DEF feedbackVars, feedbackGhosts, FeedbackTypes, Read
<1> QED
  BY <1>1, <1>2, <1>3, <1>4, <1>5, <1>6, <1>7, <1>8, <1>9, <1>10, <1>11 DEF FeedbackNext

\* What FeedbackTypeOK says besides the types above.
LastIsCut == unended => file[Len(file)].cut # "no"
WithinBounds ==
    /\ unended \in BOOLEAN /\ stale \in BOOLEAN /\ raced \in BOOLEAN
    /\ made \in 0 .. MaxRecords /\ edits \in 0 .. MaxEdits /\ tears \in 0 .. MaxTears

\* Only a write that stopped leaves a line without a newline, and what comes after it
\* does not end it.
LEMMA StepLeavesCut ==
    ASSUME FeedbackTypes, LastIsCut, [FeedbackNext]_feedbackVars
    PROVE  LastIsCut'
<1>1. ASSUME NEW cut \in Cut, AppendWrite(cut) PROVE LastIsCut'
  <2>1. CASE stale
    BY <1>1, <2>1 DEF AppendWrite, LastIsCut
  <2>2. CASE ~stale /\ cut # "no"
    <3>1. PICK line : line = [rec |-> Head(writer), cut |-> cut]
      OBVIOUS
    <3>2. file' = Appended(line) /\ line.cut = cut
      BY <1>1, <2>2, <3>1 DEF AppendWrite
    <3>3. file'[Len(file')].cut # "no"
      <4>1. CASE ~unended
        <5>1. file' = Append(file, line) /\ file \in Seq(Line)
          BY <3>2, <4>1 DEF Appended, FeedbackTypes
        <5>2. file'[Len(file')] = line
          BY <5>1
        <5> QED
          BY <2>2, <3>2, <5>2
      <4>2. CASE unended
        <5>1. PICK n, last, torn :
                n = Len(file) /\ last = file[n]
                /\ torn = IF last.cut = "end" THEN "reason" ELSE last.cut
          OBVIOUS
        <5>2. n \in Nat /\ n \in DOMAIN file /\ DOMAIN file = 1 .. n /\ last \in Line
          BY <4>2, <5>1 DEF FeedbackTypes
        <5>3. file' = [file EXCEPT ![n].cut = torn]
          BY <3>2, <4>2, <5>1 DEF Appended
        <5>4. Len(file') = n /\ file'[n].cut = torn
          <6>1. DOMAIN file' = 1 .. n
            BY <5>2, <5>3
          <6>2. file' \in Seq(Line)
            BY <1>1, StepTypes DEF FeedbackTypes, FeedbackNext
          <6>3. Len(file') = n
            BY <5>2, <6>1, <6>2
          <6>4. file'[n].cut = torn
            BY <5>1, <5>2, <5>3 DEF Line
          <6> QED
            BY <6>3, <6>4
        <5>5. torn # "no"
          BY <4>2, <5>1 DEF LastIsCut
        <5> QED
          BY <5>4, <5>5
      <4> QED
        BY <4>1, <4>2
    <3> QED
      BY <3>3 DEF LastIsCut
  <2>3. CASE ~stale /\ cut = "no"
    BY <1>1, <2>3 DEF AppendWrite, LastIsCut
  <2> QED
    BY <2>1, <2>2, <2>3
<1>2. CASE DeleteWrite \/ ImportWrite \/ ClearAll
  BY <1>2 DEF DeleteWrite, ImportWrite, ClearAll, WriteAtomically, LastIsCut
<1>3. CASE FeedbackNext /\ UNCHANGED <<file, unended>>
  BY <1>3 DEF LastIsCut
<1>4. CASE UNCHANGED feedbackVars
  BY <1>4 DEF feedbackVars, LastIsCut
<1> QED
  BY <1>1, <1>2, <1>3, <1>4
  DEF FeedbackNext, AppendOpen, AppendFails, Delete, Import, DialogGivesUp, ExportToFile

\* The counters stay within their bounds.
LEMMA StepWithinBounds ==
    ASSUME FeedbackTypes, WithinBounds, [FeedbackNext]_feedbackVars
    PROVE  WithinBounds'
<1> USE FeedbackAssumption DEF WithinBounds
<1>1. ASSUME NEW v \in Value, NEW c \in ContextClass, NEW why \in Reason, AppendOpen(v, c, why)
      PROVE  WithinBounds'
  <2>1. made' \in 0 .. MaxRecords
    BY <1>1 DEF AppendOpen
  <2>2. stale' \in BOOLEAN /\ UNCHANGED <<unended, raced, edits, tears>>
    BY <1>1 DEF AppendOpen, feedbackGhosts
  <2> QED
    BY <2>1, <2>2
<1>2. ASSUME NEW cut \in Cut, AppendWrite(cut) PROVE WithinBounds'
  <2>1. unended' \in BOOLEAN /\ stale' \in BOOLEAN /\ raced' \in BOOLEAN
    BY <1>2 DEF AppendWrite
  <2>2. tears' \in 0 .. MaxTears /\ UNCHANGED <<made, edits>>
    BY <1>2 DEF AppendWrite
  <2> QED
    BY <2>1, <2>2
<1>3. CASE AppendFails
  BY <1>3 DEF AppendFails, feedbackGhosts
<1>4. ASSUME Edit PROVE edits' \in 0 .. MaxEdits
  BY <1>4 DEF Edit
<1>5. ASSUME NEW v, NEW c, Delete(v, c) PROVE WithinBounds'
  BY <1>4, <1>5 DEF Delete, feedbackGhosts
<1>6. ASSUME NEW mode, Import(mode) PROVE WithinBounds'
  BY <1>4, <1>6 DEF Import, feedbackGhosts
<1>7. CASE DeleteWrite
  BY <1>7 DEF DeleteWrite, WriteAtomically
<1>8. CASE ImportWrite
  BY <1>8 DEF ImportWrite, WriteAtomically
<1>9. CASE DialogGivesUp
  BY <1>9 DEF DialogGivesUp, feedbackGhosts
<1>10. CASE ClearAll
  BY <1>4, <1>10 DEF ClearAll, WriteAtomically
<1>11. CASE ExportToFile
  BY <1>4, <1>11 DEF ExportToFile, feedbackGhosts
<1>12. CASE UNCHANGED feedbackVars
  BY <1>12 DEF feedbackVars, feedbackGhosts
<1> QED
  BY <1>1, <1>2, <1>3, <1>5, <1>6, <1>7, <1>8, <1>9, <1>10, <1>11, <1>12 DEF FeedbackNext

\* The type invariant: the lines and the records, the bounds, and that a line without a
\* newline is one that was cut.
THEOREM FeedbackTypeCorrect == FeedbackSpec => []FeedbackTypeOK
<1> DEFINE TypeIInv == FeedbackTypes /\ LastIsCut /\ WithinBounds
<1>1. FeedbackInit => TypeIInv
  <2> SUFFICES ASSUME FeedbackInit PROVE LastIsCut /\ WithinBounds
    BY FirstTypes
  <2>1. made \in 0 .. MaxRecords /\ edits \in 0 .. MaxEdits /\ tears \in 0 .. MaxTears
    BY FeedbackAssumption DEF FeedbackInit
  <2>2. unended = FALSE /\ stale = FALSE /\ raced = FALSE
    BY DEF FeedbackInit
  <2> QED
    BY <2>1, <2>2 DEF LastIsCut, WithinBounds
<1>2. TypeIInv /\ [FeedbackNext]_feedbackVars => TypeIInv'
  BY StepTypes, StepLeavesCut, StepWithinBounds
<1>3. TypeIInv => FeedbackTypeOK
  <2> SUFFICES ASSUME TypeIInv PROVE FeedbackTypeOK
    OBVIOUS
  <2>1. writer \in Seq(Record) /\ Len(writer) <= 1
    <3>1. CASE writer = << >>
      BY <3>1
    <3>2. ASSUME NEW w \in Record, writer = <<w>>
          PROVE  writer \in Seq(Record) /\ Len(writer) <= 1
      BY <3>2
    <3> QED
      BY <3>1, <3>2 DEF FeedbackTypes
  <2>2. dialog = Idle \/ (dialog.op \in {"replace", "append", "delete"} /\ dialog.records \in Seq(Record))
    BY DEF FeedbackTypes, Read
  <2> QED
    BY <2>1, <2>2 DEF FeedbackTypes, LastIsCut, WithinBounds, FeedbackTypeOK
<1> QED
  BY <1>1, <1>2, <1>3, PTL DEF FeedbackSpec

-----------------------------------------------------------------------------
\* Without races and tears every step keeps the file what it should be.
LEMMA StepMatches ==
    ASSUME MatchIInv, [FeedbackNext]_feedbackVars
    PROVE  FileIsKept'
<1> SUFFICES ASSUME ~raced', tears' = 0
             PROVE  /\ file' = WriteRecords(kept') /\ ~unended'
                    /\ dialog'.op = "delete" =>
                         dialog'.records = Remaining(kept', dialog'.value, dialog'.class)
                    /\ dialog'.op = "append" => dialog'.records = kept' \o exported'
                    /\ dialog'.op = "replace" => dialog'.records = exported'
  BY DEF FileIsKept, WriteRecords, Remaining, Matching
<1>1. CASE UNCHANGED feedbackVars
  BY <1>1 DEF feedbackVars, feedbackGhosts, MatchIInv, FileIsKept
<1>2. ASSUME NEW cut \in Cut, AppendWrite(cut) PROVE
                    /\ file' = WriteRecords(kept') /\ ~unended'
                    /\ dialog'.op = "delete" =>
                         dialog'.records = Remaining(kept', dialog'.value, dialog'.class)
                    /\ dialog'.op = "append" => dialog'.records = kept' \o exported'
                    /\ dialog'.op = "replace" => dialog'.records = exported'
  <2>1. /\ ~raced /\ ~stale /\ dialog.op \notin {"append", "delete"}
        /\ dialog' = dialog /\ exported' = exported
    BY <1>2 DEF AppendWrite
  <2>2. cut = "no" /\ tears = 0
    BY <1>2 DEF AppendWrite, MatchIInv, FeedbackTypes
  <2>3. PICK w \in Record :
             /\ kept' = kept \o <<w>>
             /\ file' = Appended([rec |-> w, cut |-> cut]) /\ unended' = (cut # "no")
    BY <1>2, <2>1, WriteStep DEF MatchIInv
  <2>4. file' = Append(file, [rec |-> w, cut |-> "no"])
    BY <2>1, <2>2, <2>3 DEF MatchIInv, FileIsKept, Appended
  <2>5. file' = WriteRecords(kept')
    BY <2>1, <2>2, <2>3, <2>4, WrittenOneMore DEF MatchIInv, FileIsKept, FeedbackTypes
  <2> QED
    BY <2>1, <2>2, <2>3, <2>5 DEF MatchIInv, FileIsKept
<1>3. CASE ~(\E cut \in Cut : AppendWrite(cut)) /\ FeedbackNext
  <2>0. ~raced /\ tears = 0
    BY <1>3 DEF FeedbackNext, AppendOpen, AppendFails, Delete, Import, DeleteWrite, ImportWrite,
           DialogGivesUp, ClearAll, ExportToFile, feedbackGhosts
  <2>1. /\ file = WriteRecords(kept) /\ ~unended /\ LoadFeedbackRecords = kept
        /\ kept \in Seq(Record) /\ exported \in Seq(Record)
    BY <2>0, WrittenIsRead, LoadIsLoaded DEF MatchIInv, FileIsKept, FeedbackTypes
  <2>2. CASE \E v \in Value, c \in ContextClass, why \in Reason : AppendOpen(v, c, why)
    BY <2>0, <2>2 DEF AppendOpen, feedbackGhosts, MatchIInv, FileIsKept
  <2>3. CASE AppendFails
    BY <2>0, <2>3 DEF AppendFails, feedbackGhosts, MatchIInv, FileIsKept
  <2>4. ASSUME NEW v, NEW c, Delete(v, c)
        PROVE  /\ UNCHANGED <<file, unended, kept, exported>> /\ dialog'.op = "delete"
               /\ dialog'.records = Remaining(kept', dialog'.value, dialog'.class)
    BY <2>1, <2>4 DEF Delete, feedbackGhosts
  <2>5. ASSUME NEW mode \in {"append", "replace"}, Import(mode)
        PROVE  /\ UNCHANGED <<file, unended, kept, exported>> /\ dialog'.op = mode
               /\ dialog'.records = IF mode = "append" THEN kept \o exported ELSE exported
    <3>1. << >> \o exported = exported
      BY <2>1
    <3> QED
      BY <2>1, <2>5, <3>1 DEF Import, feedbackGhosts
  <2>6. CASE DeleteWrite
    <3>1. dialog.records = Remaining(kept, dialog.value, dialog.class)
      BY <2>0, <2>6 DEF DeleteWrite, MatchIInv, FileIsKept
    <3>2. kept' = Remaining(kept, dialog.value, dialog.class)
      BY <2>6 DEF DeleteWrite, Remaining
    <3> QED
      BY <2>6, <3>1, <3>2 DEF DeleteWrite, WriteAtomically, Idle
  <2>7. CASE ImportWrite
    <3>1. << >> \o exported = exported
      BY <2>1
    <3>2. kept' = dialog.records
      BY <2>0, <2>7, <3>1 DEF ImportWrite, MatchIInv, FileIsKept
    <3> QED
      BY <2>7, <3>2 DEF ImportWrite, WriteAtomically, Idle
  <2>8. CASE DialogGivesUp
    BY <2>1, <2>8 DEF DialogGivesUp, feedbackGhosts, Idle
  <2>9. CASE ClearAll
    BY <2>9 DEF ClearAll, WriteAtomically, Idle
  <2>10. CASE ExportToFile
    BY <2>1, <2>10 DEF ExportToFile, feedbackGhosts, Idle
  <2> QED
    BY <1>3, <2>1, <2>2, <2>3, <2>4, <2>5, <2>6, <2>7, <2>8, <2>9, <2>10 DEF FeedbackNext
<1> QED
  BY <1>1, <1>2, <1>3

\* StoreMatchesHistory for any number of records and edits: without races and torn
\* writes the file holds what the user decided and did not remove, in order, also
\* when the server appends while the dialog is open.
THEOREM StoreIsTheHistory == FeedbackSpec => []StoreMatchesHistory
<1>1. FeedbackInit => MatchIInv
  <2> SUFFICES ASSUME FeedbackInit PROVE FileIsKept
    BY FirstTypes DEF MatchIInv
  <2>1. WriteRecords(<< >>) = << >>
    BY DEF WriteRecords
  <2> QED
    BY <2>1 DEF FeedbackInit, FileIsKept, Idle
<1>2. MatchIInv /\ [FeedbackNext]_feedbackVars => MatchIInv'
  BY StepTypes, StepMatches DEF MatchIInv
<1>3. MatchIInv => StoreMatchesHistory
  BY WrittenIsRead, LoadIsLoaded DEF MatchIInv, FileIsKept, FeedbackTypes, StoreMatchesHistory
<1> QED
  BY <1>1, <1>2, <1>3, PTL DEF FeedbackSpec

-----------------------------------------------------------------------------
\* Keys.  Those of a list that was put together, and of records.
LEMMA KeysOfRecords ==
    /\ Keys(<< >>) = {}
    /\ \A rs \in Seq(Record) :
         \A k \in Keys(rs) : k.id \in Nat /\ \E r \in Range(rs) : k = Key(r)
    /\ \A a, b \in Seq(Record) : Keys(a \o b) = Keys(a) \cup Keys(b)
    /\ \A w : Keys(<<w>>) = {Key(w)}
<1>1. Range(<< >>) = {}
  BY DEF Range
<1>2. ASSUME NEW rs \in Seq(Record), NEW k \in Keys(rs)
      PROVE  k.id \in Nat /\ \E r \in Range(rs) : k = Key(r)
  <2>1. PICK r \in Range(rs) : k = Key(r)
    BY DEF Keys
  <2> QED
    BY <2>1, IdsAreNumbers DEF Key
<1>3. ASSUME NEW a \in Seq(Record), NEW b \in Seq(Record)
      PROVE  Keys(a \o b) = Keys(a) \cup Keys(b)
  <2>1. Range(a \o b) = Range(a) \cup Range(b)
    BY RangeOfConcat
  <2> QED
    BY <2>1 DEF Keys
<1>4. ASSUME NEW w PROVE Keys(<<w>>) = {Key(w)}
  <2>1. Range(<<w>>) = {w}
    BY DEF Range
  <2> QED
    BY <2>1 DEF Keys
<1> QED
  BY <1>1, <1>2, <1>3, <1>4 DEF Keys

\* The ids of a list are those of its keys.
LEMMA IdsOfKeys ==
    ASSUME NEW rs
    PROVE  /\ \A k \in Keys(rs) : k.id \in IdsOf(rs)
           /\ \A i \in IdsOf(rs) : \E k \in Keys(rs) : k.id = i
<1>1. \A r : Key(r).id = r.id
  BY DEF Key
<1>2. ASSUME NEW k \in Keys(rs) PROVE k.id \in IdsOf(rs)
  <2>1. PICK r \in Range(rs) : k = Key(r)
    BY DEF Keys
  <2> QED
    BY <1>1, <2>1 DEF IdsOf
<1>3. ASSUME NEW i \in IdsOf(rs) PROVE \E k \in Keys(rs) : k.id = i
  <2>1. PICK r \in Range(rs) : i = r.id
    BY DEF IdsOf
  <2>2. Key(r) \in Keys(rs)
    BY <2>1 DEF Keys
  <2> QED
    BY <1>1, <2>1, <2>2
<1> QED
  BY <1>2, <1>3

\* The file after an append has the keys it had, and that of the line if it can be
\* read.
LEMMA AppendedKeys ==
    ASSUME file \in Seq(Line), unended => file # << >>, NEW line \in Line
    PROVE  \A k \in Keys(Loaded(Appended(line))) :
             \/ k \in Keys(Loaded(file))
             \/ line.cut # "head" /\ k = Key(ParseFeedbackRecord(line))
<1> DEFINE f == Appended(line)
<1>1. f \in Seq(Line)
  BY AppendedLines
<1>2. Range(Loaded(f)) = {ParseFeedbackRecord(l) : l \in {x \in Range(f) : x.cut # "head"}}
  BY <1>1, LoadedRecords
<1>3. Range(Loaded(file)) = {ParseFeedbackRecord(l) : l \in {x \in Range(file) : x.cut # "head"}}
  BY LoadedRecords
<1>4. \A l \in Range(f) : l \in Line
  BY <1>1 DEF Range
<1>5. \A l \in Range(file) : l \in Line
  BY DEF Range
<1>6. \A l \in Range(f) :
         \/ l = line
         \/ \E m \in Range(file) :
              /\ l.rec = m.rec
              /\ l.cut = m.cut \/ (m.cut = "end" /\ l.cut = "reason")
  BY AppendedLines
<1> HIDE DEF f
<1> SUFFICES ASSUME NEW l \in Range(f), l.cut # "head", l # line
             PROVE  Key(ParseFeedbackRecord(l)) \in Keys(Loaded(file))
  BY <1>2 DEF Keys, f
<1>7. PICK m \in Range(file) :
         l.rec = m.rec /\ (l.cut = m.cut \/ (m.cut = "end" /\ l.cut = "reason"))
  BY <1>6
<1>8. m.cut # "head" /\ (m.cut = "value" <=> l.cut = "value")
  BY <1>7
<1>9. Key(ParseFeedbackRecord(l)) = Key(ParseFeedbackRecord(m))
  <2>1. l \in Line /\ m \in Line
    BY <1>4, <1>5
  <2>2. /\ ParseFeedbackRecord(l).id = l.rec.id /\ ParseFeedbackRecord(l).class = l.rec.class
        /\ ParseFeedbackRecord(l).value = IF l.cut = "value" THEN "garbled" ELSE l.rec.value
    BY <2>1, ParsedKeeps
  <2>3. /\ ParseFeedbackRecord(m).id = m.rec.id /\ ParseFeedbackRecord(m).class = m.rec.class
        /\ ParseFeedbackRecord(m).value = IF m.cut = "value" THEN "garbled" ELSE m.rec.value
    BY <2>1, <1>8, ParsedKeeps
  <2> QED
    BY <1>7, <1>8, <2>2, <2>3 DEF Key
<1> QED
  BY <1>3, <1>8, <1>9 DEF Keys

\* The keys that are left when a value is removed from a class are other ones.
LEMMA RemainingKeys ==
    ASSUME NEW rs \in Seq(Record), NEW v, NEW c
    PROVE  /\ Keys(Remaining(rs, v, c)) \subseteq Keys(rs)
           /\ \A r \in Keys(Remaining(rs, v, c)) : ~(r.value = v /\ r.class = c)
<1>1. Range(Remaining(rs, v, c)) = Range(rs) \ Matching(rs, v, c)
  BY RemainingRecords
<1>2. \A r \in Range(rs) \ Matching(rs, v, c) : ~(r.value = v /\ r.class = c)
  BY DEF Matching
<1> QED
  BY <1>1, <1>2 DEF Keys, Key

\* The first state: nothing is stored but the file to import.
LEMMA FirstRemoved == FeedbackInit => RemovedIInv
<1> SUFFICES ASSUME FeedbackInit PROVE KeysAgree /\ WriterIsNew /\ RemovedIsGone
  BY FirstTypes DEF RemovedIInv
<1>1. Keys(Read) = {} /\ Keys(kept) = {} /\ Range(writer) = {} /\ removed = {}
  BY KeysOfRecords DEF FeedbackInit, Read, Idle, Range
<1>2. Keys(LoadFeedbackRecords) = {}
  <2>1. << >> \in Seq(Record) /\ WriteRecords(<< >>) = << >>
    BY DEF WriteRecords
  <2>2. Loaded(file) = << >>
    BY <2>1, WrittenIsRead DEF FeedbackInit
  <2> QED
    BY <2>2, LoadIsLoaded, KeysOfRecords
<1>3. exported \in Tsv /\ exported \in Seq(Record)
  BY ImportedRecords DEF FeedbackInit
<1>4. \A k \in Keys(exported) : k.id > MaxRecords
  BY <1>3, ImportedRecords DEF Keys, Key
<1>5. \A q, r \in Keys(exported) : q.id = r.id => q = r
  <2> SUFFICES ASSUME NEW q \in Range(exported), NEW r \in Range(exported), q.id = r.id
               PROVE  q = r
    BY DEF Keys, Key
  <2> QED
    BY <1>3, FeedbackAssumption
<1> QED
  BY <1>1, <1>2, <1>4, <1>5 DEF KeysAgree, WriterIsNew, RemovedIsGone, Stored, FeedbackInit, Idle

\* The three hold as long as no key is added and nothing is removed.
LEMMA NothingAdded ==
    ASSUME KeysAgree, WriterIsNew, RemovedIsGone,
           Keys(LoadFeedbackRecords)' \subseteq Keys(LoadFeedbackRecords),
           Keys(exported)' \subseteq Stored, Keys(kept)' \subseteq Keys(kept),
           removed' = removed, made' = made, Range(writer)' \subseteq Range(writer),
           dialog' = Idle \/ (dialog' = dialog /\ exported' = exported)
    PROVE  KeysAgree' /\ WriterIsNew' /\ RemovedIsGone'
<1>1. CASE dialog' = Idle
  <2>1. Keys(Read)' = {} /\ dialog'.op = "none"
    BY <1>1, KeysOfRecords DEF Read, Idle
  <2>2. Stored' \subseteq Stored
    BY <2>1 DEF Stored
  <2> QED
    BY <2>1, <2>2 DEF KeysAgree, WriterIsNew, RemovedIsGone
<1>2. CASE dialog' = dialog /\ exported' = exported
  <2>1. Read' = Read /\ Keys(Read)' = Keys(Read) /\ Keys(exported)' = Keys(exported)
    BY <1>2 DEF Read
  <2>2. Stored' \subseteq Stored
    BY <2>1 DEF Stored
  <2> QED
    BY <1>2, <2>1, <2>2 DEF KeysAgree, WriterIsNew, RemovedIsGone
<1> QED
  BY <1>1, <1>2

\* The file after a rename has the keys of what was written.
LEMMA RenamedKeys ==
    ASSUME NEW rs \in Seq(Record), WriteAtomically(rs)
    PROVE  Keys(LoadFeedbackRecords)' = Keys(rs)
<1>1. LoadFeedbackRecords' = rs
  BY WrittenIsRead, LoadIsLoaded DEF WriteAtomically
<1> QED
  BY <1>1

\* AppendOpen: the new id is one more than all that were given.
LEMMA OpenRemoved ==
    ASSUME RemovedIInv, NEW v, NEW c, NEW why, AppendOpen(v, c, why)
    PROVE  KeysAgree' /\ WriterIsNew' /\ RemovedIsGone'
<1>1. /\ made < MaxRecords /\ made' = made + 1 /\ made \in Nat /\ MaxRecords \in Nat
      /\ removed' = removed /\ removed \subseteq Nat
      /\ UNCHANGED <<file, dialog, exported, kept>>
  BY FeedbackAssumption DEF AppendOpen, feedbackGhosts, RemovedIInv, FeedbackTypes
<1>2. \A w \in Range(writer') : w.id = made'
  BY DEF AppendOpen, Range
<1>3. Read' = Read /\ LoadFeedbackRecords' = LoadFeedbackRecords /\ Stored' = Stored
  BY <1>1 DEF Read, LoadFeedbackRecords, Stored
<1>4. \A r \in Stored \cup Keys(kept) : r.id \in Nat
  BY KeysOfRecords, LoadIsLoaded, LoadedRecords DEF RemovedIInv, FeedbackTypes, Stored
<1>5. KeysAgree' /\ RemovedIsGone'
  BY <1>1, <1>3 DEF RemovedIInv, KeysAgree, RemovedIsGone
<1>6. \A r \in Stored \cup Keys(kept) : r.id # made' /\ (r.id <= made' \/ r.id > MaxRecords)
  BY <1>1, <1>4 DEF RemovedIInv, WriterIsNew
<1>7. \A i \in removed : i # made' /\ (i <= made' \/ i > MaxRecords)
  BY <1>1 DEF RemovedIInv, WriterIsNew
<1>8. WriterIsNew'
  BY <1>1, <1>2, <1>3, <1>6, <1>7 DEF WriterIsNew
<1> QED
  BY <1>5, <1>8

\* AppendWrite: the record's key is a new one, and stored with its value or none.
LEMMA WriteRemoved ==
    ASSUME RemovedIInv, NEW cut \in Cut, AppendWrite(cut)
    PROVE  KeysAgree' /\ WriterIsNew' /\ RemovedIsGone'
<1> DEFINE F == Keys(LoadFeedbackRecords)
<1>1. PICK w \in Record :
             /\ writer = <<w>> /\ writer' = << >>
             /\ kept' = kept \o <<w>>
             /\ IF stale THEN file' = file /\ unended' = unended
                ELSE file' = Appended([rec |-> w, cut |-> cut]) /\ unended' = (cut # "no")
  BY WriteStep DEF RemovedIInv
<1>2. UNCHANGED <<dialog, exported, made, removed>>
  BY DEF AppendWrite
<1>3. Read' = Read /\ Range(writer') = {} /\ w \in Range(writer)
  BY <1>1, <1>2 DEF Read, Range
<1>4. Keys(kept)' = Keys(kept) \cup {Key(w)}
  <2>1. kept \in Seq(Record) /\ <<w>> \in Seq(Record)
    BY DEF RemovedIInv, FeedbackTypes
  <2>2. Keys(kept \o <<w>>) = Keys(kept) \cup Keys(<<w>>) /\ Keys(<<w>>) = {Key(w)}
    BY <2>1, KeysOfRecords
  <2> QED
    BY <1>1, <2>2
<1>5. PICK new : /\ F' \subseteq F \cup {new}
                 /\ new.id = w.id /\ new.class = w.class /\ new.value \in {w.value, "garbled"}
  <2>1. CASE stale
    <3>1. F' = F
      BY <1>1, <2>1, LoadIsLoaded
    <3> QED
      BY <3>1 DEF Key
  <2>2. CASE ~stale
    <3> DEFINE line == [rec |-> w, cut |-> cut]
    <3>1. line \in Line /\ line.cut = cut /\ line.rec = w
      BY DEF Line
    <3>2. F' = Keys(Loaded(Appended(line)))
      BY <1>1, <2>2, LoadIsLoaded
    <3>3. \A k \in F' : k \in F \/ (cut # "head" /\ k = Key(ParseFeedbackRecord(line)))
      BY <3>1, <3>2, AppendedKeys, LoadIsLoaded DEF RemovedIInv, FeedbackTypes
    <3> HIDE DEF line
    <3>4. CASE cut = "head"
      BY <3>3, <3>4 DEF Key
    <3>5. CASE cut # "head"
      <4> DEFINE key == Key(ParseFeedbackRecord(line))
      <4>1. key.id = w.id /\ key.class = w.class /\ key.value \in {w.value, "garbled"}
        BY <3>1, <3>5, ParsedKeeps DEF Key
      <4> QED
        BY <3>3, <4>1
    <3> QED
      BY <3>4, <3>5
  <2> QED
    BY <2>1, <2>2
<1> HIDE DEF F
<1>6. Stored' \subseteq Stored \cup {new} /\ F \subseteq Stored
  BY <1>2, <1>3, <1>5 DEF Stored, F
<1>7. /\ w.id = made /\ made <= MaxRecords /\ made \in Nat /\ made \notin removed
      /\ \A r \in Stored \cup Keys(kept) : r.id # made
      /\ \A r \in Stored \cup Keys(kept) : r.id <= made \/ r.id > MaxRecords
  BY <1>3 DEF RemovedIInv, WriterIsNew, FeedbackTypes
<1>8. Key(w).id = w.id /\ Key(w).class = w.class /\ Key(w).value = w.value
  BY DEF Key
<1>9. KeysAgree'
  <2>1. \A q, r \in Stored' : q.id = r.id => q = r
    BY <1>5, <1>6, <1>7 DEF RemovedIInv, KeysAgree
  <2>2. \A k \in Keys(kept)', r \in Stored' :
          k.id = r.id => k.class = r.class /\ r.value \in {k.value, "garbled"}
    BY <1>4, <1>5, <1>6, <1>7, <1>8 DEF RemovedIInv, KeysAgree
  <2> QED
    BY <2>1, <2>2 DEF KeysAgree
<1>10. WriterIsNew'
  <2>1. \A r \in Stored' \cup Keys(kept)' : r.id <= made \/ r.id > MaxRecords
    BY <1>4, <1>5, <1>6, <1>7, <1>8
  <2> QED
    BY <1>2, <1>3, <2>1 DEF WriterIsNew, RemovedIInv
<1>11. RemovedIsGone'
  <2>1. \A r \in F' : r.id \in removed => r.value = "garbled"
    BY <1>5, <1>7 DEF RemovedIInv, RemovedIsGone, F
  <2> QED
    BY <1>2, <1>3, <2>1 DEF RemovedIInv, RemovedIsGone, F
<1> QED
  BY <1>9, <1>10, <1>11

\* The dialog reads the file, and its exported file, for what it will write.
LEMMA ReadRemoved ==
    ASSUME RemovedIInv, UNCHANGED <<file, writer, exported, made, kept, removed>>,
           Keys(Read)' \subseteq Keys(LoadFeedbackRecords) \cup Keys(exported),
           dialog'.op # "delete" \/ Keys(Read)' \subseteq Keys(LoadFeedbackRecords),
           dialog'.op = "replace" => dialog'.records = exported,
           dialog'.op = "delete" =>
             \A r \in Keys(Read)' : ~(r.value = dialog'.value /\ r.class = dialog'.class)
    PROVE  KeysAgree' /\ WriterIsNew' /\ RemovedIsGone'
<1>1. LoadFeedbackRecords' = LoadFeedbackRecords
  BY DEF LoadFeedbackRecords
<1>2. Stored' \subseteq Stored
  BY <1>1 DEF Stored
<1> QED
  BY <1>1, <1>2 DEF RemovedIInv, KeysAgree, WriterIsNew, RemovedIsGone

\* DeleteWrite: what is removed now matches what the dialog has taken out, and a key
\* is the same in both.
LEMMA DeleteRemoved ==
    ASSUME RemovedIInv, DeleteWrite
    PROVE  KeysAgree' /\ WriterIsNew' /\ RemovedIsGone'
<1> DEFINE matching == Matching(kept, dialog.value, dialog.class)
<1>1. /\ dialog.op = "delete" /\ dialog' = Idle /\ WriteAtomically(dialog.records)
      /\ UNCHANGED <<writer, exported, made>>
      /\ removed' = removed \cup {r.id : r \in matching}
      /\ kept' = Remaining(kept, dialog.value, dialog.class)
  BY DEF DeleteWrite, Remaining
<1>2. Keys(LoadFeedbackRecords)' = Keys(Read) /\ Keys(Read)' = {} /\ dialog'.op = "none"
  BY <1>1, RenamedKeys, KeysOfRecords DEF Read, Idle, RemovedIInv, FeedbackTypes
<1>3. Stored' \subseteq Stored /\ Keys(Read) \subseteq Stored
  BY <1>1, <1>2 DEF Stored
<1>4. Keys(kept)' \subseteq Keys(kept)
  BY <1>1, RemainingKeys DEF RemovedIInv, FeedbackTypes
<1>5. \A r \in matching : /\ Key(r) \in Keys(kept) /\ Key(r).id = r.id
                          /\ Key(r).value = dialog.value /\ Key(r).class = dialog.class
  BY DEF Matching, Keys, Key
<1> HIDE DEF matching
<1>6. KeysAgree'
  BY <1>3, <1>4 DEF RemovedIInv, KeysAgree
<1>7. WriterIsNew'
  BY <1>1, <1>3, <1>4, <1>5 DEF RemovedIInv, WriterIsNew
<1>8. ASSUME NEW r \in Keys(Read), r.id \in removed'
      PROVE  r.value = "garbled"
  <2>1. CASE r.id \in removed
    BY <1>1, <2>1 DEF RemovedIInv, RemovedIsGone
  <2>2. CASE \E q \in matching : q.id = r.id
    <3>1. PICK k \in Keys(kept) : k.id = r.id /\ k.value = dialog.value /\ k.class = dialog.class
      BY <1>5, <2>2
    <3>2. r.class = dialog.class /\ r.value \in {dialog.value, "garbled"}
      BY <1>3, <3>1 DEF RemovedIInv, KeysAgree
    <3> QED
      BY <1>1, <3>2 DEF RemovedIInv, RemovedIsGone
  <2> QED
    BY <1>1, <1>8, <2>1, <2>2
<1>9. RemovedIsGone'
  BY <1>2, <1>8 DEF RemovedIsGone
<1> QED
  BY <1>6, <1>7, <1>9

\* ImportWrite: only what is imported comes back.
LEMMA ImportRemoved ==
    ASSUME RemovedIInv, ImportWrite
    PROVE  KeysAgree' /\ WriterIsNew' /\ RemovedIsGone'
<1> DEFINE left == IF dialog.op = "append" THEN kept ELSE << >>
<1>1. /\ dialog.op \in {"append", "replace"} /\ dialog' = Idle
      /\ WriteAtomically(dialog.records) /\ UNCHANGED <<writer, exported, made>>
      /\ kept' = left \o exported
      /\ removed' = (removed \cup (IdsOf(kept) \ IdsOf(left))) \ IdsOf(exported)
  BY DEF ImportWrite
<1>2. Keys(LoadFeedbackRecords)' = Keys(Read) /\ Keys(Read)' = {} /\ dialog'.op = "none"
  BY <1>1, RenamedKeys, KeysOfRecords DEF Read, Idle, RemovedIInv, FeedbackTypes
<1>3. Stored' \subseteq Stored /\ Keys(Read) \subseteq Stored /\ Keys(exported) \subseteq Stored
  BY <1>1, <1>2 DEF Stored
<1>4. Keys(kept)' \subseteq Keys(kept) \cup Keys(exported)
  <2>1. kept \in Seq(Record) /\ exported \in Seq(Record) /\ << >> \in Seq(Record)
    BY DEF RemovedIInv, FeedbackTypes
  <2>2. left \in Seq(Record) /\ Keys(left) \subseteq Keys(kept)
    BY <2>1, KeysOfRecords
  <2> HIDE DEF left
  <2> QED
    BY <1>1, <2>1, <2>2, KeysOfRecords
<1>5. \A i \in IdsOf(kept) : \E k \in Keys(kept) : k.id = i
  BY IdsOfKeys
<1>6. \A k \in Keys(exported) : k.id \in IdsOf(exported)
  BY IdsOfKeys
<1>7. dialog.op = "append" => IdsOf(kept) \ IdsOf(left) = {}
  OBVIOUS
<1> HIDE DEF left
<1>8. KeysAgree'
  BY <1>3, <1>4 DEF RemovedIInv, KeysAgree
<1>9. WriterIsNew'
  BY <1>1, <1>3, <1>4, <1>5 DEF RemovedIInv, WriterIsNew
<1>10. ASSUME NEW r \in Keys(Read), r.id \in removed'
       PROVE  r.value = "garbled"
  <2>1. r.id \notin IdsOf(exported) /\ r \notin Keys(exported)
    BY <1>1, <1>6, <1>10
  <2>2. dialog.op # "replace"
    BY <2>1 DEF RemovedIInv, RemovedIsGone, Read
  <2>3. r.id \in removed
    BY <1>1, <1>7, <1>10, <2>2
  <2> QED
    BY <2>1, <2>3 DEF RemovedIInv, RemovedIsGone
<1>11. RemovedIsGone'
  BY <1>2, <1>10 DEF RemovedIsGone
<1> QED
  BY <1>8, <1>9, <1>11

\* Every step keeps the three.
LEMMA StepRemoved ==
    ASSUME RemovedIInv, [FeedbackNext]_feedbackVars
    PROVE  KeysAgree' /\ WriterIsNew' /\ RemovedIsGone'
<1>0. /\ LoadFeedbackRecords \in Seq(Record) /\ exported \in Seq(Record)
      /\ << >> \in Seq(Record)
  BY LoadIsLoaded, LoadedRecords DEF RemovedIInv, FeedbackTypes
<1>1. file' = file => LoadFeedbackRecords' = LoadFeedbackRecords
  BY DEF LoadFeedbackRecords
<1>2. ASSUME NEW v, NEW c, Delete(v, c)
      PROVE  KeysAgree' /\ WriterIsNew' /\ RemovedIsGone'
  <2> DEFINE rest == Remaining(LoadFeedbackRecords, v, c)
  <2>1. /\ dialog' = [op |-> "delete", value |-> v, class |-> c, records |-> rest]
        /\ UNCHANGED <<file, writer, exported, made, kept, removed>>
    BY <1>2 DEF Delete, feedbackGhosts
  <2>2. /\ Keys(rest) \subseteq Keys(LoadFeedbackRecords)
        /\ \A r \in Keys(rest) : ~(r.value = v /\ r.class = c)
    BY <1>0, RemainingKeys
  <2> HIDE DEF rest
  <2>3. Read' = rest /\ dialog'.op = "delete" /\ dialog'.value = v /\ dialog'.class = c
    BY <2>1 DEF Read
  <2> QED
    BY <2>1, <2>2, <2>3, ReadRemoved
<1>3. ASSUME NEW mode \in {"append", "replace"}, Import(mode)
      PROVE  KeysAgree' /\ WriterIsNew' /\ RemovedIsGone'
  <2> DEFINE rs == (IF mode = "append" THEN LoadFeedbackRecords ELSE << >>) \o exported
  <2>1. /\ dialog' = [op |-> mode, records |-> rs]
        /\ UNCHANGED <<file, writer, exported, made, kept, removed>>
    BY <1>3 DEF Import, feedbackGhosts
  <2>2. /\ Keys(rs) \subseteq Keys(LoadFeedbackRecords) \cup Keys(exported)
        /\ mode = "replace" => rs = exported
    <3>1. Keys(<< >> \o exported) = Keys(exported) /\ << >> \o exported = exported
      BY <1>0
    <3>2. Keys(LoadFeedbackRecords \o exported) = Keys(LoadFeedbackRecords) \cup Keys(exported)
      BY <1>0, KeysOfRecords
    <3> QED
      BY <3>1, <3>2
  <2> HIDE DEF rs
  <2>3. Read' = rs /\ dialog'.op = mode /\ dialog'.records = rs
    BY <2>1 DEF Read
  <2> QED
    BY <2>1, <2>2, <2>3, ReadRemoved
<1>4. CASE AppendFails
  <2>1. Range(writer)' = {}
    BY <1>4 DEF AppendFails, Range
  <2> QED
    BY <1>1, <1>4, <2>1, NothingAdded DEF AppendFails, feedbackGhosts, RemovedIInv, Stored
<1>5. CASE DialogGivesUp
  BY <1>1, <1>5, NothingAdded DEF DialogGivesUp, feedbackGhosts, RemovedIInv, Stored
<1>6. CASE ExportToFile
  <2>1. dialog' = Idle /\ exported' = LoadFeedbackRecords
    BY <1>6 DEF ExportToFile
  <2> QED
    BY <1>1, <1>6, <2>1, NothingAdded DEF ExportToFile, feedbackGhosts, RemovedIInv, Stored
<1>7. CASE ClearAll
  <2>1. /\ UNCHANGED <<writer, exported, made>> /\ dialog = Idle /\ dialog' = Idle
        /\ removed' = removed \cup IdsOf(kept)
    BY <1>7 DEF ClearAll
  <2>2. /\ Keys(LoadFeedbackRecords)' = {} /\ Keys(kept)' = {} /\ Keys(Read)' = {}
        /\ dialog'.op = "none"
    BY <1>0, <1>7, RenamedKeys, KeysOfRecords DEF ClearAll, Read, Idle
  <2>3. Stored' \subseteq Stored
    BY <2>1, <2>2 DEF Stored
  <2>4. \A i \in IdsOf(kept) : \E k \in Keys(kept) : k.id = i
    BY IdsOfKeys
  <2>5. KeysAgree' /\ RemovedIsGone'
    BY <2>2, <2>3 DEF RemovedIInv, KeysAgree, RemovedIsGone
  <2>6. WriterIsNew'
    BY <2>1, <2>2, <2>3, <2>4 DEF RemovedIInv, WriterIsNew
  <2> QED
    BY <2>5, <2>6
<1>8. CASE UNCHANGED feedbackVars
  BY <1>1, <1>8, NothingAdded DEF feedbackVars, feedbackGhosts, RemovedIInv, Stored
<1> QED
  BY <1>2, <1>3, <1>4, <1>5, <1>6, <1>7, <1>8, OpenRemoved, WriteRemoved, DeleteRemoved,
     ImportRemoved DEF FeedbackNext

\* RemovedStaysRemoved for any number of records, edits, races and torn writes.  The
\* dialog may write what it read before; what keeps a removed record out is that only
\* the dialog removes, and that its own reading is what it removes from.
THEOREM RemovedIsNotBack == FeedbackSpec => []RemovedStaysRemoved
<1>1. FeedbackInit => RemovedIInv
  BY FirstRemoved
<1>2. RemovedIInv /\ [FeedbackNext]_feedbackVars => RemovedIInv'
  BY StepTypes, StepRemoved DEF RemovedIInv
<1>3. RemovedIInv => RemovedStaysRemoved
  <2> SUFFICES ASSUME RemovedIInv, NEW r \in Range(LoadFeedbackRecords), r.id \in removed
               PROVE  r.value = "garbled"
    BY DEF RemovedStaysRemoved
  <2>1. Key(r) \in Keys(LoadFeedbackRecords) /\ Key(r).id = r.id /\ Key(r).value = r.value
    BY DEF Keys, Key
  <2> QED
    BY <2>1 DEF RemovedIInv, RemovedIsGone
<1> QED
  BY <1>1, <1>2, <1>3, PTL DEF FeedbackSpec

-----------------------------------------------------------------------------
\* What a tear costs.  Counting records is not enough: a removal takes from the file
\* the records of one value, and has to take as many from those the user should have.
\* So each record the user should have, but for n, is found in the file at a place of
\* its own, with the value and the class that decide whether a removal meets it.
Same(q, r) == q.value = r.value /\ q.class = r.class

Finds(D, f, ks, rs) ==
    /\ D \subseteq 1 .. Len(ks) /\ f \in [D -> 1 .. Len(rs)]
    /\ \A i \in D : Same(ks[i], rs[f[i]])
    /\ \A i, j \in D : f[i] = f[j] => i = j

Survive(ks, rs, n) ==
    \E D, f : Finds(D, f, ks, rs) /\ Cardinality((1 .. Len(ks)) \ D) <= n

\* A set each of whose elements has an element of another one to itself is not larger.
LEMMA OneToOne ==
    ASSUME NEW A, IsFiniteSet(A), NEW B, IsFiniteSet(B), NEW f \in [A -> B],
           \A i, j \in A : f[i] = f[j] => i = j
    PROVE  Cardinality(A) <= Cardinality(B)
<1>1. Cardinality(A) \in Nat /\ Cardinality(B) \in Nat
  BY FS_CardinalityType
<1>2. ~(Cardinality(B) < Cardinality(A))
  <2> SUFFICES ASSUME Cardinality(B) < Cardinality(A) PROVE FALSE
    OBVIOUS
  <2>1. \E i, j \in A : i # j /\ f[i] = f[j]
    BY FS_PigeonHole
  <2> QED
    BY <2>1
<1> QED
  BY <1>1, <1>2

\* The places of a list.
LEMMA Places ==
    ASSUME NEW n \in Nat
    PROVE  /\ IsFiniteSet(1 .. n) /\ Cardinality(1 .. n) = n
           /\ \A D : /\ IsFiniteSet((1 .. n) \ D)
                     /\ Cardinality((1 .. n) \ D) \in Nat
<1>1. IsFiniteSet(1 .. n) /\ Cardinality(1 .. n) = IF 1 > n THEN 0 ELSE n - 1 + 1
  BY FS_Interval
<1>2. Cardinality(1 .. n) = n
  BY <1>1
<1>3. ASSUME NEW D
      PROVE  IsFiniteSet((1 .. n) \ D) /\ Cardinality((1 .. n) \ D) \in Nat
  <2>1. IsFiniteSet((1 .. n) \ D)
    BY <1>1, FS_Difference
  <2> QED
    BY <2>1, FS_CardinalityType
<1>4. IsFiniteSet(1 .. n)
  BY <1>1
<1> QED
  BY ONLY <1>2, <1>3, <1>4

\* What survives is counted.
LEMMA SurvivorsCount ==
    ASSUME NEW ks \in Seq(Record), NEW rs \in Seq(Record), NEW n \in Nat, Survive(ks, rs, n)
    PROVE  Len(ks) <= Len(rs) + n
<1>1. PICK D, f : Finds(D, f, ks, rs) /\ Cardinality((1 .. Len(ks)) \ D) <= n
  BY DEF Survive
<1>2. Len(ks) \in Nat /\ Len(rs) \in Nat
  OBVIOUS
<1>3. /\ IsFiniteSet(1 .. Len(ks)) /\ Cardinality(1 .. Len(ks)) = Len(ks)
      /\ IsFiniteSet(1 .. Len(rs)) /\ Cardinality(1 .. Len(rs)) = Len(rs)
      /\ Cardinality((1 .. Len(ks)) \ D) \in Nat
  BY <1>2, Places
<1>4. D \in SUBSET (1 .. Len(ks)) /\ (1 .. Len(ks)) \cap D = D
  BY <1>1 DEF Finds
<1>5. IsFiniteSet(D)
  BY <1>3, <1>4, FS_Subset
<1>6. Cardinality(D) \in Nat
  BY <1>5, FS_CardinalityType
<1>7. Cardinality(D) <= Len(rs)
  <2>1. f \in [D -> 1 .. Len(rs)] /\ \A i, j \in D : f[i] = f[j] => i = j
    BY <1>1 DEF Finds
  <2>2. Cardinality(D) <= Cardinality(1 .. Len(rs))
    BY <1>3, <1>5, <2>1, OneToOne
  <2> QED
    BY <1>3, <2>2
<1>8. Cardinality((1 .. Len(ks)) \ D) = Len(ks) - Cardinality(D)
  <2>1. Cardinality((1 .. Len(ks)) \ D)
          = Cardinality(1 .. Len(ks)) - Cardinality((1 .. Len(ks)) \cap D)
    BY <1>3, FS_Difference
  <2> QED
    BY <1>3, <1>4, <2>1
<1>9. Cardinality((1 .. Len(ks)) \ D) <= n
  BY <1>1
<1> QED
  BY <1>2, <1>6, <1>7, <1>8, <1>9

\* A list survives in itself, and in a list that agrees with it and is longer.
LEMMA SurviveAll ==
    ASSUME NEW ks \in Seq(Record)
    PROVE  Survive(ks, ks, 0)
<1> DEFINE f == [i \in 1 .. Len(ks) |-> i]
<1>1. Finds(1 .. Len(ks), f, ks, ks)
  BY DEF Finds, Same
<1>2. (1 .. Len(ks)) \ (1 .. Len(ks)) = {}
  OBVIOUS
<1>3. Cardinality((1 .. Len(ks)) \ (1 .. Len(ks))) <= 0
  <2>1. Cardinality({}) = 0
    BY FS_EmptySet
  <2>2. Cardinality((1 .. Len(ks)) \ (1 .. Len(ks))) = 0
    BY ONLY <1>2, <2>1, Zenon
  <2> QED
    BY <2>2
<1> QED
  BY <1>1, <1>3 DEF Survive

LEMMA SurviveIn ==
    ASSUME NEW ks \in Seq(Record), NEW rs \in Seq(Record), NEW rs2 \in Seq(Record),
           NEW n \in Nat, NEW m \in Nat, n <= m, Survive(ks, rs, n),
           Len(rs) <= Len(rs2), \A i \in 1 .. Len(rs) : Same(rs[i], rs2[i])
    PROVE  Survive(ks, rs2, m)
<1>1. PICK D, f : Finds(D, f, ks, rs) /\ Cardinality((1 .. Len(ks)) \ D) <= n
  BY DEF Survive
<1>2. Finds(D, f, ks, rs2)
  <2>1. Len(rs) \in Nat /\ Len(rs2) \in Nat /\ 1 .. Len(rs) \subseteq 1 .. Len(rs2)
    OBVIOUS
  <2>2. f \in [D -> 1 .. Len(rs)] /\ \A i \in D : Same(ks[i], rs[f[i]])
    BY <1>1 DEF Finds
  <2>3. f \in [D -> 1 .. Len(rs2)]
    BY <2>1, <2>2
  <2>4. ASSUME NEW i \in D PROVE Same(ks[i], rs2[f[i]])
    BY <2>2 DEF Same
  <2> QED
    BY <1>1, <2>3, <2>4 DEF Finds
<1>3. Cardinality((1 .. Len(ks)) \ D) <= m
  <2>0. Len(ks) \in Nat
    OBVIOUS
  <2>1. Cardinality((1 .. Len(ks)) \ D) \in Nat
    BY <2>0, Places
  <2>2. Cardinality((1 .. Len(ks)) \ D) <= n
    BY <1>1
  <2> QED
    BY <2>1, <2>2
<1> QED
  BY <1>2, <1>3 DEF Survive

\* One more record, that is lost.
LEMMA SurviveLost ==
    ASSUME NEW ks \in Seq(Record), NEW rs \in Seq(Record), NEW n \in Nat, Survive(ks, rs, n),
           NEW w \in Record
    PROVE  Survive(ks \o <<w>>, rs, n + 1)
<1>1. PICK D, f : Finds(D, f, ks, rs) /\ Cardinality((1 .. Len(ks)) \ D) <= n
  BY DEF Survive
<1>2. PICK longer : longer = ks \o <<w>>
  OBVIOUS
<1>3. /\ Len(ks) \in Nat /\ longer \in Seq(Record) /\ Len(longer) = Len(ks) + 1
      /\ \A i \in 1 .. Len(ks) : longer[i] = ks[i]
  BY <1>2
<1>4. Finds(D, f, longer, rs)
  <2>1. D \subseteq 1 .. Len(longer)
    BY <1>1, <1>3 DEF Finds
  <2>2. \A i \in D : Same(longer[i], rs[f[i]])
    BY <1>1, <1>3 DEF Finds
  <2> QED
    BY <1>1, <2>1, <2>2 DEF Finds
<1>5. D \subseteq 1 .. Len(ks)
  BY <1>1 DEF Finds
<1>6. (1 .. Len(longer)) \ D = ((1 .. Len(ks)) \ D) \cup {Len(ks) + 1}
  BY <1>3, <1>5
<1>7. IsFiniteSet((1 .. Len(ks)) \ D) /\ Cardinality((1 .. Len(ks)) \ D) \in Nat
  BY <1>3, Places
<1>8. Cardinality((1 .. Len(longer)) \ D) = Cardinality((1 .. Len(ks)) \ D) + 1
  <2>1. Len(ks) + 1 \notin (1 .. Len(ks)) \ D
    BY <1>3
  <2> QED
    BY <1>6, <1>7, <2>1, FS_AddElement
<1>9. Cardinality((1 .. Len(longer)) \ D) <= n + 1
  <2>1. Cardinality((1 .. Len(ks)) \ D) <= n
    BY <1>1
  <2> QED
    BY <1>7, <1>8, <2>1
<1> QED
  BY <1>2, <1>4, <1>9 DEF Survive

\* The same records at the end of both.
LEMMA SurviveConcat ==
    ASSUME NEW ks \in Seq(Record), NEW rs \in Seq(Record), NEW n, Survive(ks, rs, n),
           NEW xs \in Seq(Record)
    PROVE  Survive(ks \o xs, rs \o xs, n)
<1>1. PICK D, f : Finds(D, f, ks, rs) /\ Cardinality((1 .. Len(ks)) \ D) <= n
  BY DEF Survive
<1>2. PICK k, r, x, longer, more :
        k = Len(ks) /\ r = Len(rs) /\ x = Len(xs) /\ longer = ks \o xs /\ more = rs \o xs
  OBVIOUS
<1>3. /\ k \in Nat /\ r \in Nat /\ x \in Nat
      /\ Len(longer) = k + x /\ \A i \in 1 .. k : longer[i] = ks[i]
      /\ \A i \in 1 .. x : longer[k + i] = xs[i]
      /\ Len(more) = r + x /\ \A i \in 1 .. r : more[i] = rs[i]
      /\ \A i \in 1 .. x : more[r + i] = xs[i]
  BY <1>2
<1>4. /\ D \subseteq 1 .. k /\ f \in [D -> 1 .. r]
      /\ \A i \in D : Same(ks[i], rs[f[i]])
      /\ \A i, j \in D : f[i] = f[j] => i = j
  BY <1>1, <1>2 DEF Finds
<1> DEFINE E == D \cup (k + 1 .. k + x)
           g == [i \in E |-> IF i <= k THEN f[i] ELSE r + (i - k)]
<1>5. /\ E \subseteq 1 .. k + x
      /\ \A i \in E : (i <= k /\ i \in D) \/ (i > k /\ i - k \in 1 .. x /\ i \notin D)
  BY <1>3, <1>4
<1>6. \A i \in E : (i \in D => g[i] = f[i] /\ i <= k) /\ (i > k => g[i] = r + (i - k))
  BY <1>3, <1>4
<1>7. g \in [E -> 1 .. r + x]
  BY <1>3, <1>4
<1> HIDE DEF E, g
<1>8. ASSUME NEW i \in E PROVE Same(longer[i], more[g[i]])
  <2>1. CASE i <= k
    <3>0. i \in Nat
      BY <1>3, <1>5
    <3>1. i \in D /\ g[i] = f[i] /\ f[i] \in 1 .. r
      BY <1>3, <1>4, <1>5, <1>6, <2>1, <3>0
    <3>2. longer[i] = ks[i] /\ more[g[i]] = rs[f[i]]
      BY <1>3, <1>4, <3>1
    <3> QED
      BY <1>4, <3>1, <3>2
  <2>2. CASE i > k
    <3>1. i - k \in 1 .. x /\ g[i] = r + (i - k) /\ i = k + (i - k)
      BY <1>3, <1>5, <1>6, <2>2
    <3>2. longer[i] = xs[i - k] /\ more[g[i]] = xs[i - k]
      BY <1>3, <3>1
    <3> QED
      BY <3>2 DEF Same
  <2> QED
    BY <1>3, <1>5, <2>1, <2>2
<1>9. ASSUME NEW i \in E, NEW j \in E, g[i] = g[j] PROVE i = j
  <2>1. i \in Nat /\ j \in Nat
    BY <1>3, <1>5
  <2>2. CASE i \in D /\ j \in D
    BY <1>4, <1>6, <1>9, <2>2
  <2>3. CASE i > k /\ j > k
    BY <1>3, <1>6, <1>9, <2>1, <2>3
  <2>4. CASE i \in D /\ j > k
    BY <1>3, <1>4, <1>6, <1>9, <2>1, <2>4
  <2>5. CASE i > k /\ j \in D
    BY <1>3, <1>4, <1>6, <1>9, <2>1, <2>5
  <2> QED
    BY <1>5, <2>2, <2>3, <2>4, <2>5
<1>10. Finds(E, g, longer, more)
  BY <1>3, <1>5, <1>7, <1>8, <1>9 DEF Finds
<1>11. (1 .. Len(longer)) \ E = (1 .. Len(ks)) \ D
  BY <1>2, <1>3, <1>4 DEF E
<1>12. Cardinality((1 .. Len(longer)) \ E) <= n
  BY <1>1, <1>11
<1> QED
  BY <1>2, <1>10, <1>12 DEF Survive

\* A removal meets the records of both lists that were found in each other.
LEMMA SurviveRemaining ==
    ASSUME NEW ks \in Seq(Record), NEW rs \in Seq(Record), NEW n \in Nat, Survive(ks, rs, n),
           NEW v, NEW c
    PROVE  Survive(Remaining(ks, v, c), Remaining(rs, v, c), n)
<1> DEFINE Stays(qs) == Range(qs) \ Matching(qs, v, c)
<1>1. PICK D, f : Finds(D, f, ks, rs) /\ Cardinality((1 .. Len(ks)) \ D) <= n
  BY DEF Survive
<1>2. PICK kl, rl : kl = Remaining(ks, v, c) /\ rl = Remaining(rs, v, c)
  OBVIOUS
<1>3. kl = Selection(ks, Stays(ks)) /\ rl = Selection(rs, Stays(rs))
  BY <1>2 DEF Remaining
<1>4. PICK a : Picks(a, kl, ks, Len(ks)) /\ PicksAll(a, ks, Stays(ks), Len(ks))
  <2>1. \E where : /\ Picks(where, Selection(ks, Stays(ks)), ks, Len(ks))
                   /\ PicksAll(where, ks, Stays(ks), Len(ks))
    BY SelectionKeeps
  <2> QED
    BY <1>3, <2>1
<1>5. PICK b : Picks(b, rl, rs, Len(rs)) /\ PicksAll(b, rs, Stays(rs), Len(rs))
  <2>1. \E where : /\ Picks(where, Selection(rs, Stays(rs)), rs, Len(rs))
                   /\ PicksAll(where, rs, Stays(rs), Len(rs))
    BY SelectionKeeps
  <2> QED
    BY <1>3, <2>1
<1>6. /\ kl \in Seq(Record) /\ Range(kl) = Stays(ks)
      /\ rl \in Seq(Record)
  BY <1>2, RemainingRecords
<1>7. PICK k, r, kn, rn : k = Len(ks) /\ r = Len(rs) /\ kn = Len(kl) /\ rn = Len(rl)
  OBVIOUS
<1>8. /\ k \in Nat /\ r \in Nat /\ kn \in Nat /\ rn \in Nat
      /\ DOMAIN ks = 1 .. k /\ DOMAIN rs = 1 .. r /\ DOMAIN kl = 1 .. kn /\ DOMAIN rl = 1 .. rn
  BY <1>6, <1>7
<1>9. /\ D \subseteq 1 .. k /\ f \in [D -> 1 .. r]
      /\ \A i \in D : Same(ks[i], rs[f[i]])
      /\ \A i, j \in D : f[i] = f[j] => i = j
  BY <1>1, <1>7 DEF Finds
<1>10. /\ a \in [1 .. kn -> 1 .. k] /\ \A i \in 1 .. kn : kl[i] = ks[a[i]]
       /\ \A i, j \in 1 .. kn : i < j => a[i] < a[j]
  BY <1>4, <1>7 DEF Picks
<1>11. /\ b \in [1 .. rn -> 1 .. r] /\ \A j \in 1 .. rn : rl[j] = rs[b[j]]
       /\ \A i \in 1 .. r : rs[i] \in Stays(rs) => \E j \in 1 .. rn : b[j] = i
  BY <1>5, <1>7 DEF Picks, PicksAll
<1>12. \A i, j \in 1 .. kn : a[i] = a[j] => i = j
  <2> SUFFICES ASSUME NEW i \in 1 .. kn, NEW j \in 1 .. kn, a[i] = a[j] PROVE i = j
    OBVIOUS
  <2>1. a[i] \in Nat /\ i \in Nat /\ j \in Nat
    BY <1>8, <1>10
  <2>2. ~(i < j) /\ ~(j < i)
    BY <1>10, <2>1
  <2> QED
    BY <2>1, <2>2
<1>13. ASSUME NEW i \in 1 .. kn, a[i] \in D
       PROVE  \E j \in 1 .. rn : b[j] = f[a[i]]
  <2>1. kl[i] \in Stays(ks) /\ kl[i] = ks[a[i]]
    BY <1>6, <1>8, <1>10 DEF Range
  <2>2. ~(ks[a[i]].value = v /\ ks[a[i]].class = c)
    BY <2>1 DEF Matching
  <2>3. f[a[i]] \in 1 .. r /\ ~(rs[f[a[i]]].value = v /\ rs[f[a[i]]].class = c)
    BY <1>9, <1>13, <2>2 DEF Same
  <2>4. rs[f[a[i]]] \in Stays(rs)
    BY <1>8, <2>3 DEF Range, Matching
  <2> QED
    BY <1>11, <2>3, <2>4
<1> HIDE DEF Stays
<1> DEFINE E == {i \in 1 .. kn : a[i] \in D}
           g == [i \in E |-> CHOOSE j \in 1 .. rn : b[j] = f[a[i]]]
<1>14. \A i \in E : g[i] \in 1 .. rn /\ b[g[i]] = f[a[i]]
  BY <1>13
<1>15. g \in [E -> 1 .. rn]
  BY <1>14
<1>16. \A i \in E : i \in 1 .. kn /\ a[i] \in D
  OBVIOUS
<1> HIDE DEF g
<1>17. ASSUME NEW i \in E PROVE Same(kl[i], rl[g[i]])
  <2>1. kl[i] = ks[a[i]] /\ rl[g[i]] = rs[f[a[i]]]
    BY <1>10, <1>11, <1>14, <1>16
  <2> QED
    BY <1>9, <1>16, <2>1
<1>18. ASSUME NEW i \in E, NEW j \in E, g[i] = g[j] PROVE i = j
  <2>1. f[a[i]] = f[a[j]] /\ a[i] \in D /\ a[j] \in D
    BY <1>14, <1>16, <1>18
  <2>2. a[i] = a[j]
    BY <1>9, <2>1
  <2> QED
    BY <1>12, <1>16, <2>2
<1>19. Finds(E, g, kl, rl)
  BY <1>7, <1>15, <1>16, <1>17, <1>18 DEF Finds
<1>20. Cardinality((1 .. kn) \ E) <= n
  <2> DEFINE Lost == (1 .. kn) \ E
             Was == (1 .. k) \ D
             h == [i \in Lost |-> a[i]]
  <2>1. h \in [Lost -> Was]
    BY <1>10
  <2>2. \A i, j \in Lost : h[i] = h[j] => i = j
    BY <1>12
  <2>3. IsFiniteSet(Lost) /\ Cardinality(Lost) \in Nat /\ IsFiniteSet(Was) /\ Cardinality(Was) \in Nat
    BY <1>8, Places
  <2>4. Cardinality(Was) <= n
    BY <1>1, <1>7
  <2> HIDE DEF Lost, Was, h
  <2>5. Cardinality(Lost) <= Cardinality(Was)
    BY <2>1, <2>2, <2>3, OneToOne
  <2>6. Cardinality(Lost) <= n
    BY <2>3, <2>4, <2>5
  <2> QED
    BY <2>6 DEF Lost
<1> QED
  BY <1>2, <1>7, <1>19, <1>20 DEF Survive

\* One more line is read as one more record, if it can be read.
LEMMA LoadedOneMore ==
    ASSUME NEW f \in Seq(Line), NEW l \in Line
    PROVE  Loaded(Append(f, l)) = IF l.cut = "head" THEN Loaded(f)
                                  ELSE Append(Loaded(f), ParseFeedbackRecord(l))
<1> DEFINE Readable(ls) == {m \in Range(ls) : m.cut # "head"}
           Parsed(ls) == [i \in 1 .. Len(ls) |-> ParseFeedbackRecord(ls[i])]
<1>1. PICK longer, T, U, lines, ft :
         /\ longer = Append(f, l) /\ T = Readable(longer) /\ U = Readable(f)
         /\ lines = Selection(f, U) /\ ft = Selection(longer, T)
  OBVIOUS
<1>2. Loaded(longer) = Parsed(ft) /\ Loaded(f) = Parsed(lines)
  BY <1>1 DEF Loaded
<1>3. /\ Len(f) \in Nat /\ longer \in Seq(Line) /\ Len(longer) = Len(f) + 1
      /\ longer[Len(f) + 1] = l /\ \A i \in 1 .. Len(f) : longer[i] = f[i]
      /\ DOMAIN f = 1 .. Len(f) /\ DOMAIN longer = 1 .. Len(f) + 1
  BY <1>1
<1>4. ASSUME NEW i \in 1 .. Len(f) PROVE f[i] \in T <=> f[i] \in U
  <2>1. f[i] \in Range(f) /\ f[i] \in Range(longer)
    BY <1>3 DEF Range
  <2> QED
    BY <1>1, <2>1
<1>5. l \in T <=> l.cut # "head"
  <2>1. l \in Range(longer)
    BY <1>3 DEF Range
  <2> QED
    BY <1>1, <2>1
<1>6. ft = IF l \in T THEN Append(lines, l) ELSE lines
  <2>1. \A i \in 1 .. Len(f) : f[i] \in T <=> f[i] \in U
    BY <1>4
  <2>2. Selection(Append(f, l), T)
          = IF l \in T THEN Append(Selection(f, U), l) ELSE Selection(f, U)
    BY ONLY <2>1, f \in Seq(Line), l \in Line, SelectionOfAppended
  <2> QED
    BY <1>1, <2>2
<1>7. lines \in Seq(Line)
  BY <1>1, SelectionKeeps
<1>8. CASE l.cut = "head"
  BY <1>1, <1>2, <1>5, <1>6, <1>8
<1>9. CASE l.cut # "head"
  <2>1. ft = Append(lines, l)
    BY <1>5, <1>6, <1>9
  <2>2. /\ Len(lines) \in Nat /\ Len(ft) = Len(lines) + 1
        /\ ft[Len(lines) + 1] = l /\ \A i \in 1 .. Len(lines) : ft[i] = lines[i]
    BY <1>7, <2>1
  <2>3. Parsed(lines) \in Seq(Record) /\ Len(Parsed(lines)) = Len(lines)
    <3>1. Parsed(lines) \in Seq(Record)
      BY <1>2, LoadedRecords
    <3> QED
      BY <2>2, <3>1
  <2>4. Parsed(ft) \in Seq(Record)
    BY <1>2, <1>3, LoadedRecords
  <2>5. ParseFeedbackRecord(l) \in Record
    BY <1>9, ParsedKeeps
  <2>6. /\ DOMAIN Parsed(ft) = 1 .. Len(lines) + 1
        /\ \A i \in 1 .. Len(lines) : Parsed(ft)[i] = Parsed(lines)[i]
        /\ Parsed(ft)[Len(lines) + 1] = ParseFeedbackRecord(l)
    BY <2>2
  <2>7. PICK p, q, m : p = Parsed(lines) /\ q = Parsed(ft) /\ m = Len(lines)
    OBVIOUS
  <2>8. q = Append(p, ParseFeedbackRecord(l))
    <3> HIDE DEF Parsed
    <3>1. /\ p \in Seq(Record) /\ q \in Seq(Record) /\ Len(p) = m /\ m \in Nat
          /\ DOMAIN q = 1 .. m + 1 /\ \A i \in 1 .. m : q[i] = p[i]
          /\ q[m + 1] = ParseFeedbackRecord(l)
      BY <2>2, <2>3, <2>4, <2>6, <2>7
    <3>2. Len(q) = m + 1
      BY <3>1
    <3> QED
      BY ONLY <2>5, <3>1, <3>2
  <2> QED
    BY <1>1, <1>2, <1>9, <2>7, <2>8
<1> QED
  BY <1>8, <1>9

\* A write after a line without a newline makes that one longer: what is read is as
\* much as before, and of the same values and classes.
LEMMA AppendedLoaded ==
    ASSUME file \in Seq(Line), unended => file # << >>, NEW line \in Line
    PROVE  /\ ~unended => Loaded(Appended(line)) =
                IF line.cut = "head" THEN Loaded(file)
                ELSE Append(Loaded(file), ParseFeedbackRecord(line))
           /\ unended => /\ Len(Loaded(Appended(line))) = Len(Loaded(file))
                         /\ \A i \in 1 .. Len(Loaded(file)) :
                              Same(Loaded(file)[i], Loaded(Appended(line))[i])
<1>1. CASE ~unended
  BY <1>1, LoadedOneMore DEF Appended
<1>2. CASE unended
  <2>1. PICK n, last, cut :
           n = Len(file) /\ last = file[n] /\ cut = (IF last.cut = "end" THEN "reason" ELSE last.cut)
    OBVIOUS
  <2>2. n \in Nat \ {0} /\ last \in Line /\ DOMAIN file = 1 .. n
    BY <1>2, <2>1
  <2>3. PICK front : front = [i \in 1 .. n - 1 |-> file[i]]
    OBVIOUS
  <2>4. front \in Seq(Line) /\ Len(front) = n - 1
    <3>1. front \in [1 .. n - 1 -> Line] /\ n - 1 \in Nat
      BY <2>1, <2>2, <2>3
    <3> QED
      BY <3>1, SeqDef
  <2>5. PICK torn : torn = [last EXCEPT !.cut = cut]
    OBVIOUS
  <2>6. torn \in Line /\ torn.rec = last.rec /\ torn.cut = cut
    BY <2>1, <2>2, <2>5 DEF Line, Cut
  <2>7. file = Append(front, last)
    <3>1. Append(front, last) \in Seq(Line) /\ Len(Append(front, last)) = n
      BY <2>2, <2>4
    <3>2. \A i \in 1 .. n : Append(front, last)[i] = file[i]
      BY <2>1, <2>2, <2>3, <2>4
    <3> QED
      BY <2>1, <3>1, <3>2
  <2>8. Appended(line) = Append(front, torn)
    <3>1. Appended(line) = [file EXCEPT ![n].cut = cut]
      BY <1>2, <2>1 DEF Appended
    <3>2. [file EXCEPT ![n].cut = cut] = [file EXCEPT ![n] = torn]
      BY <2>1, <2>5
    <3>3. PICK g : g = [file EXCEPT ![n] = torn]
      OBVIOUS
    <3>4. DOMAIN g = 1 .. n /\ g[n] = torn /\ \A i \in 1 .. n - 1 : g[i] = front[i]
      BY <2>2, <2>3, <3>3
    <3>5. g \in Seq(Line) /\ Len(g) = n
      <4>1. g \in [1 .. n -> Line]
        BY <2>1, <2>2, <2>6, <3>3
      <4> QED
        BY <2>2, <4>1, SeqDef
    <3>6. Append(front, torn) \in Seq(Line) /\ Len(Append(front, torn)) = n
      BY <2>2, <2>4, <2>6
    <3>7. \A i \in 1 .. n : Append(front, torn)[i] = g[i]
      BY <2>2, <2>4, <2>6, <3>4
    <3>8. g = Append(front, torn)
      BY <3>5, <3>6, <3>7
    <3> QED
      BY <3>1, <3>2, <3>3, <3>8
  <2>9. /\ Loaded(file) = IF last.cut = "head" THEN Loaded(front)
                          ELSE Append(Loaded(front), ParseFeedbackRecord(last))
        /\ Loaded(Appended(line)) = IF cut = "head" THEN Loaded(front)
                                    ELSE Append(Loaded(front), ParseFeedbackRecord(torn))
    BY <2>2, <2>4, <2>6, <2>7, <2>8, LoadedOneMore
  <2>10. Loaded(front) \in Seq(Record)
    BY <2>4, LoadedRecords
  <2>11. CASE last.cut = "head"
    <3>1. cut = "head"
      BY <2>1, <2>11
    <3> QED
      BY <1>2, <2>9, <2>11, <3>1 DEF Same
  <2>12. CASE last.cut # "head"
    <3>1. cut # "head" /\ (cut = "value" <=> last.cut = "value")
      BY <2>1, <2>12
    <3>2. PICK p, x, y : /\ p = Loaded(front) /\ x = ParseFeedbackRecord(last)
                         /\ y = ParseFeedbackRecord(torn)
      OBVIOUS
    <3>3. /\ x \in Record /\ x.class = last.rec.class
          /\ x.value = IF last.cut = "value" THEN "garbled" ELSE last.rec.value
      BY <2>2, <2>12, <3>2, ParsedKeeps
    <3>4. /\ y \in Record /\ y.class = torn.rec.class
          /\ y.value = IF torn.cut = "value" THEN "garbled" ELSE torn.rec.value
      BY <2>6, <3>1, <3>2, ParsedKeeps
    <3>5. Same(x, y)
      BY <2>6, <3>1, <3>3, <3>4 DEF Same
    <3>6. Loaded(file) = Append(p, x) /\ Loaded(Appended(line)) = Append(p, y)
      BY <2>9, <2>12, <3>1, <3>2
    <3>7. /\ Len(Append(p, y)) = Len(Append(p, x))
          /\ \A i \in 1 .. Len(Append(p, x)) : Same(Append(p, x)[i], Append(p, y)[i])
      <4>1. /\ p \in Seq(Record) /\ Len(p) \in Nat
            /\ Len(Append(p, x)) = Len(p) + 1 /\ Len(Append(p, y)) = Len(p) + 1
            /\ Append(p, x)[Len(p) + 1] = x /\ Append(p, y)[Len(p) + 1] = y
            /\ \A i \in 1 .. Len(p) : Append(p, x)[i] = p[i] /\ Append(p, y)[i] = p[i]
        BY <2>10, <3>2, <3>3, <3>4
      <4>2. \A i \in 1 .. Len(p) : Same(Append(p, x)[i], Append(p, y)[i])
        BY <4>1 DEF Same
      <4>3. Same(Append(p, x)[Len(p) + 1], Append(p, y)[Len(p) + 1])
        BY <3>5, <4>1
      <4>4. 1 .. Len(p) + 1 = 1 .. Len(p) \cup {Len(p) + 1}
        BY <4>1
      <4> QED
        BY <4>1, <4>2, <4>3, <4>4
    <3> QED
      BY <1>2, <3>6, <3>7
  <2> QED
    BY <2>11, <2>12
<1> QED
  BY <1>1, <1>2

\* What a torn write may have cost so far: its record, and the next one's once that is
\* written after the line without a newline.
FileFinds ==
    /\ Survive(kept, LoadFeedbackRecords, IF unended THEN 2 * tears - 1 ELSE 2 * tears)
    /\ unended => tears >= 1

\* What the dialog is about to write is what it made of the records that are read now.
DialogIsOf(d, rs, tsv) ==
    /\ d.op = "delete" => d.records = Remaining(rs, d.value, d.class)
    /\ d.op = "append" => d.records = rs \o tsv
    /\ d.op = "replace" => d.records = tsv

TearIInv ==
    FeedbackTypes /\ (~raced => FileFinds /\ DialogIsOf(dialog, LoadFeedbackRecords, exported))

\* An append that meets no rewrite.
LEMMA WriteFinds ==
    ASSUME TearIInv, NEW cut \in Cut, AppendWrite(cut), ~raced'
    PROVE  FileFinds' /\ DialogIsOf(dialog', LoadFeedbackRecords', exported')
<1>1. /\ ~raced /\ ~stale /\ dialog.op \notin {"append", "delete"}
      /\ dialog' = dialog /\ exported' = exported
      /\ tears' = IF cut = "no" THEN tears ELSE tears + 1
  BY DEF AppendWrite
<1>2. PICK w \in Record :
           /\ kept' = kept \o <<w>>
           /\ file' = Appended([rec |-> w, cut |-> cut]) /\ unended' = (cut # "no")
  BY <1>1, WriteStep DEF TearIInv
<1>3. PICK line : line = [rec |-> w, cut |-> cut]
  OBVIOUS
<1>4. line \in Line /\ line.rec = w /\ line.cut = cut
  BY <1>3 DEF Line
<1>5. /\ file \in Seq(Line) /\ kept \in Seq(Record) /\ (unended => file # << >>)
      /\ tears \in Nat
  BY DEF TearIInv, FeedbackTypes
<1>6. PICK ks, rs, rs2, t : /\ ks = kept /\ rs = Loaded(file) /\ rs2 = Loaded(file') /\ t = tears
  OBVIOUS
<1>7. /\ Survive(ks, rs, IF unended THEN 2 * t - 1 ELSE 2 * t)
      /\ unended => t >= 1
      /\ DialogIsOf(dialog, rs, exported)
  BY <1>1, <1>6, LoadIsLoaded DEF TearIInv, FileFinds
<1>8. ks \in Seq(Record) /\ rs \in Seq(Record) /\ t \in Nat
  BY <1>5, <1>6, LoadedRecords
<1>9. rs2 \in Seq(Record)
  <2>1. file' \in Seq(Line)
    BY <1>2, <1>3, <1>4, <1>5, AppendedLines
  <2> QED
    BY <1>6, <2>1, LoadedRecords
<1>10. kept' = ks \o <<w>> /\ ks \o <<w>> \in Seq(Record)
  BY <1>2, <1>6, <1>8
<1>11. Survive(ks \o <<w>>, rs2, IF cut = "no" THEN 2 * tears' ELSE 2 * tears' - 1)
  <2>1. CASE unended
    <3>1. Len(rs2) = Len(rs) /\ \A i \in 1 .. Len(rs) : Same(rs[i], rs2[i])
      BY <1>2, <1>3, <1>4, <1>5, <1>6, <2>1, AppendedLoaded
    <3>2. 2 * t - 1 \in Nat /\ Survive(ks, rs, 2 * t - 1)
      BY <1>7, <1>8, <2>1
    <3>3. Survive(ks \o <<w>>, rs, 2 * t - 1 + 1)
      BY <1>8, <3>2, SurviveLost
    <3>4. PICK m \in Nat : m = IF cut = "no" THEN 2 * tears' ELSE 2 * tears' - 1
      BY <1>1, <1>6, <1>8
    <3>5. 2 * t - 1 + 1 \in Nat /\ 2 * t - 1 + 1 <= m
      BY <1>1, <1>6, <1>8, <3>4
    <3>6. Len(rs) <= Len(rs2)
      BY <1>8, <3>1
    <3>7. Survive(ks \o <<w>>, rs2, m)
      BY <1>8, <1>9, <1>10, <3>1, <3>3, <3>5, <3>6, SurviveIn
    <3> QED
      BY <3>4, <3>7
  <2>2. CASE ~unended /\ cut # "no"
    <3>1. Survive(ks, rs, 2 * t)
      BY <1>7, <2>2
    <3>2. rs2 = IF cut = "head" THEN rs ELSE Append(rs, ParseFeedbackRecord(line))
      BY <1>2, <1>3, <1>4, <1>5, <1>6, <2>2, AppendedLoaded
    <3>3. Len(rs) <= Len(rs2) /\ \A i \in 1 .. Len(rs) : Same(rs[i], rs2[i])
      <4>1. CASE cut = "head"
        BY <1>8, <3>2, <4>1 DEF Same
      <4>2. CASE cut # "head"
        <5>1. rs2 = Append(rs, ParseFeedbackRecord(line))
          BY <3>2, <4>2
        <5>2. Len(rs2) = Len(rs) + 1 /\ Len(rs) \in Nat /\ \A i \in 1 .. Len(rs) : rs2[i] = rs[i]
          BY <1>8, <5>1
        <5> QED
          BY <5>2 DEF Same
      <4> QED
        BY <4>1, <4>2
    <3>4. 2 * t \in Nat /\ 2 * t + 1 \in Nat /\ 2 * t + 1 <= 2 * t + 1
      BY <1>8
    <3>5. Survive(ks \o <<w>>, rs, 2 * t + 1)
      BY <1>8, <3>1, <3>4, SurviveLost
    <3>6. Survive(ks \o <<w>>, rs2, 2 * t + 1)
      BY <1>8, <1>9, <1>10, <3>3, <3>4, <3>5, SurviveIn
    <3>7. 2 * tears' - 1 = 2 * t + 1
      BY <1>1, <1>6, <1>8, <2>2
    <3> QED
      BY <2>2, <3>6, <3>7
  <2>3. CASE ~unended /\ cut = "no"
    <3>1. Survive(ks, rs, 2 * t)
      BY <1>7, <2>3
    <3>2. rs2 = Append(rs, w)
      <4>1. rs2 = Append(rs, ParseFeedbackRecord(line))
        BY <1>2, <1>3, <1>4, <1>5, <1>6, <2>3, AppendedLoaded
      <4>2. ParseFeedbackRecord(line) = w
        BY <1>4, <2>3, ParsedKeeps
      <4> QED
        BY <4>1, <4>2
    <3>3. rs2 = rs \o <<w>> /\ <<w>> \in Seq(Record)
      BY <1>8, <3>2
    <3>4. Survive(ks \o <<w>>, rs \o <<w>>, 2 * t)
      BY <1>8, <3>1, <3>3, SurviveConcat
    <3>5. tears' = t
      BY <1>1, <1>6, <2>3
    <3> QED
      BY <2>3, <3>3, <3>4, <3>5
  <2> QED
    BY <2>1, <2>2, <2>3
<1>12. FileFinds'
  <2>1. cut # "no" => tears' >= 1
    BY <1>1, <1>5
  <2>2. CASE cut = "no"
    <3>1. ~unended' /\ Survive(kept', Loaded(file'), 2 * tears')
      BY <1>2, <1>6, <1>10, <1>11, <2>2
    <3> QED
      BY <3>1, LoadIsLoaded DEF FileFinds
  <2>3. CASE cut # "no"
    <3>1. unended' /\ Survive(kept', Loaded(file'), 2 * tears' - 1)
      BY <1>2, <1>6, <1>10, <1>11, <2>3
    <3> QED
      BY <2>1, <2>3, <3>1, LoadIsLoaded DEF FileFinds
  <2> QED
    BY <2>2, <2>3
<1>13. DialogIsOf(dialog', LoadFeedbackRecords', exported')
  BY <1>1, <1>7 DEF DialogIsOf
<1> QED
  BY <1>12, <1>13

\* A file that is written anew.
LEMMA RewriteFinds ==
    ASSUME NEW rs \in Seq(Record), NEW ks \in Seq(Record), NEW t \in Nat, NEW n \in Nat,
           n <= 2 * t, Survive(ks, rs, n),
           file' = WriteRecords(rs), ~unended', kept' = ks, tears' = t
    PROVE  FileFinds'
<1>1. Loaded(file') = rs
  BY WrittenIsRead
<1>2. Len(rs) <= Len(rs) /\ \A i \in 1 .. Len(rs) : Same(rs[i], rs[i])
  BY DEF Same
<1>3. 2 * t \in Nat
  OBVIOUS
<1>4. Survive(ks, rs, 2 * t)
  BY <1>2, <1>3, SurviveIn
<1>5. Survive(kept', LoadFeedbackRecords', 2 * tears')
  BY <1>1, <1>4, LoadIsLoaded
<1> QED
  BY <1>5 DEF FileFinds

\* A step that leaves the file alone.
LEMMA SameFileFinds ==
    ASSUME FileFinds, UNCHANGED <<file, unended, kept, tears>>
    PROVE  FileFinds' /\ LoadFeedbackRecords' = LoadFeedbackRecords
<1>1. LoadFeedbackRecords' = LoadFeedbackRecords
  BY LoadIsLoaded
<1> QED
  BY <1>1 DEF FileFinds

\* Every step that is no append.
LEMMA StepFinds ==
    ASSUME TearIInv, [FeedbackNext]_feedbackVars, ~raced'
    PROVE  FileFinds' /\ DialogIsOf(dialog', LoadFeedbackRecords', exported')
<1> DEFINE Goal == FileFinds' /\ DialogIsOf(dialog', LoadFeedbackRecords', exported')
<1>1. ASSUME NEW cut \in Cut, AppendWrite(cut) PROVE Goal
  BY <1>1, WriteFinds
<1>2. CASE UNCHANGED feedbackVars
  <2>1. ~raced /\ UNCHANGED <<file, unended, kept, tears, dialog, exported>>
    BY <1>2 DEF feedbackVars, feedbackGhosts
  <2> QED
    BY <2>1, SameFileFinds DEF TearIInv
<1>3. CASE FeedbackNext /\ ~(\E cut \in Cut : AppendWrite(cut))
  <2>0. ~raced
    BY <1>3 DEF FeedbackNext, AppendOpen, AppendFails, Delete, Import, DeleteWrite, ImportWrite,
           DialogGivesUp, ClearAll, ExportToFile, feedbackGhosts
  <2>1. FileFinds /\ DialogIsOf(dialog, LoadFeedbackRecords, exported)
    BY <2>0 DEF TearIInv
  <2>2. /\ file \in Seq(Line) /\ kept \in Seq(Record) /\ exported \in Seq(Record)
        /\ tears \in Nat /\ LoadFeedbackRecords \in Seq(Record)
    BY LoadIsLoaded, LoadedRecords DEF TearIInv, FeedbackTypes
  <2>3. PICK n \in Nat : n <= 2 * tears /\ Survive(kept, LoadFeedbackRecords, n)
    <3>1. CASE unended
      <4>1. 2 * tears - 1 \in Nat /\ 2 * tears - 1 <= 2 * tears
        BY <2>1, <2>2, <3>1 DEF FileFinds
      <4>2. Survive(kept, LoadFeedbackRecords, 2 * tears - 1)
        BY <2>1, <3>1 DEF FileFinds
      <4> QED
        BY <4>1, <4>2
    <3>2. CASE ~unended
      <4>1. 2 * tears \in Nat /\ 2 * tears <= 2 * tears
        BY <2>2
      <4>2. Survive(kept, LoadFeedbackRecords, 2 * tears)
        BY <2>1, <3>2 DEF FileFinds
      <4> QED
        BY <4>1, <4>2
    <3> QED
      BY <3>1, <3>2
  <2>4. CASE \E v \in Value, c \in ContextClass, why \in Reason : AppendOpen(v, c, why)
    <3>1. UNCHANGED <<file, unended, kept, tears, dialog, exported>>
      BY <2>4 DEF AppendOpen, feedbackGhosts
    <3> QED
      BY <2>1, <3>1, SameFileFinds
  <2>5. CASE AppendFails
    <3>1. UNCHANGED <<file, unended, kept, tears, dialog, exported>>
      BY <2>5 DEF AppendFails, feedbackGhosts
    <3> QED
      BY <2>1, <3>1, SameFileFinds
  <2>6. ASSUME NEW v, NEW c, Delete(v, c) PROVE Goal
    <3>1. UNCHANGED <<file, unended, kept, tears, exported>>
      BY <2>6 DEF Delete, feedbackGhosts
    <3>2. FileFinds' /\ LoadFeedbackRecords' = LoadFeedbackRecords
      BY <2>1, <3>1, SameFileFinds
    <3>3. DialogIsOf(dialog', LoadFeedbackRecords, exported)
      BY <2>6 DEF Delete, DialogIsOf
    <3> QED
      BY <3>1, <3>2, <3>3
  <2>7. ASSUME NEW mode \in {"append", "replace"}, Import(mode) PROVE Goal
    <3>1. UNCHANGED <<file, unended, kept, tears, exported>>
      BY <2>7 DEF Import, feedbackGhosts
    <3>2. FileFinds' /\ LoadFeedbackRecords' = LoadFeedbackRecords
      BY <2>1, <3>1, SameFileFinds
    <3>3. << >> \o exported = exported
      BY <2>2
    <3>4. /\ dialog'.op = mode
          /\ dialog'.records = (IF mode = "append" THEN LoadFeedbackRecords ELSE << >>) \o exported
      BY <2>7 DEF Import
    <3>5. DialogIsOf(dialog', LoadFeedbackRecords, exported)
      BY <2>7, <3>3, <3>4 DEF DialogIsOf
    <3> QED
      BY <3>1, <3>2, <3>5
  <2>8. CASE DeleteWrite
    <3>1. PICK ks, rs : ks = kept' /\ rs = dialog.records
      OBVIOUS
    <3>2. /\ rs = Remaining(LoadFeedbackRecords, dialog.value, dialog.class)
          /\ ks = Remaining(kept, dialog.value, dialog.class)
      BY <2>1, <2>8, <3>1 DEF DeleteWrite, DialogIsOf, Remaining
    <3>3. ks \in Seq(Record) /\ rs \in Seq(Record)
      BY <2>2, <3>2, RemainingRecords
    <3>4. Survive(ks, rs, n)
      BY <2>2, <2>3, <3>2, SurviveRemaining
    <3>5. file' = WriteRecords(rs) /\ ~unended' /\ kept' = ks /\ tears' = tears /\ dialog' = Idle
      BY <2>8, <3>1 DEF DeleteWrite, WriteAtomically
    <3>6. FileFinds'
      BY <2>2, <2>3, <3>3, <3>4, <3>5, RewriteFinds
    <3> QED
      BY <3>5, <3>6 DEF Idle, DialogIsOf
  <2>9. CASE ImportWrite
    <3>1. PICK ks, rs : ks = kept' /\ rs = dialog.records
      OBVIOUS
    <3>2. file' = WriteRecords(rs) /\ ~unended' /\ kept' = ks /\ tears' = tears /\ dialog' = Idle
      BY <2>9, <3>1 DEF ImportWrite, WriteAtomically
    <3>3. CASE dialog.op = "append"
      <4>1. ks = kept \o exported /\ rs = LoadFeedbackRecords \o exported
        BY <2>1, <2>9, <3>1, <3>3 DEF ImportWrite, DialogIsOf
      <4>2. ks \in Seq(Record) /\ rs \in Seq(Record)
        BY <2>2, <4>1
      <4>3. Survive(ks, rs, n)
        BY <2>2, <2>3, <4>1, SurviveConcat
      <4>4. FileFinds'
        BY <2>2, <2>3, <3>2, <4>2, <4>3, RewriteFinds
      <4> QED
        BY <3>2, <4>4 DEF Idle, DialogIsOf
    <3>4. CASE dialog.op = "replace"
      <4>1. << >> \o exported = exported
        BY <2>2
      <4>2. ks = exported /\ rs = exported
        BY <2>1, <2>9, <3>1, <3>4, <4>1 DEF ImportWrite, DialogIsOf
      <4>3. Survive(ks, rs, 0)
        BY <2>2, <4>2, SurviveAll
      <4>4. 0 \in Nat /\ 0 <= 2 * tears
        BY <2>2
      <4>5. FileFinds'
        BY <2>2, <3>2, <4>2, <4>3, <4>4, RewriteFinds
      <4> QED
        BY <3>2, <4>5 DEF Idle, DialogIsOf
    <3> QED
      BY <2>9, <3>3, <3>4 DEF ImportWrite
  <2>10. CASE DialogGivesUp
    <3>1. UNCHANGED <<file, unended, kept, tears>> /\ dialog' = Idle
      BY <2>10 DEF DialogGivesUp, feedbackGhosts
    <3> QED
      BY <2>1, <3>1, SameFileFinds DEF Idle, DialogIsOf
  <2>11. CASE ClearAll
    <3>1. /\ file' = WriteRecords(<< >>) /\ ~unended' /\ kept' = << >> /\ tears' = tears
          /\ dialog' = Idle
      BY <2>11 DEF ClearAll, WriteAtomically
    <3>2. << >> \in Seq(Record) /\ 0 \in Nat /\ 0 <= 2 * tears
      BY <2>2
    <3>3. Survive(<< >>, << >>, 0)
      BY <3>2, SurviveAll
    <3>4. FileFinds'
      BY <2>2, <3>1, <3>2, <3>3, RewriteFinds
    <3> QED
      BY <3>1, <3>4 DEF Idle, DialogIsOf
  <2>12. CASE ExportToFile
    <3>1. UNCHANGED <<file, unended, kept, tears, dialog>> /\ dialog = Idle
      BY <2>12 DEF ExportToFile, feedbackGhosts
    <3> QED
      BY <2>1, <3>1, SameFileFinds DEF Idle, DialogIsOf
  <2> HIDE DEF Goal
  <2>13. CASE DialogGivesUp \/ ClearAll \/ ExportToFile \/ DeleteWrite \/ ImportWrite
    BY <2>8, <2>9, <2>10, <2>11, <2>12, <2>13 DEF Goal
  <2> QED
    BY <1>3, <2>4, <2>5, <2>6, <2>7, <2>13 DEF FeedbackNext, Goal
<1> HIDE DEF Goal
<1>4. Goal
  BY <1>1, <1>2, <1>3 DEF Goal
<1> QED
  BY <1>4 DEF Goal

\* TearLosesTwoAtMost for any number of records, edits and torn writes: as long as no
\* append met a rewrite, a write that stopped half way cost its own record and at most
\* the one after it, also when records were removed, imported or cleared since.
THEOREM TearsLoseTwoAtMost == FeedbackSpec => []TearLosesTwoAtMost
<1>1. FeedbackInit => TearIInv
  <2> SUFFICES ASSUME FeedbackInit
               PROVE  FileFinds /\ DialogIsOf(dialog, LoadFeedbackRecords, exported)
    BY FirstTypes DEF TearIInv
  <2>1. << >> \in Seq(Record) /\ WriteRecords(<< >>) = << >>
    BY DEF WriteRecords
  <2>2. LoadFeedbackRecords = << >>
    BY <2>1, WrittenIsRead, LoadIsLoaded DEF FeedbackInit
  <2>3. Survive(<< >>, << >>, 0)
    BY <2>1, SurviveAll
  <2> QED
    BY <2>2, <2>3 DEF FeedbackInit, FileFinds, DialogIsOf, Idle
<1>2. TearIInv /\ [FeedbackNext]_feedbackVars => TearIInv'
  BY StepTypes, StepFinds DEF TearIInv
<1>3. TearIInv => TearLosesTwoAtMost
  <2> SUFFICES ASSUME TearIInv, ~raced
               PROVE  Len(LoadFeedbackRecords) + 2 * tears >= Len(kept)
    BY DEF TearLosesTwoAtMost
  <2>1. /\ kept \in Seq(Record) /\ LoadFeedbackRecords \in Seq(Record) /\ tears \in Nat
    BY LoadIsLoaded, LoadedRecords DEF TearIInv, FeedbackTypes
  <2>2. CASE unended
    <3>1. 2 * tears - 1 \in Nat /\ Survive(kept, LoadFeedbackRecords, 2 * tears - 1)
      BY <2>1, <2>2 DEF TearIInv, FileFinds
    <3>2. Len(kept) <= Len(LoadFeedbackRecords) + (2 * tears - 1)
      BY <2>1, <3>1, SurvivorsCount
    <3> QED
      BY <2>1, <3>2
  <2>3. CASE ~unended
    <3>1. 2 * tears \in Nat /\ Survive(kept, LoadFeedbackRecords, 2 * tears)
      BY <2>1, <2>3 DEF TearIInv, FileFinds
    <3>2. Len(kept) <= Len(LoadFeedbackRecords) + 2 * tears
      BY <2>1, <3>1, SurvivorsCount
    <3> QED
      BY <2>1, <3>2
  <2> QED
    BY <2>2, <2>3
<1> QED
  BY <1>1, <1>2, <1>3, PTL DEF FeedbackSpec
=============================================================================
