---------------------------- MODULE FormProofs -----------------------------
(***************************************************************************)
(* What the schedule form promises of a save that was reported: it stored  *)
(* what was shown, the server had nothing to refuse, and what the user did *)
(* not touch is as the server had it.                                      *)
(***************************************************************************)
EXTENDS ScheduleForm, TLAPS, FiniteSetTheorems

----------------------------------------------------------------------------
(* The editor *)

\* No expression is the model's None.
ExpressionsProper ==
  /\ \A min, hr, dom, dow : Expr(min, hr, dom, dow) # None
  /\ None \notin Saved \union Typed

\* What the editor holds is complete; what it builds, what the form holds and
\* what the server may answer with are expressions.
EditorShape ==
  /\ {"mode", "custom"} \subseteq DOMAIN editor
  /\ editor.mode \in Modes
  /\ editor.custom # None /\ value # None
  /\ isEdit => row.cron # None

\* The parser always answers with one of the modes.
LEMMA ParsedMode == ASSUME NEW e PROVE ParseCron(e).mode \in Modes
<1> USE DEF Modes, Defaults, OfPeriod, Timed
<1>1. CASE EveryMinutes(e)
  BY <1>1 DEF ParseCron
<1>2. CASE ~EveryMinutes(e) /\ EveryHours(e)
  BY <1>2 DEF ParseCron
<1>3. QED
  BY <1>1, <1>2 DEF ParseCron

LEMMA AdoptShape ==
  ASSUME NEW e
  PROVE  /\ {"mode", "custom"} \subseteq DOMAIN Adopt(e)
         /\ Adopt(e).mode \in Modes
         /\ Adopt(e).custom = e
BY ParsedMode DEF Adopt

\* What an editor builds is an expression.
LEMMA BuildsProper ==
  ASSUME ExpressionsProper, NEW ed, ed.mode \in Modes, ed.custom # None
  PROVE  BuildCron(ed) # None
<1>1. CASE ed.mode = "custom"
  BY <1>1 DEF BuildCron
<1>2. CASE ed.mode = "interval"
  BY <1>2 DEF BuildCron, ExpressionsProper
<1>3. QED
  BY <1>1, <1>2 DEF BuildCron, ExpressionsProper, Modes

\* A click changes the custom expression only to one that was typed.
LEMMA ClickShape ==
  ASSUME EditorShape, NEW ed \in Clicks
  PROVE  /\ {"mode", "custom"} \subseteq DOMAIN ed
         /\ ed.mode \in Modes
         /\ ed.custom \in Typed \union {editor.custom}
<1>1. CASE ed \in Tabs
  BY <1>1 DEF Tabs, EditorShape
<1>2. CASE ed \in Times
  BY <1>2 DEF Times, EditorShape
<1>3. CASE ed \in {[editor EXCEPT !.weekDays = Toggled(@, d)] : d \in WeekDays}
  BY <1>3 DEF EditorShape
<1>4. CASE ed \in {[editor EXCEPT !.monthDay = d] : d \in MonthDays}
  BY <1>4 DEF EditorShape
<1>5. CASE ed \in {[editor EXCEPT !.intervalMin = n] : n \in Periods}
  BY <1>5 DEF EditorShape
<1>6. CASE ed \in {[editor EXCEPT !.custom = e] : e \in Typed}
  BY <1>6 DEF EditorShape
<1>7. QED
  BY <1>1, <1>2, <1>3, <1>4, <1>5, <1>6 DEF Clicks, Selectors, EditorShape, Modes

----------------------------------------------------------------------------
(* The cron field *)

\* Until an answer arrives, or after an edit, the form's value is what the
\* editor builds, and the flag is up exactly while the last click has effects.
OwnValue ==
  /\ value = BuildCron(editor) /\ shown.generated = value
  /\ internal <=> value # shown.value

\* The last commit left its expression in the form, unless an answer took its
\* place; and the flag is up only for a value the editor has not seen.
FieldInv ==
  /\ shown = [value |-> shown.value, generated |-> shown.generated]
  /\ truth = None => OwnValue
  /\ value = shown.generated \/ (shown.value = BuildCron(editor) /\ shown.generated = BuildCron(editor))
  /\ internal => value # shown.value
  /\ truth # None /\ answer # None => value = BuildCron(editor) /\ shown.value = value

\* An answer is in the form, and the editor has not adopted it yet, or it has.
InForm ==
  /\ value = truth /\ ~internal
  /\ shown.value = BuildCron(editor) /\ shown.generated = BuildCron(editor)

\* The editor has adopted the answer and emitted the expression it showed before.
Overwritten ==
  /\ answer = None /\ internal
  /\ BuildCron(editor) = truth /\ shown.value = truth /\ value # truth

\* The second effect has put the answer back, marked as the editor's own.
Restored ==
  /\ answer = None /\ internal
  /\ BuildCron(editor) = truth /\ value = truth /\ shown.generated = truth /\ shown.value # truth

\* From an answer to the next edit, the server's expression comes back.
AnswerInv == truth # None => InForm \/ Overwritten \/ Restored

\* The editor shows the expression as it is.
Shows(e) == BuildCron(Adopt(e)) = e

\* The server's expressions and those a user types are ones the editor shows.
ShowsSaved == \A e \in Saved \union Typed : Shows(e)

\* Every expression the form holds is one the editor shows.
ShownInv ==
  /\ Shows(editor.custom) /\ Shows(value)
  /\ row.cron # None => Shows(row.cron)
  /\ answer # None => Shows(answer)
  /\ truth # None => Shows(truth)

----------------------------------------------------------------------------
(* Images and the request *)

\* Images are numbered by the uploads that made them.
ImageShape ==
  /\ cloud \in Nat /\ Highest <= cloud /\ picked \in Nat /\ loads \in Nat
  /\ kept \subseteq 1..cloud /\ got \subseteq 1..cloud /\ row.images \subseteq 1..cloud
  /\ save \in [at : {"none", "sent", "stored", "saved", "refused"}, urls : SUBSET (1..cloud), left : Nat]

\* What was answered fits the form, and so does what is selected with it.
FitsInv ==
  /\ Cardinality(kept) <= MaxImages /\ Cardinality(got) <= MaxImages
  /\ Cardinality(row.images) <= MaxImages
  /\ early \/ Cardinality(kept) + picked <= MaxImages

Sending == save.at \in {"sent", "stored", "saved"}

\* While a request is under way nothing is due in the form, and every file of
\* the form is uploaded or still to upload; once it is stored, the row is the form.
SaveInv ==
  /\ sent # None <=> Sending
  /\ Sending => Settled /\ sent = value
  /\ Sending => Cardinality(save.urls) + save.left = picked
  /\ save.at \in {"stored", "saved"} =>
       save.left = 0 /\ row = [cron |-> sent, images |-> kept \union save.urls]

\* Between an answer and the first change the form is the answer.
UntouchedInv == loads > 0 /\ answer = None /\ ~touched => kept = got /\ picked = 0 /\ ~runNow

----------------------------------------------------------------------------
(* Kinds of steps *)

field == <<editor, value, internal, shown, answer, truth, loads>>

\* The field moves by an answer, a commit or a click.
LEMMA FieldMoves ==
  ASSUME [Next]_allVars
  PROVE  \/ isEdit /\ Answer(row.cron)
         \/ Commit
         \/ Edit
         \/ UNCHANGED field
<1> USE DEF field, vars
<1>1. CASE Answered \/ Committed \/ CronEdited
  BY <1>1 DEF Answered, Committed, CronEdited
<1>2. CASE Fills \/ TicksRunNow \/ RemoveSelectedFile
  BY <1>2 DEF Fills, TicksRunNow, RemoveSelectedFile, Touches
<1>3. CASE \E n \in Picks : SelectImages(n)
  BY <1>3 DEF SelectImages, Touches
<1>4. CASE \E i \in kept : RemoveExistingImage(i)
  BY <1>4 DEF RemoveExistingImage, Touches
<1>5. CASE OnSubmit \/ Upload \/ Store \/ Reply \/ SavedElsewhere
  BY <1>5 DEF OnSubmit, Submit, Upload, Store, Reply, SavedElsewhere
<1>6. CASE Refuse \/ Fail
  BY <1>6 DEF Refuse, Fail, Ends
<1>7. CASE UNCHANGED allVars
  BY <1>7 DEF allVars
<1>8. QED
  BY <1>1, <1>2, <1>3, <1>4, <1>5, <1>6, <1>7 DEF Next

\* The schedule changes by a save, of this form or of another tab.
LEMMA RowMoves ==
  ASSUME [Next]_allVars
  PROVE  /\ isEdit' = isEdit
         /\ Store \/ row' \in Rows \/ row' = row
<1> USE DEF theForm, history, vars
<1>1. CASE Answered \/ Committed \/ CronEdited \/ OnSubmit
  BY <1>1 DEF Answered, Committed, CronEdited, OnSubmit
<1>2. CASE Fills \/ TicksRunNow \/ RemoveSelectedFile
  BY <1>2 DEF Fills, TicksRunNow, RemoveSelectedFile, Touches
<1>3. CASE \E n \in Picks : SelectImages(n)
  BY <1>3 DEF SelectImages, Touches
<1>4. CASE \E i \in kept : RemoveExistingImage(i)
  BY <1>4 DEF RemoveExistingImage, Touches
<1>5. CASE Upload \/ Store \/ Reply \/ SavedElsewhere
  BY <1>5 DEF Upload, Store, Reply, SavedElsewhere
<1>6. CASE Refuse \/ Fail
  BY <1>6 DEF Refuse, Fail, Ends
<1>7. CASE UNCHANGED allVars
  BY <1>7 DEF allVars, formVars
<1>8. QED
  BY <1>1, <1>2, <1>3, <1>4, <1>5, <1>6, <1>7 DEF Next

----------------------------------------------------------------------------
(* Steps of the cron field *)

\* The editor's effects and the user's clicks build expressions only.
LEMMA EditorKept ==
  ASSUME ExpressionsProper, EditorShape, SaveInv, [Next]_allVars
  PROVE  EditorShape'
<1>1. BuildCron(editor) # None
  BY BuildsProper DEF EditorShape
<1>2. (isEdit => row.cron # None)'
  <2>1. CASE Store
    BY <2>1, RowMoves DEF Store, SaveInv, Sending
  <2>2. CASE row' \in Rows
    BY <2>2 DEF Rows, ExpressionsProper
  <2>3. QED
    BY <2>1, <2>2, RowMoves DEF EditorShape
<1>3. CASE isEdit /\ Answer(row.cron)
  BY <1>2, <1>3 DEF Answer, EditorShape
<1>4. CASE Commit
  <2>1. editor' = editor \/ editor' = Adopt(value)
    BY <1>4 DEF Commit
  <2>2. value' # None
    BY <1>1, <1>4 DEF Commit, EditorShape
  <2>3. QED
    BY <1>2, <2>1, <2>2, AdoptShape DEF EditorShape
<1>5. CASE Edit
  <2>1. /\ {"mode", "custom"} \subseteq DOMAIN editor'
        /\ editor'.mode \in Modes /\ editor'.custom # None
    BY <1>5, ClickShape DEF Edit, ExpressionsProper, EditorShape
  <2>2. value' # None
    BY <1>5, <2>1, BuildsProper DEF Edit
  <2>3. QED
    BY <1>2, <2>1, <2>2 DEF EditorShape
<1>6. CASE UNCHANGED field
  BY <1>2, <1>6 DEF field, EditorShape
<1>7. QED
  BY <1>3, <1>4, <1>5, <1>6, FieldMoves

\* A settled form shows what the editor builds, with the flag down.
LEMMA SettledShows ==
  ASSUME FieldInv, Settled
  PROVE  value = BuildCron(editor) /\ shown.value = value /\ ~internal
BY DEF FieldInv, Settled

\* No effect adopts anything while there is no answer in the form.
LEMMA OwnCommit ==
  ASSUME FieldInv, Commit, truth = None \/ answer # None
  PROVE  /\ editor' = editor /\ value = BuildCron(editor) /\ internal' = FALSE
         /\ answer = None => value' = value /\ truth' = None
         /\ answer # None => value' = answer /\ truth' = answer
BY DEF Commit, FieldInv, OwnValue, Adopts, Emits, Skips

LEMMA FieldKept ==
  ASSUME FieldInv, [Next]_allVars
  PROVE  FieldInv'
<1> DEFINE built == BuildCron(editor)
<1>1. CASE isEdit /\ Answer(row.cron)
  <2>1. UNCHANGED <<shown, value, editor, internal, truth>> /\ answer = None /\ (truth # None => Settled)
    BY <1>1 DEF Answer
  <2>2. OwnValue' = OwnValue
    BY <2>1 DEF OwnValue
  <2>3. truth # None => value = built /\ shown.value = value
    BY <2>1, SettledShows
  <2>4. QED
    BY <2>1, <2>2, <2>3 DEF FieldInv
<1>2. CASE Commit
  <2>1. /\ shown' = [value |-> value, generated |-> built]
        /\ shown'.value = value /\ shown'.generated = built /\ answer' = None
    BY <1>2 DEF Commit
  <2>2. CASE truth = None /\ answer = None
    BY <1>2, <2>1, <2>2, OwnCommit DEF FieldInv, OwnValue
  <2>3. CASE answer # None
    BY <1>2, <2>1, <2>3, OwnCommit DEF FieldInv
  <2>4. CASE truth # None /\ answer = None
    <3>1. value' = built /\ truth' = truth
      BY <1>2, <2>4 DEF Commit, Emits
    <3>2. internal' => value' # value
      BY <1>2, <2>4 DEF Commit, Emits, Skips, FieldInv
    <3>3. QED
      BY <2>1, <2>4, <3>1, <3>2 DEF FieldInv
  <2>5. QED
    BY <2>2, <2>3, <2>4
<1>3. CASE Edit
  <2>1. value = built /\ shown.value = value /\ ~internal
    BY <1>3, SettledShows DEF Edit
  <2>2. /\ shown' = [value |-> shown.value, generated |-> BuildCron(editor')]
        /\ value' = BuildCron(editor') /\ truth' = None
        /\ internal' = (internal \/ value' # value)
    BY <1>3 DEF Edit, FieldInv
  <2>3. OwnValue'
    BY <2>1, <2>2 DEF OwnValue
  <2>4. QED
    BY <2>2, <2>3 DEF FieldInv, OwnValue
<1>4. CASE UNCHANGED field
  BY <1>4 DEF field, FieldInv, OwnValue
<1>5. QED
  BY <1>1, <1>2, <1>3, <1>4, FieldMoves

\* A commit takes the field from an answer in the form through the editor's two
\* effects back to the answer.
LEMMA CommitRestores ==
  ASSUME FieldInv, AnswerInv, Shows(value), Commit
  PROVE  AnswerInv'
<1> DEFINE built == BuildCron(editor)
<1>1. /\ shown'.value = value /\ shown'.generated = built /\ answer' = None
  BY DEF Commit
<1>2. CASE truth = None /\ answer = None
  BY <1>2, OwnCommit DEF AnswerInv
<1>3. CASE answer # None
  BY <1>1, <1>3, OwnCommit DEF AnswerInv, InForm
<1>4. CASE truth # None /\ answer = None /\ InForm
  <2>1. value # shown.value
    BY <1>4 DEF Commit, Settled, InForm, FieldInv
  <2>2. editor' = Adopt(value) /\ internal' = TRUE /\ value' = built /\ built # value
    BY <1>4, <2>1 DEF Commit, InForm, Adopts, Emits
  <2>3. truth' = truth
    BY <1>4 DEF Commit
  <2>4. BuildCron(editor') = value
    BY <2>2 DEF Shows
  <2>5. QED
    BY <1>1, <1>4, <2>2, <2>3, <2>4 DEF AnswerInv, Overwritten, InForm
<1>5. CASE truth # None /\ answer = None /\ Overwritten
  <2>1. editor' = editor /\ internal' = TRUE /\ value' = built /\ truth' = truth
    BY <1>5 DEF Commit, Overwritten, Adopts, Emits
  <2>2. QED
    BY <1>1, <1>5, <2>1 DEF AnswerInv, Restored, Overwritten
<1>6. CASE truth # None /\ answer = None /\ Restored
  <2>1. editor' = editor /\ internal' = FALSE /\ value' = value /\ truth' = truth
    BY <1>6 DEF Commit, Restored, Adopts, Emits, Skips
  <2>2. QED
    BY <1>1, <1>6, <2>1 DEF AnswerInv, Restored, InForm
<1>7. QED
  BY <1>2, <1>3, <1>4, <1>5, <1>6 DEF AnswerInv

LEMMA AnswerKept ==
  ASSUME FieldInv, AnswerInv, Shows(value), [Next]_allVars
  PROVE  AnswerInv'
<1>1. CASE isEdit /\ Answer(row.cron)
  <2>1. UNCHANGED <<shown, value, editor, internal, truth>> /\ answer = None /\ (truth # None => Settled)
    BY <1>1 DEF Answer
  <2>2. truth # None => InForm
    BY <2>1 DEF Settled, AnswerInv, InForm, Overwritten, Restored
  <2>3. QED
    BY <2>1, <2>2 DEF AnswerInv, InForm
<1>2. CASE Commit
  BY <1>2, CommitRestores
<1>3. CASE Edit
  BY <1>3 DEF Edit, AnswerInv
<1>4. CASE UNCHANGED field
  BY <1>4 DEF field, AnswerInv, InForm, Overwritten, Restored
<1>5. QED
  BY <1>1, <1>2, <1>3, <1>4, FieldMoves

\* Every expression the form comes to hold is one the editor shows.
LEMMA ShownKept ==
  ASSUME ExpressionsProper, ShowsSaved, EditorShape, FieldInv, SaveInv, ShownInv,
         ReopensUnchanged, ReopensUnchanged', [Next]_allVars
  PROVE  ShownInv'
<1>1. Shows(BuildCron(editor))
  <2>1. CASE editor.mode = "custom"
    BY <2>1 DEF BuildCron, ShownInv
  <2>2. QED
    BY <2>1 DEF ReopensUnchanged, Shows
<1>2. (row.cron # None => Shows(row.cron))'
  <2>1. CASE Store
    <3>1. row' = [cron |-> sent, images |-> Combined] /\ save.at = "sent"
      BY <2>1 DEF Store
    <3>2. sent = value
      BY <3>1 DEF SaveInv, Sending
    <3>3. QED
      BY <3>1, <3>2 DEF ShownInv
  <2>2. CASE row' \in Rows
    BY <2>2 DEF Rows, ShowsSaved
  <2>3. CASE row' = row
    BY <2>3 DEF ShownInv
  <2>4. QED
    BY <2>1, <2>2, <2>3, RowMoves
<1>3. CASE isEdit /\ Answer(row.cron)
  BY <1>2, <1>3 DEF Answer, ShownInv
<1>4. CASE Commit
  <2>1. editor' = editor \/ editor'.custom = value
    BY <1>4, AdoptShape DEF Commit
  <2>2. Shows(editor'.custom)
    BY <2>1 DEF ShownInv
  <2>3. Shows(value')
    BY <1>1, <1>4 DEF Commit, ShownInv
  <2>4. answer' = None /\ (truth' = answer \/ truth' = truth) /\ (truth' # None => Shows(truth'))
    BY <1>4 DEF Commit, ShownInv
  <2>5. QED
    BY <1>2, <2>2, <2>3, <2>4 DEF ShownInv
<1>5. CASE Edit
  <2>1. editor'.custom \in Typed \union {editor.custom}
    BY <1>5, ClickShape DEF Edit
  <2>2. Shows(editor'.custom)
    BY <2>1 DEF ShownInv, ShowsSaved
  <2>3. Shows(BuildCron(editor'))
    <3>1. CASE editor'.mode = "custom"
      BY <2>2, <3>1 DEF BuildCron
    <3>2. QED
      BY <3>1 DEF ReopensUnchanged, Shows
  <2>4. value' = BuildCron(editor') /\ truth' = None /\ answer' = answer
    BY <1>5 DEF Edit
  <2>5. QED
    BY <1>2, <2>2, <2>3, <2>4 DEF ShownInv
<1>6. CASE UNCHANGED field
  BY <1>2, <1>6 DEF field, ShownInv
<1>7. QED
  BY <1>3, <1>4, <1>5, <1>6, FieldMoves

----------------------------------------------------------------------------
(* Steps of the images and of the request *)

\* Images are finitely many.
LEMMA ImagesFinite ==
  ASSUME NEW n \in Nat, NEW S \in SUBSET (1..n)
  PROVE  IsFiniteSet(S) /\ Cardinality(S) \in Nat
<1>1. IsFiniteSet(1..n)
  BY FS_Interval
<1>2. IsFiniteSet(S)
  BY <1>1, FS_Subset
<1>3. QED
  BY <1>2, FS_CardinalityType

\* A schedule starts with at most five images, numbered up to the highest.
LEMMA StoredImages ==
  /\ Highest \in Nat
  /\ \A s \in Stored : s \subseteq 1..Highest /\ Cardinality(s) <= MaxImages
<1> DEFINE numbers == (UNION Stored) \union {0}
<1>1. \A s \in Stored : s \subseteq 1..5
  BY FormImages DEF MaxImages
<1>2. numbers \subseteq {0, 1, 2, 3, 4, 5} /\ 0 \in numbers
  <2>1. ASSUME NEW s \in Stored, NEW x \in s
        PROVE  x \in {1, 2, 3, 4, 5}
    <3>1. x \in 1..5
      BY <1>1
    <3>2. QED
      BY <3>1
  <2>2. UNION Stored \subseteq {1, 2, 3, 4, 5}
    BY <2>1, Zenon
  <2>3. QED
    BY <2>2
<1> HIDE DEF numbers
<1>3. \E m \in numbers : \A n \in numbers : m >= n
  <2>1. CASE 5 \in numbers
    BY <1>2, <2>1
  <2>2. CASE 4 \in numbers /\ 5 \notin numbers
    BY <1>2, <2>2
  <2>3. CASE 3 \in numbers /\ numbers \subseteq {0, 1, 2, 3}
    BY <1>2, <2>3
  <2>4. CASE 2 \in numbers /\ numbers \subseteq {0, 1, 2}
    BY <1>2, <2>4
  <2>5. CASE numbers \subseteq {0, 1}
    BY <1>2, <2>5
  <2>6. QED
    BY <1>2, <2>1, <2>2, <2>3, <2>4, <2>5
<1>4. Highest \in numbers /\ \A n \in numbers : Highest >= n
  BY <1>3 DEF Highest, Max, numbers
<1>5. ASSUME NEW s \in Stored
      PROVE  s \subseteq 1..Highest /\ Cardinality(s) <= MaxImages
  <2>1. s \subseteq 1..5 /\ s \subseteq numbers
    BY <1>1 DEF numbers
  <2>2. IsFiniteSet(1..5) /\ Cardinality(1..5) = 5
    <3>1. \A n \in Nat : IsFiniteSet(1..n) /\ Cardinality(1..n) = n
      BY FS_Interval
    <3>2. QED
      BY <3>1
  <2>3. Cardinality(s) <= 5
    BY <2>1, <2>2, FS_Subset
  <2>4. QED
    BY <1>2, <1>4, <2>1, <2>3 DEF MaxImages
<1>6. QED
  BY <1>2, <1>4, <1>5

\* What is selected with the form's images is never more than five.
LEMMA AddedFits ==
  ASSUME NEW n \in Picks, ImageShape
  PROVE  /\ Added(n) \in Nat
         /\ Cardinality(kept) + picked <= MaxImages => Cardinality(kept) + picked + Added(n) <= MaxImages
         /\ picked <= MaxImages => picked + Added(n) <= MaxImages
<1> DEFINE room == MaxImages - Cardinality(kept) - picked
<1>1. Cardinality(kept) \in Nat
  BY ImagesFinite DEF ImageShape
<1>2. room \in Int /\ n \in Nat
  BY <1>1, FormImages DEF ImageShape, MaxImages
<1>3. Max({0, room}) = IF room >= 0 THEN room ELSE 0
  <2> HIDE DEF room
  <2>1. \E x \in {0, room} : \A y \in {0, room} : x >= y
    BY <1>2
  <2>2. QED
    BY <1>2, <2>1 DEF Max
<1>4. PICK top \in Nat : top = Max({0, room})
  BY <1>2, <1>3
<1>5. Min({n, top}) \in Nat /\ Min({n, top}) <= top
  <2>1. \E x \in {n, top} : \A y \in {n, top} : x <= y
    BY <1>2
  <2>2. QED
    BY <1>2, <2>1 DEF Min
<1>6. QED
  BY <1>1, <1>2, <1>3, <1>4, <1>5 DEF Added, MaxImages, ImageShape

\* Every step gives images the numbers of uploads.
LEMMA ImagesKept ==
  ASSUME ImageShape, [Next]_allVars
  PROVE  ImageShape'
<1> USE DEF theForm, history, vars
<1>1. CASE Answered
  BY <1>1 DEF Answered, Answer, ImageShape
<1>2. CASE Committed
  BY <1>2 DEF Committed, Commit, ImageShape
<1>3. CASE CronEdited \/ OnSubmit
  BY <1>3 DEF CronEdited, Edit, OnSubmit, Submit, ImageShape
<1>4. CASE Fills \/ TicksRunNow \/ RemoveSelectedFile
  <2>1. UNCHANGED <<cloud, kept, got, row, save, loads>>
    BY <1>4 DEF Fills, TicksRunNow, RemoveSelectedFile, Touches
  <2>2. picked' \in Nat
    BY <1>4 DEF Fills, TicksRunNow, RemoveSelectedFile, ImageShape
  <2>3. QED
    BY <2>1, <2>2 DEF ImageShape
<1>5. ASSUME NEW n \in Picks, SelectImages(n)
      PROVE  ImageShape'
  BY <1>5, AddedFits DEF SelectImages, Touches, ImageShape
<1>6. CASE \E i \in kept : RemoveExistingImage(i)
  BY <1>6 DEF RemoveExistingImage, Touches, ImageShape
<1>7. CASE Upload
  <2>1. /\ cloud' = cloud + 1 /\ cloud + 1 \in 1..(cloud + 1) /\ 1..cloud \subseteq 1..(cloud + 1)
        /\ save' = [save EXCEPT !.urls = @ \union {cloud + 1}, !.left = @ - 1]
        /\ UNCHANGED <<kept, got, row, picked, loads>> /\ save.left - 1 \in Nat
    BY <1>7 DEF Upload, ImageShape
  <2>2. save.urls \union {cloud + 1} \subseteq 1..cloud'
    BY <2>1 DEF ImageShape
  <2>3. save' \in [at : {"none", "sent", "stored", "saved", "refused"}, urls : SUBSET (1..cloud'), left : Nat]
    BY <2>1, <2>2 DEF ImageShape
  <2>4. QED
    BY <2>1, <2>3, StoredImages DEF ImageShape
<1>8. CASE Refuse \/ Fail
  BY <1>8 DEF Refuse, Fail, Ends, NoSave, ImageShape
<1>9. CASE Store
  BY <1>9 DEF Store, Combined, ImageShape
<1>10. CASE Reply
  BY <1>10 DEF Reply, ImageShape
<1>11. CASE SavedElsewhere
  <2>1. row'.images \subseteq 1..Highest
    BY <1>11, StoredImages DEF SavedElsewhere, Rows
  <2>2. row'.images \subseteq 1..cloud
    BY <2>1, StoredImages DEF ImageShape
  <2>3. QED
    BY <1>11, <2>2 DEF SavedElsewhere, ImageShape
<1>12. CASE UNCHANGED allVars
  BY <1>12 DEF allVars, formVars, ImageShape
<1>13. QED
  BY <1>1, <1>2, <1>3, <1>4, <1>5, <1>6, <1>7, <1>8, <1>9, <1>10, <1>11, <1>12 DEF Next

\* No step lets the form hold more than one request may carry.
LEMMA FitsKept ==
  ASSUME ImageShape, FitsInv, [Next]_allVars
  PROVE  FitsInv'
<1> USE DEF theForm, history, vars
<1>1. CASE Answered
  BY <1>1 DEF Answered, FitsInv
<1>2. CASE Committed
  <2>1. UNCHANGED <<got, row, picked>>
    BY <1>2 DEF Committed
  <2>2. CASE answer = None
    BY <1>2, <2>1, <2>2 DEF Committed, FitsInv
  <2>3. CASE answer # None
    <3>1. kept' = got /\ (early' <=> early \/ picked > 0)
      BY <1>2, <2>3 DEF Committed
    <3>2. Cardinality(got) \in Nat
      BY ImagesFinite DEF ImageShape
    <3>3. early' \/ Cardinality(got) + picked <= MaxImages
      BY <3>1, <3>2 DEF FitsInv, ImageShape, MaxImages
    <3>4. QED
      BY <2>1, <3>1, <3>3 DEF FitsInv
  <2>4. QED
    BY <2>2, <2>3
<1>3. CASE CronEdited \/ OnSubmit \/ Upload \/ Reply
  BY <1>3 DEF CronEdited, OnSubmit, Upload, Reply, FitsInv
<1>4. CASE Fills \/ TicksRunNow
  BY <1>4 DEF Fills, TicksRunNow, Touches, FitsInv
<1>5. ASSUME NEW n \in Picks, SelectImages(n)
      PROVE  FitsInv'
  <2>1. UNCHANGED <<kept, got, row, early>> /\ picked' = picked + Added(n)
    BY <1>5 DEF SelectImages, Touches
  <2>2. Cardinality(kept) \in Nat
    BY ImagesFinite DEF ImageShape
  <2>3. early \/ Cardinality(kept) + picked' <= MaxImages
    BY <2>1, <2>2, AddedFits DEF FitsInv, ImageShape, MaxImages
  <2>4. QED
    BY <2>1, <2>3 DEF FitsInv
<1>6. ASSUME NEW i \in kept, RemoveExistingImage(i)
      PROVE  FitsInv'
  <2>1. IsFiniteSet(kept) /\ Cardinality(kept) \in Nat
    BY ImagesFinite DEF ImageShape
  <2>2. Cardinality(kept') <= Cardinality(kept)
    BY <1>6, <2>1, FS_RemoveElement DEF RemoveExistingImage
  <2>3. kept' \in SUBSET (1..cloud)
    BY <1>6 DEF RemoveExistingImage, ImageShape
  <2>4. Cardinality(kept') \in Nat
    BY <2>3, ImagesFinite DEF ImageShape
  <2>5. QED
    BY <1>6, <2>1, <2>2, <2>4 DEF RemoveExistingImage, Touches, FitsInv, ImageShape, MaxImages
<1>7. CASE RemoveSelectedFile
  <2>1. Cardinality(kept) \in Nat
    BY ImagesFinite DEF ImageShape
  <2>2. QED
    BY <1>7, <2>1 DEF RemoveSelectedFile, Touches, FitsInv, ImageShape, MaxImages
<1>8. CASE Refuse \/ Fail
  BY <1>8 DEF Refuse, Fail, Ends, FitsInv
<1>9. CASE Store
  BY <1>9 DEF Store, FitsInv
<1>10. CASE SavedElsewhere
  BY <1>10, StoredImages DEF SavedElsewhere, Rows, FitsInv
<1>11. CASE UNCHANGED allVars
  BY <1>11 DEF allVars, formVars, FitsInv
<1>12. QED
  BY <1>1, <1>2, <1>3, <1>4, <1>5, <1>6, <1>7, <1>8, <1>9, <1>10, <1>11 DEF Next

\* Nothing is due in the form while its request is under way.
LEMMA SaveKept ==
  ASSUME EditorShape, ImageShape, SaveInv, [Next]_allVars
  PROVE  SaveInv'
<1> USE DEF theForm, history, vars
<1>1. ASSUME sent = None, UNCHANGED <<sent, save>>
      PROVE  SaveInv'
  BY <1>1 DEF SaveInv, Sending
<1>2. CASE Answered \/ CronEdited
  BY <1>1, <1>2 DEF Answered, Answer, CronEdited, Edit
<1>3. CASE Committed
  <2>1. sent = None
    BY <1>3 DEF Committed, Commit, SaveInv
  <2>2. QED
    BY <1>1, <1>3, <2>1 DEF Committed, Commit
<1>4. CASE Fills \/ TicksRunNow \/ RemoveSelectedFile
  BY <1>1, <1>4 DEF Fills, TicksRunNow, RemoveSelectedFile, Touches
<1>5. CASE \E n \in Picks : SelectImages(n)
  BY <1>1, <1>5 DEF SelectImages, Touches
<1>6. CASE \E i \in kept : RemoveExistingImage(i)
  BY <1>1, <1>6 DEF RemoveExistingImage, Touches
<1>7. CASE OnSubmit
  <2>1. Settled' /\ sent' = value' /\ sent' # None /\ save' = [at |-> "sent", urls |-> {}, left |-> picked]
    BY <1>7 DEF OnSubmit, Submit, Settled, EditorShape
  <2>2. Cardinality(save'.urls) + save'.left = picked'
    BY <1>7, <2>1, FS_EmptySet DEF OnSubmit, ImageShape
  <2>3. QED
    BY <2>1, <2>2 DEF SaveInv, Sending
<1>8. CASE Upload
  <2>1. /\ UNCHANGED <<sent, value, picked>> /\ Settled' = Settled
        /\ save'.at = save.at /\ save'.at = "sent"
        /\ save'.urls = save.urls \union {cloud + 1} /\ save'.left = save.left - 1
    BY <1>8 DEF Upload, Settled, ImageShape
  <2>2. save.urls \in SUBSET (1..cloud) /\ cloud + 1 \notin save.urls
    BY DEF ImageShape
  <2>3. IsFiniteSet(save.urls) /\ Cardinality(save.urls) \in Nat
    BY <2>2, ImagesFinite DEF ImageShape
  <2>4. Cardinality(save'.urls) = Cardinality(save.urls) + 1
    BY <2>1, <2>2, <2>3, FS_AddElement
  <2>5. QED
    BY <2>1, <2>3, <2>4 DEF SaveInv, Sending, ImageShape
<1>9. CASE Refuse \/ Fail
  BY <1>9 DEF Refuse, Fail, Ends, NoSave, SaveInv, Sending
<1>10. CASE Store
  <2>1. /\ UNCHANGED <<sent, value, picked, kept>> /\ Settled' = Settled
        /\ save.at = "sent" /\ save'.at = "stored" /\ save'.urls = save.urls
        /\ save'.left = save.left /\ save.left = 0
        /\ row' = [cron |-> sent, images |-> kept \union save.urls]
    BY <1>10 DEF Store, Settled, Combined, ImageShape
  <2>2. QED
    BY <2>1 DEF SaveInv, Sending
<1>11. CASE Reply
  <2>1. /\ UNCHANGED <<sent, value, picked, kept, row>> /\ Settled' = Settled
        /\ save.at = "stored" /\ save'.at = "saved" /\ save'.urls = save.urls /\ save'.left = save.left
    BY <1>11 DEF Reply, Settled, ImageShape
  <2>2. QED
    BY <2>1 DEF SaveInv, Sending
<1>12. CASE SavedElsewhere
  BY <1>12 DEF SavedElsewhere, SaveInv, Sending, Settled
<1>13. CASE UNCHANGED allVars
  BY <1>13 DEF allVars, formVars, SaveInv, Sending, Settled
<1>14. QED
  BY <1>2, <1>3, <1>4, <1>5, <1>6, <1>7, <1>8, <1>9, <1>10, <1>11, <1>12, <1>13 DEF Next

\* Whatever changes a field after an answer is recorded as a touch.
LEMMA UntouchedKept ==
  ASSUME EditorShape, ImageShape, UntouchedInv, [Next]_allVars
  PROVE  UntouchedInv'
<1> USE DEF theForm, history, vars
<1>1. CASE Answered
  BY <1>1 DEF Answered, Answer, EditorShape, UntouchedInv
<1>2. CASE Committed
  <2>1. answer' = None /\ UNCHANGED <<loads, got, picked>>
    BY <1>2 DEF Committed, Commit
  <2>2. CASE answer = None
    BY <1>2, <2>1, <2>2 DEF Committed, RunNowReset, UntouchedInv
  <2>3. CASE answer # None
    <3>1. kept' = got /\ ~runNow' /\ (touched' <=> picked > 0)
      BY <1>2, <2>3 DEF Committed, RunNowReset
    <3>2. ~touched' => picked = 0
      BY <3>1 DEF ImageShape
    <3>3. QED
      BY <2>1, <3>1, <3>2 DEF UntouchedInv
  <2>4. QED
    BY <2>2, <2>3
<1>3. CASE CronEdited \/ Fills \/ TicksRunNow \/ RemoveSelectedFile
  BY <1>3 DEF CronEdited, Fills, TicksRunNow, RemoveSelectedFile, Touches, UntouchedInv
<1>4. CASE \E n \in Picks : SelectImages(n)
  BY <1>4 DEF SelectImages, Touches, UntouchedInv
<1>5. CASE \E i \in kept : RemoveExistingImage(i)
  BY <1>5 DEF RemoveExistingImage, Touches, UntouchedInv
<1>6. CASE OnSubmit \/ Upload \/ Store \/ Reply \/ SavedElsewhere
  BY <1>6 DEF OnSubmit, Submit, Upload, Store, Reply, SavedElsewhere, UntouchedInv
<1>7. CASE Refuse \/ Fail
  BY <1>7 DEF Refuse, Fail, Ends, UntouchedInv
<1>8. CASE UNCHANGED allVars
  BY <1>8 DEF allVars, formVars, UntouchedInv
<1>9. QED
  BY <1>1, <1>2, <1>3, <1>4, <1>5, <1>6, <1>7, <1>8 DEF Next

----------------------------------------------------------------------------
(* Days in order *)

Rank(S, d) == Cardinality({c \in S : c <= d})

LEMMA Ranks ==
  ASSUME NEW S \in SUBSET Int, IsFiniteSet(S)
  PROVE  /\ \A d \in S : Rank(S, d) \in 1..Cardinality(S)
         /\ \A d, e \in S : d < e => Rank(S, d) < Rank(S, e)
<1>1. \A d \in S : IsFiniteSet({c \in S : c <= d}) /\ Rank(S, d) \in Nat /\ Rank(S, d) <= Cardinality(S)
  BY FS_Subset, FS_CardinalityType DEF Rank
<1>2. ASSUME NEW d \in S
      PROVE  Rank(S, d) # 0
  BY <1>1, FS_EmptySet DEF Rank
<1>3. ASSUME NEW d \in S, NEW e \in S, d < e
      PROVE  Rank(S, d) < Rank(S, e)
  <2> DEFINE lower == {c \in S : c <= d}
             upper == {c \in S : c <= e}
  <2>1. lower \subseteq upper /\ e \in upper /\ e \notin lower
    <3>1. d \in Int /\ e \in Int /\ e <= e /\ ~(e <= d)
      BY <1>3
    <3>2. \A c \in S : c <= d => c <= e
      BY <1>3
    <3>3. QED
      BY <3>1, <3>2, Zenon
  <2>2. IsFiniteSet(lower) /\ IsFiniteSet(upper) /\ Rank(S, d) = Cardinality(lower) /\ Rank(S, e) = Cardinality(upper)
    BY <1>1 DEF Rank
  <2> HIDE DEF lower, upper
  <2>3. Cardinality(lower) <= Cardinality(upper) /\ Cardinality(lower) # Cardinality(upper)
    BY <2>1, <2>2, FS_Subset
  <2>4. Cardinality(lower) \in Nat /\ Cardinality(upper) \in Nat
    BY <2>2, FS_CardinalityType
  <2>5. Cardinality(lower) < Cardinality(upper)
    BY <2>3, <2>4
  <2>6. QED
    BY <2>2, <2>5, Zenon
<1>4. Cardinality(S) \in Nat
  BY FS_CardinalityType
<1>5. ASSUME NEW d \in S
      PROVE  Rank(S, d) \in 1..Cardinality(S)
  <2>1. Rank(S, d) \in Nat /\ Rank(S, d) # 0 /\ Rank(S, d) <= Cardinality(S)
    BY <1>1, <1>2, Zenon
  <2>2. \A r, n \in Nat : r # 0 /\ r <= n => r \in 1..n
    OBVIOUS
  <2>3. QED
    BY <1>4, <2>1, <2>2, Zenon
<1>6. QED
  BY <1>3, <1>5, Zenon

\* Sorting a set of numbers keeps its members.
LEMMA IncreasingMembers ==
  ASSUME NEW S \in SUBSET Int, IsFiniteSet(S)
  PROVE  /\ Increasing(S) \in Seq(S) /\ Len(Increasing(S)) = Cardinality(S)
         /\ ToSet(Increasing(S)) = S
<1> DEFINE rank == [d \in S |-> Rank(S, d)]
           n == Cardinality(S)
<1>1. n \in Nat
  BY FS_CardinalityType
<1>2. rank \in Injection(S, 1..n)
  <2>1. rank \in [S -> 1..n]
    BY Ranks
  <2>2. \A d, e \in S : rank[d] = rank[e] => d = e
    BY <1>1, Ranks
  <2>3. QED
    BY <2>1, <2>2 DEF Injection, IsInjective
<1>3. rank \in Surjection(S, 1..n)
  <2>1. IsFiniteSet(1..n) /\ Cardinality(1..n) = n
    BY <1>1, FS_Interval
  <2>2. QED
    BY <1>2, <2>1, FS_Injection
<1>4. \A k \in 1..n : \E d \in S : Rank(S, d) = k
  BY <1>3 DEF Surjection
<1>5. \A k \in 1..n : Increasing(S)[k] \in S /\ Rank(S, Increasing(S)[k]) = k
  BY <1>4 DEF Increasing, Rank
<1>6. DOMAIN Increasing(S) = 1..n
  BY DEF Increasing
<1>7. Increasing(S) \in [1..n -> S]
  BY <1>5 DEF Increasing
<1>8. Increasing(S) \in Seq(S) /\ Len(Increasing(S)) = n
  BY <1>1, <1>7
<1>9. ASSUME NEW d \in S
      PROVE  d \in ToSet(Increasing(S))
  <2>1. Rank(S, d) \in 1..n
    BY Ranks
  <2>2. Increasing(S)[Rank(S, d)] = d
    <3> DEFINE x == Increasing(S)[Rank(S, d)]
    <3>1. x \in S /\ Rank(S, x) = Rank(S, d)
      BY <1>5, <2>1
    <3> HIDE DEF x
    <3>2. Rank(S, d) \in Nat /\ ~(x < d) /\ ~(d < x)
      BY <1>1, <2>1, <3>1, Ranks
    <3>3. x = d
      BY <3>1, <3>2
    <3>4. QED
      BY <3>3 DEF x
  <2>3. QED
    BY <1>6, <2>1, <2>2 DEF ToSet
<1>10. QED
  BY <1>5, <1>6, <1>8, <1>9 DEF ToSet

----------------------------------------------------------------------------
(* Well-formed expressions *)

\* A field holds a star, a number, a step, a range or a list of its own values.
Within(f, lo, hi) ==
  \/ f = Star
  \/ \E n \in lo..hi : f = Num(n)
  \/ \E n \in 1..hi : f = Step(n)
  \/ \E a, b \in lo..hi : a <= b /\ f = Between(a, b)
  \/ f = [kind |-> "list", args |-> f.args] /\ f.args \in Seq(lo..hi) /\ Len(f.args) > 1

WellFormed(e) ==
  /\ Within(e.min, 0, 59) /\ Within(e.hr, 0, 23)
  /\ Within(e.dom, 1, 31) /\ Within(e.month, 1, 12) /\ Within(e.dow, 0, 6)

\* What the server holds and what a user types is well formed.
WellFormedData == \A e \in Saved \union Typed : WellFormed(e)

\* Periods that an expression can say: up to an hour, or whole hours of a day.
Sayable == {n \in MinInterval..1439 : n < 60 \/ n % 60 = 0}

Parsed == [mode : Modes, hour : 0..23, minute : 0..59, weekDays : SUBSET (0..6),
           monthDay : 1..31, intervalMin : Sayable]

EditorOK(ed) ==
  /\ ed \in [mode : Modes, hour : 0..23, minute : 0..59, weekDays : SUBSET (0..6),
             monthDay : 1..31, intervalMin : Sayable, custom : {ed.custom}]
  /\ WellFormed(ed.custom)

\* Whatever the form holds or is given is well formed, and so is its editor.
WellFormedInv ==
  /\ EditorOK(editor) /\ WellFormed(value)
  /\ row.cron # None => WellFormed(row.cron)
  /\ answer # None => WellFormed(answer)

LEMMA WithinKinds ==
  ASSUME NEW lo \in Nat, NEW hi \in Nat, NEW f, Within(f, lo, hi)
  PROVE  /\ f.kind \in Fields \ {"fraction"}
         /\ f.kind = "any" => f = Star
         /\ f.kind = "num" => \E n \in lo..hi : f = Num(n)
         /\ f.kind = "step" => \E n \in 1..hi : f = Step(n)
         /\ f.kind = "range" => \E a, b \in lo..hi : a <= b /\ f = Between(a, b)
         /\ f.kind = "list" => f.args \in Seq(lo..hi) /\ Len(f.args) > 1
BY DEF Within, Fields, Star, Num, Step, Between

LEMMA WithinValues ==
  ASSUME NEW lo \in Nat, NEW hi \in Nat, NEW f, Within(f, lo, hi)
  PROVE  /\ Starts(f) => ParseInt(f) \in lo..hi
         /\ f.kind = "step" => f.args[1] \in 1..hi
         /\ f.kind \in {"num", "list"} => ToSet(f.args) \subseteq lo..hi
<1>1. CASE f.kind = "num"
  <2>1. PICK n \in lo..hi : f = Num(n)
    BY <1>1, WithinKinds
  <2>2. f.args = <<n>> /\ ToSet(<<n>>) = {n}
    BY <2>1 DEF Num, ToSet
  <2>3. QED
    BY <1>1, <2>2 DEF ParseInt
<1>2. CASE f.kind = "list"
  <2>1. f.args \in Seq(lo..hi) /\ Len(f.args) > 1
    BY <1>2, WithinKinds
  <2>2. ToSet(f.args) \subseteq lo..hi /\ f.args[1] \in lo..hi
    BY <2>1 DEF ToSet
  <2>3. QED
    BY <1>2, <2>2 DEF ParseInt
<1>3. CASE f.kind = "range"
  BY <1>3, WithinKinds DEF ParseInt, Between
<1>4. CASE f.kind = "step"
  BY <1>4, WithinKinds DEF Step, Starts
<1>5. QED
  BY <1>1, <1>2, <1>3, <1>4 DEF Starts

\* The expressions the parser tells apart, and what it answers with.
LEMMA ParseArms ==
  ASSUME NEW e
  PROVE  /\ EveryMinutes(e) =>
              ParseCron(e) = IF e.min.args[1] < MinInterval THEN Defaults ELSE OfPeriod(e.min.args[1])
         /\ ~EveryMinutes(e) /\ EveryHours(e) =>
              ParseCron(e) = [OfPeriod(60 * e.hr.args[1]) EXCEPT !.minute = e.min.args[1]]
         /\ ~EveryMinutes(e) /\ ~EveryHours(e) =>
              /\ EveryHour(e) => ParseCron(e) = [Defaults EXCEPT !.mode = "hourly"]
              /\ ~EveryHour(e) /\ AtTime(e) /\ e.dow = Star /\ e.dom.kind = "num" =>
                   ParseCron(e) = [Timed(e, "monthly") EXCEPT !.monthDay = e.dom.args[1]]
              /\ ~EveryHour(e) /\ AtTime(e) /\ e.dom = Star /\ e.dow.kind \in {"num", "list"} =>
                   ParseCron(e) = [Timed(e, "weekly") EXCEPT !.weekDays = ToSet(e.dow.args)]
              /\ ~EveryHour(e) /\ AtTime(e) /\ EveryDay(e) => ParseCron(e) = Timed(e, "daily")
              /\ ~EveryHour(e) /\ ~AtTime(e) => ParseCron(e) = Defaults
              /\ ~EveryHour(e) /\ e.dom # Star /\ ~(e.dow = Star /\ e.dom.kind = "num") =>
                   ParseCron(e) = Defaults
              /\ ~EveryHour(e) /\ e.dow # Star /\ ~(e.dom = Star /\ e.dow.kind \in {"num", "list"}) =>
                   ParseCron(e) = Defaults
<1> DEFINE minutes == IF e.min.args[1] < MinInterval THEN Defaults ELSE OfPeriod(e.min.args[1])
           hours   == [OfPeriod(60 * e.hr.args[1]) EXCEPT !.minute = e.min.args[1]]
           hourly  == [Defaults EXCEPT !.mode = "hourly"]
           monthly == [Timed(e, "monthly") EXCEPT !.monthDay = e.dom.args[1]]
           weekly  == [Timed(e, "weekly") EXCEPT !.weekDays = ToSet(e.dow.args)]
<1>1. Star.kind = "any"
  BY DEF Star
<1>2. e.dow = Star => e.dow.kind \notin {"num", "list"}
  BY <1>1
<1>3. e.dom = Star => e.dom.kind # "num"
  BY <1>1
<1>4. ParseCron(e) =
        CASE EveryMinutes(e) -> minutes
          [] EveryHours(e) -> hours
          [] EveryHour(e) -> hourly
          [] AtTime(e) /\ e.dom.kind = "num" /\ e.dow = Star -> monthly
          [] AtTime(e) /\ e.dom = Star /\ e.dow.kind \in {"num", "list"} -> weekly
          [] AtTime(e) /\ EveryDay(e) -> Timed(e, "daily")
          [] OTHER -> Defaults
  BY Zenon DEF ParseCron
<1>5. EveryDay(e) <=> e.dom = Star /\ e.month = Star /\ e.dow = Star
  BY DEF EveryDay
<1>6. EveryMinutes(e) => ~EveryHours(e) /\ ~EveryHour(e) /\ ~AtTime(e)
  BY DEF EveryMinutes, EveryHours, EveryHour, AtTime, Starts, Star, Num
<1>7. EveryHours(e) => ~EveryHour(e) /\ ~AtTime(e)
  BY DEF EveryHours, EveryHour, AtTime, Starts, Star, Num
<1>8. EveryHour(e) => ~AtTime(e)
  BY DEF EveryHour, AtTime, Starts, Star, Num
<1> HIDE DEF minutes, hours, hourly, monthly, weekly
<1>9. EveryMinutes(e) => ParseCron(e) = minutes
  BY <1>4, <1>6
<1>10. ~EveryMinutes(e) /\ EveryHours(e) => ParseCron(e) = hours
  BY <1>4, <1>7
<1>11. ASSUME ~EveryMinutes(e), ~EveryHours(e)
      PROVE  /\ EveryHour(e) => ParseCron(e) = hourly
             /\ ~EveryHour(e) /\ AtTime(e) /\ e.dow = Star /\ e.dom.kind = "num" => ParseCron(e) = monthly
             /\ ~EveryHour(e) /\ AtTime(e) /\ e.dom = Star /\ e.dow.kind \in {"num", "list"} =>
                  ParseCron(e) = weekly
             /\ ~EveryHour(e) /\ AtTime(e) /\ EveryDay(e) => ParseCron(e) = Timed(e, "daily")
             /\ ~EveryHour(e) /\ ~AtTime(e) => ParseCron(e) = Defaults
             /\ ~EveryHour(e) /\ e.dom # Star /\ ~(e.dow = Star /\ e.dom.kind = "num") =>
                  ParseCron(e) = Defaults
             /\ ~EveryHour(e) /\ e.dow # Star /\ ~(e.dom = Star /\ e.dow.kind \in {"num", "list"}) =>
                  ParseCron(e) = Defaults
  <2>1. CASE EveryHour(e)
    BY <1>4, <1>11, <1>8, <2>1
  <2>2. CASE ~EveryHour(e) /\ AtTime(e) /\ e.dow = Star /\ e.dom.kind = "num"
    BY <1>2, <1>3, <1>4, <1>5, <1>11, <2>2
  <2>3. CASE ~EveryHour(e) /\ AtTime(e) /\ e.dom = Star /\ e.dow.kind \in {"num", "list"}
    BY <1>2, <1>3, <1>4, <1>5, <1>11, <2>3
  <2>4. CASE ~EveryHour(e) /\ AtTime(e) /\ EveryDay(e)
    BY <1>2, <1>3, <1>4, <1>5, <1>11, <2>4
  <2>5. CASE /\ ~EveryHour(e)
             /\ ~(AtTime(e) /\ e.dow = Star /\ e.dom.kind = "num")
             /\ ~(AtTime(e) /\ e.dom = Star /\ e.dow.kind \in {"num", "list"})
             /\ ~(AtTime(e) /\ EveryDay(e))
    <3>1. ParseCron(e) = Defaults
      BY <1>4, <1>11, <2>5
    <3>2. QED
      BY <2>5, <3>1
  <2>6. QED
    BY <2>1, <2>2, <2>3, <2>4, <2>5
<1>12. QED
  BY <1>9, <1>10, <1>11, Zenon DEF minutes, hours, hourly, monthly, weekly

LEMMA OfPeriodIs ==
  ASSUME NEW n
  PROVE  /\ OfPeriod(n).mode = "interval" /\ OfPeriod(n).intervalMin = n
         /\ OfPeriod(n).hour = 9 /\ OfPeriod(n).minute = 0
         /\ OfPeriod(n).weekDays = {1} /\ OfPeriod(n).monthDay = 1
         /\ DOMAIN OfPeriod(n) = {"mode", "hour", "minute", "weekDays", "monthDay", "intervalMin"}
BY DEF OfPeriod, Defaults

LEMMA TimedIs ==
  ASSUME NEW e, NEW m
  PROVE  /\ Timed(e, m).mode = m /\ Timed(e, m).hour = ParseInt(e.hr) /\ Timed(e, m).minute = ParseInt(e.min)
         /\ Timed(e, m).weekDays = {1} /\ Timed(e, m).monthDay = 1 /\ Timed(e, m).intervalMin = 30
         /\ DOMAIN Timed(e, m) = {"mode", "hour", "minute", "weekDays", "monthDay", "intervalMin"}
BY DEF Timed, Defaults

\* The parser answers with settings the selectors can show.
LEMMA ParsedWithin ==
  ASSUME NEW e, WellFormed(e)
  PROVE  ParseCron(e) \in Parsed
<1>1. 30 \in Sayable /\ Defaults \in Parsed
  BY DEF Defaults, Parsed, Modes, Sayable, MinInterval
<1>2. ASSUME NEW n \in Sayable
      PROVE  OfPeriod(n) \in Parsed
  BY <1>1 DEF OfPeriod, Defaults, Parsed, Modes
<1>3. ASSUME AtTime(e), NEW m \in Modes
      PROVE  Timed(e, m) \in Parsed
  <2>1. ParseInt(e.hr) \in 0..23 /\ ParseInt(e.min) \in 0..59
    BY <1>3, WithinValues DEF AtTime, WellFormed
  <2>2. QED
    BY <1>1, <2>1 DEF Timed, Defaults, Parsed
<1>4. CASE EveryMinutes(e)
  <2>1. e.min.args[1] \in 1..59
    BY <1>4, WithinValues DEF EveryMinutes, WellFormed
  <2>2. e.min.args[1] < MinInterval \/ e.min.args[1] \in Sayable
    BY <2>1 DEF Sayable, MinInterval
  <2>3. QED
    BY <1>1, <1>2, <1>4, <2>2, ParseArms
<1>5. CASE ~EveryMinutes(e) /\ EveryHours(e)
  <2>1. e.hr.args[1] \in 1..23 /\ e.min.args[1] \in 0..59
    BY <1>5, WithinValues DEF EveryHours, WellFormed, Starts, ParseInt
  <2>2. \A h \in 1..23 : 60 * h \in Sayable
    BY DEF Sayable, MinInterval
  <2>3. OfPeriod(60 * e.hr.args[1]) \in Parsed
    BY <1>2, <2>1, <2>2
  <2>4. [OfPeriod(60 * e.hr.args[1]) EXCEPT !.minute = e.min.args[1]] \in Parsed
    BY <2>1, <2>3 DEF Parsed
  <2>5. QED
    BY <1>5, <2>4, ParseArms
<1>6. CASE ~EveryMinutes(e) /\ ~EveryHours(e) /\ EveryHour(e)
  <2>1. [Defaults EXCEPT !.mode = "hourly"] \in Parsed
    BY <1>1 DEF Parsed, Modes
  <2>2. QED
    BY <1>6, <2>1, ParseArms
<1>7. CASE AtTime(e) /\ e.dow = Star /\ e.dom.kind = "num"
  <2>1. e.dom.args[1] \in 1..31
    BY <1>7, WithinValues DEF WellFormed, Starts, ParseInt
  <2>2. [Timed(e, "monthly") EXCEPT !.monthDay = e.dom.args[1]] \in Parsed
    BY <1>3, <1>7, <2>1 DEF Parsed, Modes
  <2>3. QED
    BY <1>4, <1>5, <1>6, <1>7, <2>2, ParseArms
<1>8. CASE AtTime(e) /\ e.dom = Star /\ e.dow.kind \in {"num", "list"}
  <2>1. ToSet(e.dow.args) \subseteq 0..6
    BY <1>8, WithinValues DEF WellFormed
  <2>2. [Timed(e, "weekly") EXCEPT !.weekDays = ToSet(e.dow.args)] \in Parsed
    BY <1>3, <1>8, <2>1 DEF Parsed, Modes
  <2>3. QED
    BY <1>4, <1>5, <1>6, <1>8, <2>2, ParseArms
<1>9. CASE AtTime(e) /\ EveryDay(e)
  BY <1>3, <1>4, <1>5, <1>6, <1>9, ParseArms DEF Modes
<1>10. QED
  BY <1>1, <1>4, <1>5, <1>6, <1>7, <1>8, <1>9, ParseArms DEF AtTime, EveryDay

LEMMA AdoptOK ==
  ASSUME NEW e, WellFormed(e)
  PROVE  EditorOK(Adopt(e))
BY ParsedWithin DEF Adopt, EditorOK, Parsed

\* What each mode builds.
LEMMA Built ==
  ASSUME NEW ed
  PROVE  /\ ed.mode = "daily" => BuildCron(ed) = Expr(Num(ed.minute), Num(ed.hour), Star, Star)
         /\ ed.mode = "weekly" =>
              BuildCron(ed) = Expr(Num(ed.minute), Num(ed.hour), Star,
                                   IF ed.weekDays = {} THEN Star ELSE List(Increasing(ed.weekDays)))
         /\ ed.mode = "monthly" =>
              BuildCron(ed) = Expr(Num(ed.minute), Num(ed.hour), Num(ed.monthDay), Star)
         /\ ed.mode = "hourly" => BuildCron(ed) = Expr(Num(0), Star, Star, Star)
         /\ ed.mode = "interval" =>
              BuildCron(ed) = IF ed.intervalMin < 60
                                THEN Expr(Step(ed.intervalMin), Star, Star, Star)
                                ELSE Expr(Num(0), Hourly(ed.intervalMin), Star, Star)
         /\ ed.mode = "custom" => BuildCron(ed) = ed.custom
<1>1. CASE ed.mode = "daily"
  BY <1>1 DEF BuildCron
<1>2. CASE ed.mode = "weekly"
  BY <1>2 DEF BuildCron
<1>3. CASE ed.mode = "monthly"
  BY <1>3 DEF BuildCron
<1>4. CASE ed.mode = "hourly"
  BY <1>4 DEF BuildCron
<1>5. CASE ed.mode = "interval"
  BY <1>5 DEF BuildCron
<1>6. CASE ed.mode = "custom"
  BY <1>6 DEF BuildCron
<1>7. QED
  BY <1>1, <1>2, <1>3, <1>4, <1>5, <1>6, Zenon

\* A list of numbers is a field of them.
LEMMA ListWithin ==
  ASSUME NEW lo \in Nat, NEW hi \in Nat, NEW s \in Seq(lo..hi), Len(s) # 0
  PROVE  /\ Within(List(s), lo, hi)
         /\ List(s).kind \in {"num", "list"} /\ List(s).args = s
<1>1. CASE Len(s) = 1
  <2>1. s[1] \in lo..hi /\ s = <<s[1]>>
    BY <1>1
  <2>2. List(s) = Num(s[1])
    BY <1>1 DEF List
  <2>3. QED
    BY <2>1, <2>2 DEF Within, Num
<1>2. CASE Len(s) # 1
  <2>1. Len(s) > 1
    <3>1. Len(s) \in Nat
      OBVIOUS
    <3>2. \A n \in Nat : n # 0 /\ n # 1 => n > 1
      OBVIOUS
    <3>3. QED
      BY <1>2, <3>1, <3>2, Zenon
  <2>2. List(s) = [kind |-> "list", args |-> s]
    BY <1>2 DEF List
  <2>3. QED
    BY <2>1, <2>2 DEF Within
<1>3. QED
  BY <1>1, <1>2

LEMMA SmallSets ==
  ASSUME NEW n \in Nat, NEW S \in SUBSET (0..n)
  PROVE  S \in SUBSET Int /\ IsFiniteSet(S)
<1>1. IsFiniteSet(0..n)
  BY FS_Interval
<1>2. S \in SUBSET Int
  OBVIOUS
<1>3. QED
  BY <1>1, <1>2, FS_Subset, Zenon

\* A list of days in order.
LEMMA DaysWithin ==
  ASSUME NEW n \in Nat, NEW S \in SUBSET (0..n), S # {}
  PROVE  /\ Within(List(Increasing(S)), 0, n)
         /\ List(Increasing(S)).kind \in {"num", "list"}
         /\ ToSet(List(Increasing(S)).args) = S
<1>1. Increasing(S) \in Seq(S) /\ ToSet(Increasing(S)) = S
  BY SmallSets, IncreasingMembers
<1>2. Increasing(S) \in Seq(0..n) /\ Len(Increasing(S)) # 0
  <2>1. ASSUME NEW s \in Seq(S), ToSet(s) = S
        PROVE  s \in Seq(0..n) /\ Len(s) # 0
    <3>1. Len(s) # 0
      BY <2>1 DEF ToSet
    <3>2. Len(s) \in Nat /\ s \in [1..Len(s) -> S]
      OBVIOUS
    <3>3. s \in [1..Len(s) -> 0..n]
      BY <3>2
    <3>4. s \in Seq(0..n)
      BY <3>2, <3>3
    <3>5. QED
      BY <3>1, <3>4
  <2>2. QED
    BY <1>1, <2>1, Zenon
<1>3. QED
  BY <1>1, <1>2, ListWithin

\* A period of whole hours is printed as a step.
LEMMA HourlySteps ==
  ASSUME NEW n \in Sayable, ~(n < 60)
  PROVE  /\ n \div 60 \in 1..23 /\ 60 * (n \div 60) = n
         /\ Hourly(n) = Step(n \div 60)
BY DEF Sayable, Hourly, MinInterval

\* What an editor within its selectors builds is well formed.
LEMMA BuildsWithin ==
  ASSUME NEW ed, EditorOK(ed)
  PROVE  WellFormed(BuildCron(ed))
<1>1. /\ ed.mode \in Modes /\ ed.hour \in 0..23 /\ ed.minute \in 0..59
      /\ ed.weekDays \in SUBSET (0..6) /\ ed.monthDay \in 1..31 /\ ed.intervalMin \in Sayable
  BY DEF EditorOK
<1>2. \A lo, hi : Within(Star, lo, hi)
  BY DEF Within
<1>3. Within(Num(ed.minute), 0, 59) /\ Within(Num(ed.hour), 0, 23) /\ Within(Num(0), 0, 59)
  <2>1. \A lo, hi : \A n \in lo..hi : Within(Num(n), lo, hi)
    BY Zenon DEF Within
  <2>2. 0 \in 0..59
    OBVIOUS
  <2>3. QED
    BY <1>1, <2>1, <2>2, Zenon
<1>4. ASSUME NEW min, NEW hr, NEW dom, NEW dow,
             Within(min, 0, 59), Within(hr, 0, 23), Within(dom, 1, 31), Within(dow, 0, 6)
      PROVE  WellFormed(Expr(min, hr, dom, dow))
  BY <1>2, <1>4 DEF WellFormed, Expr
<1>5. CASE ed.mode = "daily"
  BY <1>2, <1>3, <1>4, <1>5, Built
<1>6. CASE ed.mode = "weekly"
  <2>1. Within(IF ed.weekDays = {} THEN Star ELSE List(Increasing(ed.weekDays)), 0, 6)
    BY <1>1, <1>2, DaysWithin
  <2>2. QED
    BY <1>2, <1>3, <1>4, <1>6, <2>1, Built
<1>7. CASE ed.mode = "monthly"
  <2>1. Within(Num(ed.monthDay), 1, 31)
    BY <1>1 DEF Within
  <2>2. QED
    BY <1>2, <1>3, <1>4, <1>7, <2>1, Built
<1>8. CASE ed.mode = "hourly"
  BY <1>2, <1>3, <1>4, <1>8, Built
<1>9. CASE ed.mode = "interval" /\ ed.intervalMin < 60
  <2>1. ed.intervalMin \in 1..59
    BY <1>1, <1>9 DEF Sayable, MinInterval
  <2>2. Within(Step(ed.intervalMin), 0, 59)
    BY <2>1 DEF Within
  <2>3. QED
    BY <1>2, <1>4, <1>9, <2>2, Built
<1>10. CASE ed.mode = "interval" /\ ~(ed.intervalMin < 60)
  <2>1. Within(Hourly(ed.intervalMin), 0, 23)
    BY <1>1, <1>10, HourlySteps DEF Within
  <2>2. QED
    BY <1>2, <1>3, <1>4, <1>10, <2>1, Built
<1>11. CASE ed.mode = "custom"
  BY <1>11, Built DEF EditorOK
<1>12. QED
  BY <1>1, <1>5, <1>6, <1>7, <1>8, <1>9, <1>10, <1>11 DEF Modes

\* A click leaves the editor within its selectors.
LEMMA ClicksWithin ==
  ASSUME WellFormedData, EditorOK(editor), NEW ed \in Clicks
  PROVE  EditorOK(ed)
<1> USE DEF EditorOK
<1>1. CASE ed \in Tabs
  BY <1>1 DEF Tabs
<1>2. CASE ed \in Times
  BY <1>2, EditorOffers DEF Times
<1>3. CASE ed \in {[editor EXCEPT !.weekDays = Toggled(@, d)] : d \in WeekDays}
  <2>1. PICK d \in WeekDays : ed = [editor EXCEPT !.weekDays = Toggled(@, d)]
    BY <1>3
  <2>2. Toggled(editor.weekDays, d) \in SUBSET (0..6)
    BY EditorOffers DEF Toggled
  <2>3. QED
    BY <2>1, <2>2
<1>4. CASE ed \in {[editor EXCEPT !.monthDay = d] : d \in MonthDays}
  BY <1>4, EditorOffers
<1>5. CASE ed \in {[editor EXCEPT !.intervalMin = n] : n \in Periods}
  BY <1>5, EditorOffers DEF Sayable
<1>6. CASE ed \in {[editor EXCEPT !.custom = e] : e \in Typed}
  BY <1>6 DEF WellFormedData
<1>7. QED
  BY <1>1, <1>2, <1>3, <1>4, <1>5, <1>6 DEF Clicks, Selectors, Modes

\* Nothing that is not well formed comes into the form.
LEMMA WellFormedStarts ==
  ASSUME WellFormedData, FormInit
  PROVE  WellFormedInv
<1>1. WellFormed(NewForm)
  BY DEF NewForm, Expr, WellFormed, Within
<1>2. row.cron # None => WellFormed(row.cron)
  BY DEF FormInit, Rows, NoRow, WellFormedData
<1>3. QED
  BY <1>1, <1>2, AdoptOK DEF FormInit, Init, WellFormedInv

LEMMA WellFormedKept ==
  ASSUME WellFormedData, SaveInv, WellFormedInv, [Next]_allVars
  PROVE  WellFormedInv'
<1>1. WellFormed(BuildCron(editor))
  BY BuildsWithin DEF WellFormedInv
<1>2. (row.cron # None => WellFormed(row.cron))'
  <2>1. CASE Store
    <3>1. row' = [cron |-> sent, images |-> Combined] /\ save.at = "sent"
      BY <2>1 DEF Store
    <3>2. sent = value
      BY <3>1 DEF SaveInv, Sending
    <3>3. QED
      BY <3>1, <3>2 DEF WellFormedInv
  <2>2. CASE row' \in Rows
    BY <2>2 DEF Rows, WellFormedData
  <2>3. CASE row' = row
    BY <2>3 DEF WellFormedInv
  <2>4. QED
    BY <2>1, <2>2, <2>3, RowMoves
<1>3. CASE isEdit /\ Answer(row.cron)
  BY <1>2, <1>3 DEF Answer, WellFormedInv
<1>4. CASE Commit
  <2>1. EditorOK(editor')
    BY <1>4, AdoptOK DEF Commit, WellFormedInv
  <2>2. WellFormed(value') /\ answer' = None
    BY <1>1, <1>4 DEF Commit, WellFormedInv
  <2>3. QED
    BY <1>2, <2>1, <2>2 DEF WellFormedInv
<1>5. CASE Edit
  <2>1. EditorOK(editor')
    BY <1>5, ClicksWithin DEF Edit, WellFormedInv
  <2>2. WellFormed(value')
    BY <1>5, <2>1, BuildsWithin DEF Edit
  <2>3. QED
    BY <1>2, <1>5, <2>1, <2>2 DEF Edit, WellFormedInv
<1>6. CASE UNCHANGED field
  BY <1>2, <1>6 DEF field, WellFormedInv
<1>7. QED
  BY <1>3, <1>4, <1>5, <1>6, FieldMoves

----------------------------------------------------------------------------
(* What the editor builds, opened again *)

\* The time of an expression that starts with two numbers.
LEMMA TimeRead ==
  ASSUME NEW m, NEW h, NEW dom, NEW dow
  PROVE  LET e == Expr(Num(m), Num(h), dom, dow)
         IN  /\ AtTime(e) /\ ~EveryMinutes(e) /\ ~EveryHours(e) /\ ~EveryHour(e)
             /\ e.dom = dom /\ e.dow = dow /\ (EveryDay(e) <=> dom = Star /\ dow = Star)
             /\ ParseInt(e.hr) = h /\ ParseInt(e.min) = m
BY DEF Expr, Num, Star, AtTime, Starts, EveryMinutes, EveryHours, EveryHour, EveryDay, ParseInt

\* Where the hour and the minute come back, so does the rest.
LEMMA DailyReopens ==
  ASSUME NEW m, NEW h
  PROVE  LET e == Expr(Num(m), Num(h), Star, Star) IN Shows(e)
<1> DEFINE e == Expr(Num(m), Num(h), Star, Star)
<1>1. ParseCron(e) = Timed(e, "daily") /\ ParseInt(e.hr) = h /\ ParseInt(e.min) = m
  BY TimeRead, ParseArms
<1> HIDE DEF e
<1>2. Adopt(e).mode = "daily" /\ Adopt(e).hour = h /\ Adopt(e).minute = m
  BY <1>1, TimedIs DEF Adopt
<1>3. QED
  BY <1>2, Built DEF Shows, e

\* The default expression of a new form is displayed as itself.
LEMMA NewFormShown == BuildCron(Adopt(NewForm)) = NewForm
BY DailyReopens DEF NewForm, Shows

LEMMA MonthlyReopens ==
  ASSUME NEW m, NEW h, NEW d
  PROVE  Shows(Expr(Num(m), Num(h), Num(d), Star))
<1> DEFINE e == Expr(Num(m), Num(h), Num(d), Star)
<1>1. ParseCron(e) = [Timed(e, "monthly") EXCEPT !.monthDay = e.dom.args[1]]
  <2>1. e.dow = Star /\ e.dom.kind = "num" /\ AtTime(e) /\ ~EveryMinutes(e) /\ ~EveryHours(e) /\ ~EveryHour(e)
    BY TimeRead DEF Num
  <2>2. QED
    BY <2>1, ParseArms
<1>2. ParseInt(e.hr) = h /\ ParseInt(e.min) = m /\ e.dom.args[1] = d
  BY TimeRead DEF Num
<1> HIDE DEF e
<1>3. ParseCron(e).mode = "monthly" /\ ParseCron(e).hour = h /\ ParseCron(e).minute = m /\ ParseCron(e).monthDay = d
  BY <1>1, <1>2, TimedIs
<1>4. Adopt(e).mode = "monthly" /\ Adopt(e).hour = h /\ Adopt(e).minute = m /\ Adopt(e).monthDay = d
  BY <1>3 DEF Adopt
<1>5. QED
  BY <1>4, Built DEF Shows, e

\* A list of days is read as the set it was made from.
LEMMA WeeklyReopens ==
  ASSUME NEW m, NEW h, NEW S \in SUBSET (0..6), S # {}
  PROVE  Shows(Expr(Num(m), Num(h), Star, List(Increasing(S))))
<1> DEFINE days == List(Increasing(S))
           e    == Expr(Num(m), Num(h), Star, days)
<1>1. days.kind \in {"num", "list"} /\ ToSet(days.args) = S
  <2>1. \A n \in Nat : S \in SUBSET (0..n) => days.kind \in {"num", "list"} /\ ToSet(days.args) = S
    BY DaysWithin
  <2>2. 6 \in Nat
    OBVIOUS
  <2>3. QED
    BY <2>1, <2>2, Zenon
<1> HIDE DEF days
<1>2. ParseCron(e) = [Timed(e, "weekly") EXCEPT !.weekDays = ToSet(e.dow.args)]
  BY <1>1, TimeRead, ParseArms
<1>3. ParseInt(e.hr) = h /\ ParseInt(e.min) = m /\ ToSet(e.dow.args) = S
  BY <1>1, TimeRead
<1> HIDE DEF e
<1>4. ParseCron(e).mode = "weekly" /\ ParseCron(e).hour = h /\ ParseCron(e).minute = m /\ ParseCron(e).weekDays = S
  BY <1>2, <1>3, TimedIs
<1>5. Adopt(e).mode = "weekly" /\ Adopt(e).hour = h /\ Adopt(e).minute = m /\ Adopt(e).weekDays = S
  BY <1>4 DEF Adopt
<1>6. QED
  BY <1>5, Built DEF Shows, e, days

LEMMA HourlyReopens == Shows(Expr(Num(0), Star, Star, Star))
<1> DEFINE e == Expr(Num(0), Star, Star, Star)
<1>1. ~EveryMinutes(e) /\ ~EveryHours(e) /\ EveryHour(e)
  BY DEF EveryMinutes, EveryHours, EveryHour, EveryDay, Expr, Num, Star
<1> HIDE DEF e
<1>2. ParseCron(e).mode = "hourly"
  BY <1>1, ParseArms DEF Defaults
<1>3. Adopt(e).mode = "hourly"
  BY <1>2 DEF Adopt
<1>4. QED
  BY <1>3, Built DEF Shows, e

LEMMA MinutesReopen ==
  ASSUME NEW n \in Sayable, n < 60
  PROVE  Shows(Expr(Step(n), Star, Star, Star))
<1> DEFINE e == Expr(Step(n), Star, Star, Star)
<1>1. EveryMinutes(e) /\ e.min.args[1] = n
  BY DEF EveryMinutes, EveryDay, Expr, Step, Star
<1> HIDE DEF e
<1>2. ParseCron(e) = OfPeriod(n)
  <2>1. ~(n < MinInterval)
    BY DEF Sayable, MinInterval
  <2>2. QED
    BY <1>1, <2>1, ParseArms
<1>3. Adopt(e).mode = "interval" /\ Adopt(e).intervalMin = n
  BY <1>2, OfPeriodIs DEF Adopt
<1>4. QED
  BY <1>3, Built DEF Shows, e

LEMMA HoursReopen ==
  ASSUME NEW n \in Sayable, ~(n < 60)
  PROVE  Shows(Expr(Num(0), Hourly(n), Star, Star))
<1> DEFINE e == Expr(Num(0), Step(n \div 60), Star, Star)
<1>1. EveryHours(e) /\ ~EveryMinutes(e) /\ e.hr.args[1] = n \div 60
  BY DEF EveryHours, EveryMinutes, EveryDay, Expr, Step, Star, Num
<1>2. ParseCron(e) = [OfPeriod(60 * e.hr.args[1]) EXCEPT !.minute = e.min.args[1]]
  BY <1>1, ParseArms
<1>3. 60 * e.hr.args[1] = n
  BY <1>1, HourlySteps
<1>4. e = Expr(Num(0), Hourly(n), Star, Star)
  BY HourlySteps
<1> HIDE DEF e
<1>5. ParseCron(e).mode = "interval" /\ ParseCron(e).intervalMin = n
  BY <1>2, <1>3, OfPeriodIs
<1>6. Adopt(e).mode = "interval" /\ Adopt(e).intervalMin = n
  BY <1>5 DEF Adopt
<1>7. QED
  BY <1>4, <1>6, Built DEF Shows

\* Whatever the editor's own modes build it shows as it is.
LEMMA OwnModesShown ==
  ASSUME NEW ed, EditorOK(ed), ed.mode # "custom"
  PROVE  Shows(BuildCron(ed))
<1>1. /\ ed.mode \in Modes /\ ed.weekDays \in SUBSET (0..6) /\ ed.intervalMin \in Sayable
  BY DEF EditorOK
<1>2. CASE ed.mode = "daily"
  BY <1>2, Built, DailyReopens
<1>3. CASE ed.mode = "weekly" /\ ed.weekDays = {}
  BY <1>3, Built, DailyReopens
<1>4. CASE ed.mode = "weekly" /\ ed.weekDays # {}
  BY <1>1, <1>4, Built, WeeklyReopens
<1>5. CASE ed.mode = "monthly"
  BY <1>5, Built, MonthlyReopens
<1>6. CASE ed.mode = "hourly"
  BY <1>6, Built, HourlyReopens
<1>7. CASE ed.mode = "interval" /\ ed.intervalMin < 60
  BY <1>1, <1>7, Built, MinutesReopen
<1>8. CASE ed.mode = "interval" /\ ~(ed.intervalMin < 60)
  BY <1>1, <1>8, Built, HoursReopen
<1>9. QED
  BY <1>1, <1>2, <1>3, <1>4, <1>5, <1>6, <1>7, <1>8 DEF Modes

----------------------------------------------------------------------------
(* What the editor builds, against the two rules *)

\* An expression that says its period passes by its period alone.
LEMMA PeriodAccepted ==
  ASSUME NEW e, IsValidCronSyntax(e), ExplicitInterval(e) # 0, ~TooShort(ExplicitInterval(e))
  PROVE  AlwaysValidCron(e)
BY DEF AlwaysValidCron, AtLeastMinInterval

\* An expression that says none passes if its runs are far enough apart.
LEMMA GapsAccepted ==
  ASSUME NEW e, IsValidCronSyntax(e), ExplicitInterval(e) = 0,
         \A r \in Runs(e) : ~TooShort(GapAfter(Runs(e), r, 1440))
  PROVE  AlwaysValidCron(e)
<1>1. ASSUME NEW first \in Runs(e)
      PROVE  AtLeastMinInterval(e, first)
  <2>1. Window(Runs(e), first) \subseteq Runs(e)
    BY DEF Window
  <2>2. QED
    BY <2>1 DEF AtLeastMinInterval
<1>2. QED
  BY <1>1 DEF AlwaysValidCron

\* A well-formed expression has fields a cron parser takes.
LEMMA SyntaxAccepted ==
  ASSUME NEW e, WellFormed(e)
  PROVE  IsValidCronSyntax(e)
BY WithinKinds DEF WellFormed, IsValidCronSyntax, Fields

\* The least gap is a gap, if there is a least one.
LEMMA LeastGap ==
  ASSUME NEW S, NEW g \in S, \A x \in S : g <= x, S \subseteq Int
  PROVE  Min(S) = g
<1>1. Min(S) \in S /\ \A x \in S : Min(S) <= x
  BY DEF Min
<1>2. Min(S) <= g /\ g <= Min(S)
  BY <1>1, Zenon
<1>3. \A x, y \in Int : x <= y /\ y <= x => x = y
  OBVIOUS
<1>4. Min(S) \in Int /\ g \in Int
  BY <1>1, Zenon
<1>5. QED
  BY <1>2, <1>3, <1>4, Zenon

\* A single run a day is a day from the next.
LEMMA OnceADay ==
  ASSUME NEW m \in 0..59, NEW h \in 0..23, NEW dom, NEW dow
  PROVE  LET e == Expr(Num(m), Num(h), dom, dow)
         IN  /\ Runs(e) = {60 * h + m}
             /\ \A r \in Runs(e) : GapAfter(Runs(e), r, 1440) = 1440
<1> DEFINE e == Expr(Num(m), Num(h), dom, dow)
           t == 60 * h + m
<1>1. Matching(e.hr, 0, 23) = {h} /\ Matching(e.min, 0, 59) = {m}
  BY DEF Expr, Matching, Num, ToSet
<1>2. Runs(e) = {t}
  BY <1>1 DEF Runs
<1>3. Ahead(t, t, 1440) = 1440
  BY DEF Ahead
<1>4. GapAfter({t}, t, 1440) = 1440
  <2>1. {Ahead(t, y, 1440) : y \in {t}} = {1440}
    BY <1>3
  <2>2. Min({1440}) = 1440
    BY DEF Min
  <2>3. QED
    BY <2>1, <2>2 DEF GapAfter
<1>5. QED
  BY <1>2, <1>4

\* A run at every full hour is an hour from the next.
LEMMA HoursApart ==
  ASSUME NEW r \in {60 * h : h \in 0..23}
  PROVE  GapAfter({60 * h : h \in 0..23}, r, 1440) = 60
<1> DEFINE hours == {60 * h : h \in 0..23}
           gaps  == {Ahead(r, y, 1440) : y \in hours}
<1>1. PICK h \in 0..23 : r = 60 * h
  OBVIOUS
<1>2. ASSUME NEW k \in 0..23
      PROVE  Ahead(r, 60 * k, 1440) \in Int /\ 60 <= Ahead(r, 60 * k, 1440)
  BY <1>1 DEF Ahead
<1>3. \A g \in gaps : g \in Int /\ 60 <= g
  BY <1>2
<1>4. 60 \in gaps
  <2>1. CASE h = 23
    <3>1. Ahead(r, 60 * 0, 1440) = 60
      BY <1>1, <2>1 DEF Ahead
    <3>2. 60 * 0 \in hours
      OBVIOUS
    <3>3. QED
      BY <3>1, <3>2
  <2>2. CASE h # 23
    <3>1. h + 1 \in 0..23 /\ Ahead(r, 60 * (h + 1), 1440) = 60
      BY <1>1, <2>2 DEF Ahead
    <3>2. 60 * (h + 1) \in hours
      BY <3>1
    <3>3. QED
      BY <3>1, <3>2
  <2>3. QED
    BY <2>1, <2>2
<1> HIDE DEF gaps
<1>5. Min(gaps) = 60
  BY <1>3, <1>4, LeastGap
<1>6. QED
  BY <1>5 DEF gaps, GapAfter

\* Whatever the editor's own modes build passes both rules.
LEMMA OwnModesPass ==
  ASSUME NEW ed, EditorOK(ed), ed.mode # "custom"
  PROVE  ~ViolatesMinInterval(BuildCron(ed)) /\ AlwaysValidCron(BuildCron(ed))
<1> DEFINE e == BuildCron(ed)
<1>1. /\ ed.mode \in Modes /\ ed.hour \in 0..23 /\ ed.minute \in 0..59
      /\ ed.weekDays \in SUBSET (0..6) /\ ed.monthDay \in 1..31 /\ ed.intervalMin \in Sayable
  BY DEF EditorOK
<1>2. IsValidCronSyntax(e)
  BY BuildsWithin, SyntaxAccepted
<1>3. ASSUME NEW n, NEW hr, NEW dom, NEW dow
      PROVE  ~ViolatesMinInterval(Expr(Num(n), hr, dom, dow))
  BY DEF ViolatesMinInterval, Expr, Num
<1>4. ASSUME NEW dom, NEW dow, e = Expr(Num(ed.minute), Num(ed.hour), dom, dow)
      PROVE  AlwaysValidCron(e)
  <2>1. ExplicitInterval(e) = 0
    BY <1>4 DEF ExplicitInterval, EveryMinutes, Expr, Num
  <2>2. \A r \in Runs(e) : GapAfter(Runs(e), r, 1440) = 1440
    BY <1>1, <1>4, OnceADay
  <2>3. ~TooShort(1440)
    BY DEF TooShort, MinInterval
  <2>4. QED
    BY <1>2, <2>1, <2>2, <2>3, GapsAccepted
<1>5. CASE ed.mode \in {"daily", "weekly", "monthly"}
  BY <1>3, <1>4, <1>5, Built
<1>6. CASE ed.mode = "hourly"
  <2>1. e = Expr(Num(0), Star, Star, Star)
    BY <1>6, Built
  <2>2. ExplicitInterval(e) = 0
    BY <2>1 DEF ExplicitInterval, EveryMinutes, Expr, Num, Star
  <2>3. Runs(e) = {60 * h : h \in 0..23}
    <3>1. Matching(e.hr, 0, 23) = 0..23 /\ Matching(e.min, 0, 59) = {0}
      BY <2>1 DEF Expr, Matching, Num, Star, ToSet
    <3>2. QED
      BY <3>1 DEF Runs
  <2>4. ~TooShort(60)
    BY DEF TooShort, MinInterval
  <2>5. \A r \in Runs(e) : ~TooShort(GapAfter(Runs(e), r, 1440))
    BY <2>3, <2>4, HoursApart
  <2>6. QED
    BY <1>2, <1>3, <2>1, <2>2, <2>5, GapsAccepted
<1>7. CASE ed.mode = "interval" /\ ed.intervalMin < 60
  <2>1. e = Expr(Step(ed.intervalMin), Star, Star, Star)
    BY <1>7, Built
  <2>2. EveryMinutes(e) /\ e.min.args[1] = ed.intervalMin /\ e.min.kind = "step"
    BY <2>1 DEF EveryMinutes, EveryDay, Expr, Step, Star
  <2>3. ExplicitInterval(e) = ed.intervalMin
    BY <2>2 DEF ExplicitInterval, EveryMinutes, Num
  <2>4. ~TooShort(ed.intervalMin) /\ ed.intervalMin # 0
    BY <1>1 DEF TooShort, Sayable, MinInterval
  <2>5. ~ViolatesMinInterval(e)
    BY <2>2, <2>4 DEF ViolatesMinInterval
  <2>6. QED
    BY <1>2, <2>3, <2>4, <2>5, PeriodAccepted
<1>8. CASE ed.mode = "interval" /\ ~(ed.intervalMin < 60)
  <2>1. e = Expr(Num(0), Step(ed.intervalMin \div 60), Star, Star)
    BY <1>1, <1>8, Built, HourlySteps
  <2>2. ~EveryMinutes(e) /\ e.min = Num(0) /\ e.hr.kind = "step" /\ EveryDay(e) /\ e.hr.args[1] = ed.intervalMin \div 60
    BY <2>1 DEF EveryMinutes, EveryDay, Expr, Step, Star, Num
  <2>3. ExplicitInterval(e) = 60 * (ed.intervalMin \div 60)
    BY <2>2 DEF ExplicitInterval
  <2>4. ExplicitInterval(e) = ed.intervalMin
    BY <1>1, <1>8, <2>3, HourlySteps
  <2>5. ~TooShort(ed.intervalMin) /\ ed.intervalMin # 0
    BY <1>1 DEF TooShort, Sayable, MinInterval
  <2>6. QED
    BY <1>2, <1>3, <2>1, <2>4, <2>5, PeriodAccepted
<1>9. QED
  BY <1>1, <1>5, <1>6, <1>7, <1>8 DEF Modes

----------------------------------------------------------------------------
(* Flags and counters *)

BoundsInv ==
  /\ internal \in BOOLEAN /\ ready \in BOOLEAN /\ runNow \in BOOLEAN /\ isEdit \in BOOLEAN
  /\ loads \in 0..MaxLoads /\ edits \in 0..MaxEdits /\ picked <= MaxImages

\* The user's clicks are counted, and every selection of files is cut to what fits.
LEMMA BoundsKept ==
  ASSUME ImageShape, BoundsInv, [Next]_allVars
  PROVE  BoundsInv'
<1> USE DEF theForm, history, vars
<1>1. CASE Answered
  <2>1. loads' \in 0..MaxLoads
    BY <1>1, EditorBounds DEF Answered, Answer, BoundsInv
  <2>2. QED
    BY <1>1, <2>1 DEF Answered, Answer, BoundsInv
<1>2. CASE Committed
  <2>1. internal' \in BOOLEAN /\ ready' \in BOOLEAN /\ runNow' \in BOOLEAN
    BY <1>2, Zenon DEF Committed, Commit, RunNowReset, BoundsInv
  <2>2. UNCHANGED <<isEdit, loads, edits, picked>>
    BY <1>2 DEF Committed, Commit
  <2>3. QED
    BY <2>1, <2>2 DEF BoundsInv
<1>3. ASSUME edits < MaxEdits, edits' = edits + 1
      PROVE  edits' \in 0..MaxEdits
  BY <1>3, EditorBounds DEF BoundsInv
<1>4. CASE CronEdited
  <2>1. internal' \in BOOLEAN /\ edits' \in 0..MaxEdits
    BY <1>3, <1>4 DEF CronEdited, Edit
  <2>2. QED
    BY <1>4, <2>1 DEF CronEdited, Edit, BoundsInv
<1>5. CASE Fills \/ TicksRunNow
  <2>1. edits' \in 0..MaxEdits /\ UNCHANGED <<internal, isEdit, loads, picked>>
    BY <1>3, <1>5 DEF Fills, TicksRunNow, Touches
  <2>2. ready' \in BOOLEAN /\ runNow' \in BOOLEAN
    BY <1>5 DEF Fills, TicksRunNow, BoundsInv
  <2>3. QED
    BY <2>1, <2>2 DEF BoundsInv
<1>6. ASSUME NEW n \in Picks, SelectImages(n)
      PROVE  BoundsInv'
  <2>1. edits' \in 0..MaxEdits /\ UNCHANGED <<internal, isEdit, loads, ready, runNow>>
    BY <1>3, <1>6 DEF SelectImages, Touches
  <2>2. picked' <= MaxImages
    BY <1>6, AddedFits DEF SelectImages, BoundsInv
  <2>3. QED
    BY <2>1, <2>2 DEF BoundsInv
<1>7. CASE RemoveSelectedFile \/ \E i \in kept : RemoveExistingImage(i)
  <2>1. edits' \in 0..MaxEdits /\ UNCHANGED <<internal, isEdit, loads, ready, runNow>>
    BY <1>3, <1>7 DEF RemoveSelectedFile, RemoveExistingImage, Touches
  <2>2. picked' <= MaxImages
    BY <1>7 DEF RemoveSelectedFile, RemoveExistingImage, BoundsInv, ImageShape, MaxImages
  <2>3. QED
    BY <2>1, <2>2 DEF BoundsInv
<1>8. CASE OnSubmit \/ Upload \/ Store \/ Reply \/ SavedElsewhere
  BY <1>8 DEF OnSubmit, Submit, Upload, Store, Reply, SavedElsewhere, BoundsInv
<1>9. CASE Refuse \/ Fail
  BY <1>9 DEF Refuse, Fail, Ends, BoundsInv
<1>10. CASE UNCHANGED allVars
  BY <1>10 DEF allVars, formVars, BoundsInv
<1>11. QED
  BY <1>1, <1>2, <1>4, <1>5, <1>6, <1>7, <1>8, <1>9, <1>10 DEF Next

----------------------------------------------------------------------------
(* The expressions that survive the editor *)

\* One the parser leaves to custom mode, or one that a mode of the editor
\* writes: with zero minutes on the hour, single numbers for the time, and the
\* days of the week in order, each once.
Plain(e) ==
  \/ ParseCron(e).mode = "custom"
  \/ \E n \in Sayable : e = IF n < 60 THEN Expr(Step(n), Star, Star, Star)
                                      ELSE Expr(Num(0), Step(n \div 60), Star, Star)
  \/ e = Expr(Num(0), Star, Star, Star)
  \/ \E m \in 0..59, h \in 0..23 :
       \/ e = Expr(Num(m), Num(h), Star, Star)
       \/ \E d \in 1..31 : e = Expr(Num(m), Num(h), Num(d), Star)
       \/ \E S \in SUBSET (0..6) : S # {} /\ e = Expr(Num(m), Num(h), Star, List(Increasing(S)))

LEMMA CustomShown ==
  ASSUME NEW e, ParseCron(e).mode = "custom"
  PROVE  Shows(e)
<1>1. Adopt(e).mode = "custom" /\ Adopt(e).custom = e
  BY DEF Adopt
<1>2. QED
  BY <1>1, Built DEF Shows

LEMMA PlainShown ==
  ASSUME NEW e, Plain(e)
  PROVE  Shows(e)
<1>1. CASE ParseCron(e).mode = "custom"
  BY <1>1, CustomShown
<1>2. CASE \E n \in Sayable : e = IF n < 60 THEN Expr(Step(n), Star, Star, Star)
                                            ELSE Expr(Num(0), Step(n \div 60), Star, Star)
  BY <1>2, MinutesReopen, HoursReopen, HourlySteps
<1>3. CASE e = Expr(Num(0), Star, Star, Star)
  BY <1>3, HourlyReopens
<1>4. ASSUME NEW m \in 0..59, NEW h \in 0..23,
             \/ e = Expr(Num(m), Num(h), Star, Star)
             \/ \E d \in 1..31 : e = Expr(Num(m), Num(h), Num(d), Star)
             \/ \E S \in SUBSET (0..6) : S # {} /\ e = Expr(Num(m), Num(h), Star, List(Increasing(S)))
      PROVE  Shows(e)
  <2>1. CASE e = Expr(Num(m), Num(h), Star, Star)
    BY <2>1, DailyReopens
  <2>2. CASE \E d \in 1..31 : e = Expr(Num(m), Num(h), Num(d), Star)
    BY <2>2, MonthlyReopens
  <2>3. ASSUME NEW S \in SUBSET (0..6), S # {}, e = Expr(Num(m), Num(h), Star, List(Increasing(S)))
        PROVE  Shows(e)
    BY <2>3, WeeklyReopens, Zenon
  <2>4. QED
    BY <1>4, <2>1, <2>2, <2>3, Zenon
<1>5. QED
  BY <1>1, <1>2, <1>3, <1>4 DEF Plain

\* Opening the form and leaving its cron field alone brings back the expression
\* exactly if it is plain (parseCron and buildCron of CronBuilder.tsx): every other
\* well-formed expression is displayed, and emitted, as a different one.
THEOREM ShownIfPlain == \A e : WellFormed(e) => (Shows(e) <=> Plain(e))
<1> SUFFICES ASSUME NEW e, WellFormed(e), Shows(e), ParseCron(e).mode # "custom"
             PROVE  Plain(e)
  BY PlainShown DEF Plain
<1> DEFINE ed == Adopt(e)
<1>1. EditorOK(ed) /\ ed.mode # "custom" /\ e = BuildCron(ed)
  BY AdoptOK DEF Shows, Adopt
<1> HIDE DEF ed
<1>2. /\ ed.mode \in Modes /\ ed.hour \in 0..23 /\ ed.minute \in 0..59
      /\ ed.weekDays \in SUBSET (0..6) /\ ed.monthDay \in 1..31 /\ ed.intervalMin \in Sayable
  BY <1>1 DEF EditorOK
<1>3. CASE ed.mode = "daily" \/ (ed.mode = "weekly" /\ ed.weekDays = {})
  BY <1>1, <1>2, <1>3, Built DEF Plain
<1>4. CASE ed.mode = "weekly" /\ ed.weekDays # {}
  <2>1. e = Expr(Num(ed.minute), Num(ed.hour), Star, List(Increasing(ed.weekDays)))
    BY <1>1, <1>4, Built
  <2>2. QED
    BY <1>2, <1>4, <2>1, Zenon DEF Plain
<1>5. CASE ed.mode = "monthly"
  BY <1>1, <1>2, <1>5, Built DEF Plain
<1>6. CASE ed.mode = "hourly"
  BY <1>1, <1>6, Built DEF Plain
<1>7. CASE ed.mode = "interval"
  BY <1>1, <1>2, <1>7, Built, HourlySteps DEF Plain
<1>8. QED
  BY <1>1, <1>2, <1>3, <1>4, <1>5, <1>6, <1>7 DEF Modes

\* The values a field matches are numbers of its range.
LEMMA MatchingNumbers ==
  ASSUME NEW lo \in Nat, NEW hi \in Nat, NEW f, Within(f, lo, hi)
  PROVE  Matching(f, lo, hi) \subseteq lo..hi
<1>1. CASE f.kind = "any"
  BY <1>1 DEF Matching
<1>2. CASE f.kind = "range"
  <2>1. PICK a \in lo..hi, b \in lo..hi : f = Between(a, b)
    BY <1>2, WithinKinds
  <2>2. f.args[1] = a /\ f.args[2] = b
    BY <2>1 DEF Between
  <2>3. Matching(f, lo, hi) = a..b
    BY <1>2, <2>2 DEF Matching
  <2>4. QED
    BY <2>3
<1>3. CASE f.kind = "step"
  BY <1>3 DEF Matching
<1>4. CASE f.kind \in {"num", "list"}
  BY <1>4, WithinValues DEF Matching
<1>5. QED
  BY <1>1, <1>2, <1>3, <1>4, WithinKinds DEF Fields

LEMMA RunsAreTimes ==
  ASSUME NEW e, WellFormed(e)
  PROVE  Runs(e) \subseteq Int
<1>1. Matching(e.hr, 0, 23) \subseteq Int /\ Matching(e.min, 0, 59) \subseteq Int
  BY MatchingNumbers DEF WellFormed
<1>2. QED
  BY <1>1 DEF Runs

\* The server looks at twelve gaps from the next run on (isCronAtLeastMinInterval,
\* dto.ts).  An expression that passes whenever it is checked is one of which no
\* gap is too short, so a window of twelve hides nothing from every check at once.
THEOREM AlwaysValidIsEveryGap ==
  \A e : WellFormed(e) /\ ExplicitInterval(e) = 0 =>
    (AlwaysValidCron(e) <=>
       \A r \in Runs(e) :
         ((\A q \in Runs(e) : q <= r) => Successive(e)) => ~TooShort(GapAfter(Runs(e), r, 1440)))
<1> SUFFICES ASSUME NEW e, WellFormed(e), ExplicitInterval(e) = 0
             PROVE  AlwaysValidCron(e) <=>
                      \A r \in Runs(e) :
                        ((\A q \in Runs(e) : q <= r) => Successive(e)) =>
                          ~TooShort(GapAfter(Runs(e), r, 1440))
  OBVIOUS
<1> DEFINE Apart(r) == ((\A q \in Runs(e) : q <= r) => Successive(e)) =>
                         ~TooShort(GapAfter(Runs(e), r, 1440))
<1>1. ASSUME NEW first \in Runs(e)
      PROVE  AtLeastMinInterval(e, first) <=> \A r \in Window(Runs(e), first) : Apart(r)
  BY DEF AtLeastMinInterval
<1>2. ASSUME NEW first \in Runs(e)
      PROVE  first \in Window(Runs(e), first) /\ Window(Runs(e), first) \subseteq Runs(e)
  <2>1. Runs(e) \subseteq Int
    BY RunsAreTimes
  <2> DEFINE before == {q \in Runs(e) : (q - first) % 1440 < (first - first) % 1440}
  <2>2. ASSUME NEW q \in Runs(e)
        PROVE  ~((q - first) % 1440 < (first - first) % 1440)
    BY <2>1
  <2>3. before = {}
    BY <2>2
  <2> HIDE DEF before
  <2>4. Cardinality(before) < 12
    <3>1. Cardinality(before) = 0
      BY <2>3, FS_EmptySet
    <3>2. QED
      BY <3>1
  <2>5. QED
    BY <2>4 DEF Window, before
<1> HIDE DEF Apart
<1>3. AlwaysValidCron(e) <=> \A first \in Runs(e) : AtLeastMinInterval(e, first)
  BY SyntaxAccepted DEF AlwaysValidCron
<1>4. AlwaysValidCron(e) <=> \A r \in Runs(e) : Apart(r)
  BY <1>1, <1>2, <1>3
<1>5. QED
  BY <1>4 DEF Apart

----------------------------------------------------------------------------
(* The theorems *)

FormInv == EditorShape /\ FieldInv /\ ImageShape /\ FitsInv /\ SaveInv /\ UntouchedInv

LEMMA FormStarts ==
  ASSUME ExpressionsProper, FormInit
  PROVE  FormInv
<1> USE DEF FormInit, Init
<1>1. NewForm # None
  BY DEF NewForm, ExpressionsProper
<1>2. (isEdit /\ row.cron \in Saved /\ row.images \in Stored) \/ (~isEdit /\ row = NoRow)
  <2>1. CASE isEdit
    <3>1. row \in Rows
      BY <2>1
    <3>2. QED
      BY <2>1, <3>1 DEF Rows
  <2>2. CASE ~isEdit
    BY <2>2
  <2>3. QED
    BY <2>1, <2>2
<1>3. EditorShape
  BY <1>1, <1>2, AdoptShape DEF EditorShape, ExpressionsProper
<1>4. FieldInv
  BY NewFormShown DEF FieldInv, OwnValue
<1>5. Cardinality({}) = 0
  BY FS_EmptySet
<1>6. ImageShape /\ FitsInv
  <2>1. row.images \subseteq 1..Highest /\ Cardinality(row.images) <= MaxImages
    <3>1. CASE row.images \in Stored
      BY <3>1, StoredImages
    <3>2. CASE row = NoRow
      <4>1. row.images = {}
        BY <3>2 DEF NoRow
      <4>2. QED
        BY <1>5, <4>1 DEF MaxImages
    <3>3. QED
      BY <1>2, <3>1, <3>2
  <2>2. ImageShape
    BY <2>1, StoredImages DEF ImageShape, NoSave
  <2>3. FitsInv
    BY <2>1, <1>5 DEF FitsInv, MaxImages
  <2>4. QED
    BY <2>2, <2>3
<1>7. SaveInv /\ UntouchedInv
  BY DEF SaveInv, Sending, NoSave, UntouchedInv
<1>8. QED
  BY <1>3, <1>4, <1>6, <1>7 DEF FormInv

LEMMA FormKept ==
  ASSUME ExpressionsProper, FormInv, [Next]_allVars
  PROVE  FormInv'
BY EditorKept, FieldKept, ImagesKept, FitsKept, SaveKept, UntouchedKept DEF FormInv

LEMMA FormInvariant == ASSUME ExpressionsProper PROVE Spec => []FormInv
<1>1. FormInit => FormInv
  BY FormStarts
<1>2. FormInv /\ [Next]_allVars => FormInv'
  BY FormKept
<1>3. QED
  BY <1>1, <1>2, PTL DEF Spec

\* A save that was reported has stored the expression the editor shows, the
\* images that were left and one for every file (onSubmit of ScheduleForm.tsx,
\* create and update of the controller), whatever the server or the user holds.
THEOREM SavesWhatIsShown == ASSUME ExpressionsProper PROVE Spec => []SavedAsShown
<1>1. FormInv => SavedAsShown
  <2> SUFFICES ASSUME FormInv, save.at = "saved"
               PROVE  row = [cron |-> BuildCron(editor), images |-> kept \union save.urls]
                      /\ Cardinality(save.urls) = picked
    BY DEF SavedAsShown
  <2>1. row = [cron |-> sent, images |-> kept \union save.urls] /\ save.left = 0
    BY DEF FormInv, SaveInv
  <2>2. sent = BuildCron(editor) /\ Cardinality(save.urls) + save.left = picked
    BY SettledShows DEF FormInv, SaveInv, Sending
  <2>3. Cardinality(save.urls) \in Nat
    BY ImagesFinite DEF FormInv, ImageShape
  <2>4. QED
    BY <2>1, <2>2, <2>3
<1>2. QED
  BY <1>1, FormInvariant, PTL

\* The controller refuses no save of the form for its number of images, unless
\* files were selected before the answer they should have been counted with
\* (handleFileSelect of ScheduleForm.tsx against MAX_IMAGES of the controller).
THEOREM SavesFit == ASSUME ExpressionsProper PROVE Spec => []SaveFits
<1>1. FormInv /\ [Next]_allVars /\ SaveFits => SaveFits'
  <2> SUFFICES ASSUME FormInv, [Next]_allVars, SaveFits
               PROVE  SaveFits'
    OBVIOUS
  <2> USE DEF theForm, history, vars
  <2>1. CASE Refuse
    <3>1. save.at = "sent" /\ save.left = 0 /\ Cardinality(kept \union save.urls) > MaxImages /\ early' = early
      BY <2>1 DEF Refuse, Combined, Ends
    <3>2. Cardinality(save.urls) = picked
      <4>1. Cardinality(save.urls) \in Nat
        BY ImagesFinite DEF FormInv, ImageShape
      <4>2. QED
        BY <3>1, <4>1 DEF FormInv, SaveInv, Sending
    <3>3. IsFiniteSet(kept) /\ IsFiniteSet(save.urls)
      BY ImagesFinite DEF FormInv, ImageShape
    <3>4. Cardinality(kept \union save.urls) <= Cardinality(kept) + Cardinality(save.urls)
      <4>1. Cardinality(kept \union save.urls)
              = Cardinality(kept) + Cardinality(save.urls) - Cardinality(kept \intersect save.urls)
        BY <3>3, FS_Union
      <4>2. IsFiniteSet(kept \intersect save.urls)
        BY <3>3, FS_Subset
      <4>3. /\ Cardinality(kept) \in Nat /\ Cardinality(save.urls) \in Nat
            /\ Cardinality(kept \intersect save.urls) \in Nat
        BY <3>3, <4>2, FS_CardinalityType
      <4>4. QED
        BY <4>1, <4>3
    <3>5. /\ Cardinality(kept) \in Nat /\ picked \in Nat
          /\ Cardinality(kept \union save.urls) \in Nat
      <4>1. kept \union save.urls \in SUBSET (1..cloud)
        BY DEF FormInv, ImageShape
      <4>2. QED
        BY <4>1, ImagesFinite DEF FormInv, ImageShape
    <3>6. early
      BY <3>1, <3>2, <3>4, <3>5 DEF FormInv, FitsInv, MaxImages
    <3>7. QED
      BY <3>1, <3>6 DEF SaveFits
  <2>2. CASE Answered \/ CronEdited
    BY <2>2 DEF Answered, CronEdited, SaveFits
  <2>3. CASE Committed
    BY <2>3 DEF Committed, SaveFits
  <2>4. CASE Fills \/ TicksRunNow \/ RemoveSelectedFile
    BY <2>4 DEF Fills, TicksRunNow, RemoveSelectedFile, Touches, SaveFits
  <2>5. CASE \E n \in Picks : SelectImages(n)
    BY <2>5 DEF SelectImages, Touches, SaveFits
  <2>6. CASE \E i \in kept : RemoveExistingImage(i)
    BY <2>6 DEF RemoveExistingImage, Touches, SaveFits
  <2>7. CASE OnSubmit
    BY <2>7 DEF OnSubmit, SaveFits
  <2>8. CASE Upload \/ Store \/ Reply
    BY <2>8 DEF Upload, Store, Reply, SaveFits, FormInv, ImageShape
  <2>9. CASE Fail
    BY <2>9 DEF Fail, Ends, NoSave, SaveFits
  <2>10. CASE SavedElsewhere
    BY <2>10 DEF SavedElsewhere, SaveFits
  <2>11. CASE UNCHANGED allVars
    BY <2>11 DEF allVars, formVars, SaveFits
  <2>12. QED
    BY <2>1, <2>2, <2>3, <2>4, <2>5, <2>6, <2>7, <2>8, <2>9, <2>10, <2>11 DEF Next
<1>2. FormInit => SaveFits
  BY DEF FormInit, NoSave, SaveFits
<1>3. QED
  BY <1>1, <1>2, FormInvariant, PTL DEF Spec

\* Well-formed data keep the form within its selectors.
LEMMA DataInvariant ==
  ASSUME ExpressionsProper, WellFormedData
  PROVE  Spec => [](FormInv /\ WellFormedInv)
<1>1. FormInit => WellFormedInv
  BY WellFormedStarts
<1>2. FormInv /\ WellFormedInv /\ [Next]_allVars => WellFormedInv'
  BY WellFormedKept DEF FormInv
<1>3. QED
  BY <1>1, <1>2, FormInvariant, PTL DEF Spec

\* The types of the form: its settings stay within what the selectors show
\* (CronBuilder.tsx), its images within the uploads, its files within the limit.
THEOREM FormTyped ==
  ASSUME ExpressionsProper, WellFormedData
  PROVE  Spec => []FormTypeOK
<1>1. FormInit => BoundsInv
  <2>1. 0 \in 0..MaxLoads /\ 0 \in 0..MaxEdits
    BY EditorBounds
  <2>2. FormInit => internal \in BOOLEAN /\ ready \in BOOLEAN /\ runNow \in BOOLEAN /\ isEdit \in BOOLEAN
    BY DEF FormInit, Init
  <2>3. FormInit => loads = 0 /\ edits = 0 /\ picked <= MaxImages
    BY DEF FormInit, Init, MaxImages
  <2>4. QED
    BY <2>1, <2>2, <2>3 DEF BoundsInv
<1>2. FormInv /\ BoundsInv /\ [Next]_allVars => BoundsInv'
  BY BoundsKept DEF FormInv
<1>3. FormInv /\ WellFormedInv /\ BoundsInv => FormTypeOK
  <2> SUFFICES ASSUME FormInv, WellFormedInv, BoundsInv
               PROVE  FormTypeOK
    OBVIOUS
  <2>1. /\ editor.mode \in Modes /\ editor.hour \in 0..23 /\ editor.minute \in 0..59
        /\ editor.weekDays \subseteq 0..6 /\ editor.monthDay \in 1..31 /\ editor.intervalMin \in 1..1440
    BY DEF WellFormedInv, EditorOK, Sayable, MinInterval
  <2>2. \A f \in {value.min, value.hr, value.dom, value.month, value.dow} : f.kind \in Fields
    BY WithinKinds DEF WellFormedInv, WellFormed
  <2>3. TypeOK
    BY <2>1, <2>2 DEF TypeOK, BoundsInv
  <2>4. picked \in 0..MaxImages
    BY DEF FormInv, ImageShape, BoundsInv, MaxImages
  <2>5. QED
    BY <2>3, <2>4 DEF FormTypeOK, FormInv, EditorShape, ImageShape, BoundsInv
<1>4. QED
  BY <1>1, <1>2, <1>3, DataInvariant, PTL DEF Spec

\* What the editor's own modes build is displayed in the same way when it is
\* opened again (parseCron after buildCron, CronBuilder.tsx), in every state of
\* the form: no sequence of clicks, answers and effects leads out of the settings
\* for which the two are inverse.
THEOREM OwnModesReopen ==
  ASSUME ExpressionsProper, WellFormedData
  PROVE  Spec => []ReopensUnchanged
<1>1. WellFormedInv => ReopensUnchanged
  BY OwnModesShown DEF WellFormedInv, ReopensUnchanged, Shows
<1>2. QED
  BY <1>1, DataInvariant, PTL

\* What those modes build passes the form's rule (violatesMinCronInterval) and,
\* whenever it is sent, the server's (isCronAtLeastMinInterval, dto.ts).
THEOREM OwnModesAccepted ==
  ASSUME ExpressionsProper, WellFormedData
  PROVE  Spec => []OwnFormsAccepted
<1>1. FormInv /\ WellFormedInv => OwnFormsAccepted
  <2> SUFFICES ASSUME FormInv, WellFormedInv, Settled, editor.mode # "custom"
               PROVE  ~ViolatesMinInterval(value) /\ AlwaysValidCron(value)
    BY DEF OwnFormsAccepted
  <2>1. value = BuildCron(editor)
    BY SettledShows DEF FormInv
  <2>2. QED
    BY <2>1, OwnModesPass DEF WellFormedInv
<1>2. QED
  BY <1>1, DataInvariant, PTL

\* A schedule that is opened and saved keeps the server's expression unless the
\* cron field was edited, and its images if nothing was: the editor's two effects
\* (CronBuilder.tsx) and the form's reset undo each other.  That the editor shows
\* an expression as it is, is asked of those the server holds and those a user
\* types (ShownIfPlain says which they are); those its own modes build it shows.
THEOREM UntouchedIsKept ==
  ASSUME ExpressionsProper, WellFormedData, ShowsSaved
  PROVE  Spec => []UntouchedKeeps
<1> DEFINE Kept == AnswerInv /\ ShownInv
<1>1. FormInit => Kept
  <2> SUFFICES ASSUME FormInit
               PROVE  Kept
    OBVIOUS
  <2>1. Shows(NewForm)
    BY NewFormShown DEF Shows
  <2>2. Shows(editor.custom) /\ Shows(value)
    BY <2>1, AdoptShape DEF FormInit, Init
  <2>3. row.cron # None => Shows(row.cron)
    BY DEF FormInit, Rows, NoRow, ShowsSaved
  <2>4. QED
    BY <2>2, <2>3 DEF FormInit, Init, AnswerInv, ShownInv
<1>2. Kept /\ FormInv /\ ReopensUnchanged /\ ReopensUnchanged' /\ [Next]_allVars => Kept'
  BY AnswerKept, ShownKept DEF FormInv, ShownInv
<1>3. Kept /\ FormInv => UntouchedKeeps
  <2> SUFFICES ASSUME AnswerInv, FormInv, save.at = "saved"
               PROVE  /\ truth # None => row.cron = truth
                      /\ loads > 0 /\ ~touched => row.images = got /\ ~runNow
    BY DEF UntouchedKeeps
  <2>1. /\ row = [cron |-> sent, images |-> kept \union save.urls] /\ save.left = 0
        /\ Settled /\ sent = value /\ Cardinality(save.urls) + save.left = picked
    BY DEF FormInv, SaveInv, Sending
  <2>2. answer = None
    BY <2>1 DEF Settled
  <2>3. truth # None => value = truth
    BY <2>1 DEF AnswerInv, InForm, Overwritten, Restored, Settled
  <2>4. ASSUME loads > 0, ~touched
        PROVE  row.images = got /\ ~runNow
    <3>1. kept = got /\ picked = 0 /\ ~runNow
      BY <2>2, <2>4 DEF FormInv, UntouchedInv
    <3>2. IsFiniteSet(save.urls) /\ Cardinality(save.urls) \in Nat
      BY ImagesFinite DEF FormInv, ImageShape
    <3>3. save.urls = {}
      BY <2>1, <3>1, <3>2, FS_EmptySet
    <3>4. QED
      BY <2>1, <3>1, <3>3
  <2>5. QED
    BY <2>1, <2>3, <2>4
<1>4. QED
  BY <1>1, <1>2, <1>3, FormInvariant, OwnModesReopen, PTL DEF Spec
=============================================================================
