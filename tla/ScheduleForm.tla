-------------------------- MODULE ScheduleForm ---------------------------
(* The schedule form around its cron field: images that are stored already and files to upload,  *)
(* the answers of the schedule query that reset it, and the request that saves it, up to the     *)
(* controller's uploads and the row.  Nothing is touched in the form while a request is under    *)
(* way (a bound).                                                                                *)
EXTENDS CronEditor

CONSTANTS
  Stored,    \* sets of images a schedule may have; images are numbered in the order of uploads
  Picks,     \* how many files a user selects at once
  MaxOthers  \* writes of somebody else and requests that go wrong

MaxImages == 5
Highest == Max((UNION Stored) \union {0})

ASSUME FormImages ==
  /\ \A s \in Stored : s \subseteq 1..MaxImages
  /\ Picks \subseteq Nat /\ MaxOthers \in Nat

VARIABLES
  isEdit,    \* the form was opened for a schedule that exists
  row,       \* that schedule, or the last one the form made
  cloud,     \* images uploaded so far
  kept,      \* the form's imageUrls
  picked,    \* number of selectedFiles
  ready,     \* there is a message, and a group is selected
  runNow,    \* the form's runNow
  got,       \* images of the query's last answer
  save,      \* the request: where it is, what it has uploaded, files still to upload
  touched,   \* history: the user changed something since the last answer
  early,     \* history: files were selected before an answer
  others

formVars == <<isEdit, row, cloud, kept, picked, ready, runNow, got, save, touched, early, others>>
allVars  == <<vars, formVars>>
theForm  == <<kept, picked, ready, runNow>>
history  == <<touched, early>>

NoRow  == [cron |-> None, images |-> {}]
Rows   == [cron : Saved, images : Stored]
NoSave == [at |-> "none", urls |-> {}, left |-> 0]

FormInit ==
  /\ Init
  /\ isEdit \in BOOLEAN /\ row \in (IF isEdit THEN Rows ELSE {NoRow})
  /\ cloud = Highest /\ kept = {} /\ picked = 0 /\ ready = FALSE /\ runNow = TRUE
  /\ got = {} /\ save = NoSave /\ touched = FALSE /\ early = FALSE /\ others = 0

---------------------------------------------------------------------------
(* The query's answer is new with every firing of the schedule, which moves nextRunAt. *)
Answered ==
  /\ isEdit /\ Answer(row.cron)
  /\ got' = row.images
  /\ UNCHANGED <<isEdit, row, cloud, theForm, save, history, others>>

\* Mutant: the reset leaves the default of a new schedule.
KeepsRunNow == runNow

RunNowReset == IF answer # None THEN FALSE ELSE runNow

(* reset(existing) replaces every field; the selected files are no field. *)
Committed ==
  /\ Commit
  /\ IF answer # None
       THEN /\ kept' = got /\ ready' = TRUE
            /\ touched' = (picked > 0) /\ early' = (early \/ picked > 0)
       ELSE UNCHANGED <<kept, ready, history>>
  /\ runNow' = RunNowReset
  /\ UNCHANGED <<isEdit, row, cloud, picked, got, save, others>>

(* A change of the cron field. *)
CronEdited ==
  /\ Edit /\ touched' = TRUE
  /\ UNCHANGED <<isEdit, row, cloud, theForm, got, save, early, others>>

(* A change of any other field. *)
Touches ==
  /\ edits < MaxEdits /\ sent = None /\ Settled
  /\ edits' = edits + 1 /\ touched' = TRUE
  /\ UNCHANGED <<editor, value, internal, shown, answer, sent, truth, loads>>
  /\ UNCHANGED <<isEdit, row, cloud, got, save, early, others>>

Fills == Touches /\ ~ready /\ ready' = TRUE /\ UNCHANGED <<kept, picked, runNow>>

TicksRunNow == Touches /\ runNow' = ~runNow /\ UNCHANGED <<kept, picked, ready>>

\* Mutants: the stored images do not count; the files selected before do not.
ForgetsKept(n) == Min({n, MaxImages - picked})
ForgetsPicked(n) == Min({n, Max({0, MaxImages - Cardinality(kept)})})

(* Files beyond the remaining slots are dropped; a selection with a file that is no image adds nothing. *)
Added(n) == Min({n, Max({0, MaxImages - Cardinality(kept) - picked})})

SelectImages(n) == Touches /\ picked' = picked + Added(n) /\ UNCHANGED <<kept, ready, runNow>>

RemoveExistingImage(i) == Touches /\ kept' = kept \ {i} /\ UNCHANGED <<picked, ready, runNow>>

RemoveSelectedFile ==
  Touches /\ picked > 0 /\ picked' = picked - 1 /\ UNCHANGED <<kept, ready, runNow>>

---------------------------------------------------------------------------
(* The schema is satisfied and onSubmit sends everything the form holds. *)
OnSubmit ==
  /\ Submit /\ ready /\ Cardinality(kept) <= MaxImages
  /\ save' = [at |-> "sent", urls |-> {}, left |-> picked]
  /\ UNCHANGED <<isEdit, row, cloud, theForm, got, history, others>>

(* The page learns that the request failed and stays as it is. *)
Ends(at) ==
  /\ sent' = None /\ save' = [NoSave EXCEPT !.at = at]
  /\ UNCHANGED <<editor, value, internal, shown, answer, truth, loads, edits>>
  /\ UNCHANGED <<isEdit, row, cloud, theForm, got, history>>

Spends == others < MaxOthers /\ others' = others + 1

(* uploadImages: one file after the other. *)
Upload ==
  /\ save.at = "sent" /\ save.left > 0
  /\ cloud' = cloud + 1
  /\ save' = [save EXCEPT !.urls = @ \union {cloud + 1}, !.left = @ - 1]
  /\ UNCHANGED <<vars, isEdit, row, theForm, got, history, others>>

Combined == kept \union save.urls

(* More than five: the files have been uploaded by then. *)
Refuse ==
  /\ save.at = "sent" /\ save.left = 0 /\ Cardinality(Combined) > MaxImages
  /\ Spends /\ Ends("refused")

(* create() or update(), whose own checks pass.  The form always sends imageUrls, if only an empty *)
(* one, so that the row's are always replaced.                                                     *)
Store ==
  /\ save.at = "sent" /\ save.left = 0 /\ Cardinality(Combined) <= MaxImages
  /\ \E first \in Runs(sent) : IsValidCron(sent, first)
  /\ row' = [cron |-> sent, images |-> Combined]
  /\ save' = [save EXCEPT !.at = "stored"]
  /\ UNCHANGED <<vars, isEdit, cloud, theForm, got, history, others>>

(* The answer of the request: a toast, and the list of schedules. *)
Reply ==
  /\ save.at = "stored"
  /\ save' = [save EXCEPT !.at = "saved"]
  /\ UNCHANGED <<vars, isEdit, row, cloud, theForm, got, history, others>>

(* An upload, a check or a write fails, or the request or its answer is lost. *)
Fail == save.at \in {"sent", "stored"} /\ Spends /\ Ends("none")

(* Another tab saves the same schedule. *)
SavedElsewhere ==
  /\ isEdit /\ save.at \notin {"stored", "saved"} /\ Spends
  /\ row' \in Rows \ {row}
  /\ UNCHANGED <<vars, isEdit, cloud, theForm, got, save, history>>

Next ==
  \/ Answered \/ Committed \/ CronEdited \/ Fills \/ TicksRunNow
  \/ \E n \in Picks : SelectImages(n)
  \/ \E i \in kept : RemoveExistingImage(i)
  \/ RemoveSelectedFile \/ OnSubmit
  \/ Upload \/ Refuse \/ Store \/ Reply \/ Fail \/ SavedElsewhere

Spec == FormInit /\ [][Next]_allVars /\ WF_allVars(Committed)

---------------------------------------------------------------------------
(* Types; in particular there are never more files than one request may carry. *)
FormTypeOK ==
  /\ TypeOK
  /\ isEdit \in BOOLEAN /\ row.images \subseteq 1..cloud /\ (isEdit => row.cron # None)
  /\ kept \subseteq 1..cloud /\ got \subseteq 1..cloud /\ picked \in 0..MaxImages
  /\ ready \in BOOLEAN /\ runNow \in BOOLEAN
  /\ save.at \in {"none", "sent", "stored", "saved", "refused"} /\ save.urls \subseteq 1..cloud

(* What a save that was reported has stored is what the form showed: its expression, the images   *)
(* that were left and one for every file, however many attempts failed before or were lost.       *)
SavedAsShown ==
  save.at = "saved" =>
    /\ row = [cron |-> BuildCron(editor), images |-> kept \union save.urls]
    /\ Cardinality(save.urls) = picked

(* The controller has nothing to refuse that the form let through, unless files were selected     *)
(* before an answer brought the images they should have been counted with.                        *)
SaveFits == save.at = "refused" => early

(* A schedule that is opened and saved keeps the expression the server had unless the cron field  *)
(* was edited, although the editor first emits the one it was showing; without any change it keeps *)
(* its images as well, and nothing is sent at once. The premise is on the data: Saved and Typed    *)
(* hold only expressions the editor shows as they are. Others, a fraction like */90 or a second    *)
(* hour, are rewritten when they are opened.                                                       *)
UntouchedKeeps ==
  save.at = "saved" =>
    /\ truth # None => row.cron = truth
    /\ loads > 0 /\ ~touched => row.images = got /\ ~runNow

==========================================================================
