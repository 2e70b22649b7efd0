--------------------------- MODULE CronEditor ----------------------------
(* The cron field of the schedule form: CronBuilder's editor state, its two effects and the flag *)
(* between them, against the form's value, which a query answer may replace at any time.         *)
EXTENDS CronRules

CONSTANTS
  Saved,         \* expressions the server may hold when the form is opened
  Typed,         \* expressions a user may type in custom mode
  Hours, Minutes, WeekDays, MonthDays, Periods,    \* what the selectors offer here
  MaxLoads,      \* answers of the schedule query
  MaxEdits,      \* clicks of the user
  None

ASSUME EditorBounds == MaxLoads \in Nat /\ MaxEdits \in Nat
ASSUME EditorOffers == /\ Hours \subseteq 0..23 /\ Minutes \subseteq 0..59 /\ WeekDays \subseteq 0..6
                       /\ MonthDays \subseteq 1..31
                       /\ Periods \subseteq {n \in MinInterval..1439 : n < 60 \/ n % 60 = 0}
\* The days of a weekly expression are a set here: no list names a day twice (a bound).
ASSUME DaysOnce == \A e \in Saved \union Typed : IsInjective(e.dow.args)

VARIABLES
  editor,    \* mode, hour, minute, weekDays, monthDay, intervalMin, custom
  value,     \* the form's cronExpression
  internal,  \* internalUpdateRef
  shown,     \* value and generated expression of the last commit, whose effects have run
  answer,    \* schedule the query has answered with, before the form's effect has seen it
  sent,      \* cronExpression of the request that saves the form
  truth,     \* history: the server's expression, until the user edits
  loads, edits

vars == <<editor, value, internal, shown, answer, sent, truth, loads, edits>>

---------------------------------------------------------------------------
Modes == {"daily", "weekly", "monthly", "hourly", "interval", "custom"}

Defaults == [mode |-> "custom", hour |-> 9, minute |-> 0, weekDays |-> {1}, monthDay |-> 1,
             intervalMin |-> 30]

(* parseInt of a field: the number it starts with, if it starts with one. *)
Starts(f) == f.kind \in {"num", "list", "range"}
ParseInt(f) == f.args[1]

EveryHours(e) == e.hr.kind = "step" /\ e.min.kind = "num" /\ EveryDay(e)
AtTime(e) == e.month = Star /\ Starts(e.hr) /\ Starts(e.min)

\* Mutant: hour and minute swapped.
Swapped(e, mode) == [Defaults EXCEPT !.mode = mode, !.hour = ParseInt(e.min), !.minute = ParseInt(e.hr)]

Timed(e, mode) == [Defaults EXCEPT !.mode = mode, !.hour = ParseInt(e.hr), !.minute = ParseInt(e.min)]
OfPeriod(n) == [Defaults EXCEPT !.mode = "interval", !.intervalMin = n]

ParseCron(e) ==
  CASE EveryMinutes(e) -> IF e.min.args[1] < MinInterval THEN Defaults ELSE OfPeriod(e.min.args[1])
    [] EveryHours(e) -> [OfPeriod(60 * e.hr.args[1]) EXCEPT !.minute = e.min.args[1]]
    [] EveryHour(e) -> [Defaults EXCEPT !.mode = "hourly"]
    [] AtTime(e) /\ e.dom.kind = "num" /\ e.dow = Star ->
         [Timed(e, "monthly") EXCEPT !.monthDay = e.dom.args[1]]
    [] AtTime(e) /\ e.dom = Star /\ e.dow.kind \in {"num", "list"} ->
         [Timed(e, "weekly") EXCEPT !.weekDays = ToSet(e.dow.args)]
    [] AtTime(e) /\ EveryDay(e) -> Timed(e, "daily")
    [] OTHER -> Defaults

(* A period that is no whole number of hours is printed as a fraction, which no cron parser takes. *)
Hourly(n) == IF n % 60 = 0 THEN Step(n \div 60) ELSE [kind |-> "fraction", args |-> <<n>>]

(* The members of S in order: the k-th has k members up to it. *)
Increasing(S) ==
  [k \in 1..Cardinality(S) |-> CHOOSE d \in S : Cardinality({c \in S : c <= d}) = k]

BuildCron(ed) ==
  LET min == Num(ed.minute)
      hr == Num(ed.hour)
      days == IF ed.weekDays = {} THEN Star ELSE List(Increasing(ed.weekDays))
  IN  CASE ed.mode = "daily" -> Expr(min, hr, Star, Star)
        [] ed.mode = "weekly" -> Expr(min, hr, Star, days)
        [] ed.mode = "monthly" -> Expr(min, hr, Num(ed.monthDay), Star)
        [] ed.mode = "hourly" -> Expr(Num(0), Star, Star, Star)
        [] ed.mode = "interval" -> IF ed.intervalMin < 60
                                     THEN Expr(Step(ed.intervalMin), Star, Star, Star)
                                     ELSE Expr(Num(0), Hourly(ed.intervalMin), Star, Star)
        [] ed.mode = "custom" -> ed.custom

(* setMode, setHour, ... and setCustom of the first effect. *)
Adopt(e) ==
  LET parsed == ParseCron(e)
  IN  [mode |-> parsed.mode, hour |-> parsed.hour, minute |-> parsed.minute, weekDays |-> parsed.weekDays,
       monthDay |-> parsed.monthDay, intervalMin |-> parsed.intervalMin, custom |-> e]

---------------------------------------------------------------------------
NewForm == Expr(Num(0), Num(9), Star, Star)

(* The form mounts with its default value; both effects of the mount leave it as it is. *)
Init ==
  /\ value = NewForm /\ editor = Adopt(NewForm) /\ internal = FALSE
  /\ shown = [value |-> NewForm, generated |-> NewForm]
  /\ answer = None /\ sent = None /\ truth = None /\ loads = 0 /\ edits = 0

(* The commit that is due has nothing new to show and no answer to put into the form. *)
Settled == answer = None /\ shown = [value |-> value, generated |-> BuildCron(editor)]

(* The query answers, the first time or when it is fetched again; two answers are a round trip *)
(* apart, which the effects of the first do not outlast.                                        *)
Answer(e) ==
  /\ loads < MaxLoads /\ sent = None /\ answer = None /\ (truth # None => Settled)
  /\ loads' = loads + 1
  /\ answer' = e
  /\ UNCHANGED <<editor, value, internal, shown, sent, truth, edits>>

(* A selector or a key stroke in custom mode. *)
Toggled(days, d) == IF d \in days THEN days \ {d} ELSE days \union {d}

Tabs == {[editor EXCEPT !.mode = m] : m \in Modes}
Times == {[editor EXCEPT !.hour = h] : h \in Hours} \union {[editor EXCEPT !.minute = m] : m \in Minutes}
Selectors == [daily |-> Times,
           weekly |-> Times \union {[editor EXCEPT !.weekDays = Toggled(@, d)] : d \in WeekDays},
           monthly |-> Times \union {[editor EXCEPT !.monthDay = d] : d \in MonthDays},
           hourly |-> {},
           interval |-> {[editor EXCEPT !.intervalMin = n] : n \in Periods},
           custom |-> {[editor EXCEPT !.custom = e] : e \in Typed}]

Clicks == Tabs \union Selectors[editor.mode]

(* A click is rendered at once and by itself, and its effects run with it. *)
Edit ==
  /\ edits < MaxEdits /\ sent = None /\ Settled
  /\ edits' = edits + 1
  /\ editor' \in Clicks \ {editor}
  /\ shown' = [shown EXCEPT !.generated = BuildCron(editor')]
  /\ value' = BuildCron(editor')
  /\ internal' = (internal \/ value' # value)
  /\ truth' = None
  /\ UNCHANGED <<answer, sent, loads>>

\* Mutants: the flag is not looked at by the first effect; it is by the second.
AdoptsOwn == value # shown.value
EmitsUnlessInternal == ~internal /\ BuildCron(editor) # value

Skips == value # shown.value /\ internal
Adopts == value # shown.value /\ ~internal
Emits == BuildCron(editor) # value

(* React commits what changed since the last commit and runs the effects that depend on it, the   *)
(* editor's two in order, then the form's, which resets the form to the answer.                    *)
Commit ==
  /\ ~Settled
  /\ shown' = [value |-> value, generated |-> BuildCron(editor)]
  /\ editor' = IF Adopts THEN Adopt(value) ELSE editor
  /\ internal' = (Emits \/ (internal /\ ~Skips))
  /\ value' = CASE answer # None -> answer
               [] answer = None /\ Emits -> BuildCron(editor)
               [] OTHER -> value
  /\ truth' = IF answer # None THEN answer ELSE truth
  /\ answer' = None
  /\ UNCHANGED <<sent, loads, edits>>

(* The expression passes the form's own check and is sent. *)
Submit ==
  /\ sent = None /\ Settled /\ ~ViolatesMinInterval(value)
  /\ sent' = value
  /\ UNCHANGED <<editor, value, internal, shown, answer, truth, loads, edits>>

---------------------------------------------------------------------------
(* Types; in particular every field stays within what its selector may show. *)
TypeOK ==
  /\ editor.mode \in Modes /\ editor.hour \in 0..23 /\ editor.minute \in 0..59
  /\ editor.weekDays \subseteq 0..6 /\ editor.monthDay \in 1..31 /\ editor.intervalMin \in 1..1440
  /\ \A f \in {value.min, value.hr, value.dom, value.month, value.dow} : f.kind \in Fields
  /\ internal \in BOOLEAN /\ loads \in 0..MaxLoads /\ edits \in 0..MaxEdits

(* The two effects do not feed each other for ever. *)
EffectsSettle == <>[]Settled

(* What the editor's own modes build is displayed in the same way when it is opened again. *)
ReopensUnchanged ==
  editor.mode # "custom" => BuildCron(Adopt(BuildCron(editor))) = BuildCron(editor)

(* What those modes build passes the form's rule and, whenever it is sent, the server's. *)
OwnFormsAccepted ==
  Settled /\ editor.mode # "custom" => ~ViolatesMinInterval(value) /\ AlwaysValidCron(value)

==========================================================================
