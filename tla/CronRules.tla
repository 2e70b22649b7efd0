---------------------------- MODULE CronRules ----------------------------
(* Cron expressions by the form of their fields, and the two rules that bound how often a schedule *)
(* may fire: violatesMinCronInterval of the form and isCronAtLeastMinInterval of the server.       *)
EXTENDS SequencesExt, Integers

MinInterval == 30    \* MIN_CRON_INTERVAL_MINUTES

\* Mutant: <= for <.
AtMost(gap) == gap <= MinInterval

TooShort(gap) == gap < MinInterval

Fields == {"any", "num", "step", "list", "range", "fraction"}

Star == [kind |-> "any", args |-> <<>>]
Num(n) == [kind |-> "num", args |-> <<n>>]
Step(n) == [kind |-> "step", args |-> <<n>>]
Between(a, b) == [kind |-> "range", args |-> <<a, b>>]
List(s) == IF Len(s) = 1 THEN Num(s[1]) ELSE [kind |-> "list", args |-> s]

Expr(min, hr, dom, dow) == [min |-> min, hr |-> hr, dom |-> dom, month |-> Star, dow |-> dow]

EveryDay(e) == e.dom = Star /\ e.month = Star /\ e.dow = Star
EveryMinutes(e) == e.min.kind = "step" /\ e.hr = Star /\ EveryDay(e)
EveryHour(e) == e.min = Num(0) /\ e.hr = Star /\ EveryDay(e)

(* The values of lo..hi that a field matches. *)
Matching(f, lo, hi) ==
  CASE f.kind = "any" -> lo..hi
    [] f.kind = "range" -> f.args[1]..f.args[2]
    [] f.kind = "step" -> {n \in lo..hi : (n - lo) % f.args[1] = 0}
    [] OTHER -> ToSet(f.args)

(* The distance from x to the next member of S, past the end of the turn if need be. *)
Ahead(x, y, turn) == IF y > x THEN y - x ELSE y + turn - x
GapAfter(S, x, turn) == Min({Ahead(x, y, turn) : y \in S})

---------------------------------------------------------------------------
(* The form: only the minutes field is looked at. *)

ViolatesMinInterval(e) ==
  CASE e.min.kind = "any" -> TRUE
    [] e.min.kind = "step" -> TooShort(e.min.args[1])
    [] e.min.kind = "list" ->
         \E m \in ToSet(e.min.args) : TooShort(GapAfter(ToSet(e.min.args), m, 60))
    [] OTHER -> FALSE

---------------------------------------------------------------------------
(* The server *)

(* parseExplicitIntervalMinutes, and parseIntervalFromCron: 0 stands for null. *)
ExplicitInterval(e) ==
  CASE EveryMinutes(e) -> e.min.args[1]
    [] e.min = Num(0) /\ e.hr.kind = "step" /\ EveryDay(e) -> 60 * e.hr.args[1]
    [] OTHER -> 0

IsValidCronSyntax(e) == \A f \in {e.min, e.hr, e.dom, e.month, e.dow} : f.kind # "fraction"

(* Runs of a day the expression matches, in minutes after midnight. *)
Runs(e) == {60 * h + m : h \in Matching(e.hr, 0, 23), m \in Matching(e.min, 0, 59)}

(* Whether the day after a matching day may match as well. *)
Successive(e) ==
  /\ e.dom = Star \/ \E d \in Matching(e.dom, 1, 31) : d + 1 \in Matching(e.dom, 1, 31)
  /\ e.dow = Star \/ \E d \in Matching(e.dow, 0, 6) : (d + 1) % 7 \in Matching(e.dow, 0, 6)

(* The run and the eleven that follow it. *)
Window(runs, first) ==
  {r \in runs : Cardinality({q \in runs : (q - first) % 1440 < (r - first) % 1440}) < 12}

(* A check that finds first as the next run after now looks at twelve gaps from there on. *)
AtLeastMinInterval(e, first) ==
  LET runs == Runs(e)
      overnight(r) == \A q \in runs : q <= r
  IN  IF ExplicitInterval(e) # 0
        THEN ~TooShort(ExplicitInterval(e))
        ELSE \A r \in Window(runs, first) :
               (overnight(r) => Successive(e)) => ~TooShort(GapAfter(runs, r, 1440))

IsValidCron(e, first) == IsValidCronSyntax(e) /\ AtLeastMinInterval(e, first)

(* Whatever the time at which the server checks. *)
AlwaysValidCron(e) == IsValidCronSyntax(e) /\ \A first \in Runs(e) : AtLeastMinInterval(e, first)

==========================================================================
