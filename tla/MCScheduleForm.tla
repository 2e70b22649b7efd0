-------------------------- MODULE MCScheduleForm -------------------------
EXTENDS ScheduleForm

Weekdays == Expr(Num(30), Num(17), Star, List(<<1, 5>>))
EveryTwoHours == Expr(Num(0), Step(2), Star, Star)
OfficeHours == Expr(Num(0), Between(9, 17), Star, Between(1, 5))

SavedForms == {Weekdays, EveryTwoHours, OfficeHours}
TypedForms == {OfficeHours}

MCStored == {{}, {1, 2, 3}}
==========================================================================
