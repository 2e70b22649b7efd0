----------------------------- MODULE MCConsole -----------------------------
EXTENDS Console, TLC

CONSTANTS t1, t2

Plan(who, start, pages, logins, visits, clicks, network, session, others) ==
    [who |-> who, start |-> start, pages |-> pages,
     of |-> [logins |-> logins, visits |-> visits, clicks |-> clicks,
             network |-> network, session |-> session, others |-> others]]

MCPlans ==
    { Plan({t1}, "login", {"connect"}, 1, 0, 1, 1, 2, 0),
      Plan({t1, t2}, "groups", {"connect", "groups"}, 1, 1, 2, 0, 1, 0),
      Plan({t1}, "retry", {"retry", "schedules"}, 0, 1, 2, 1, 0, 2),
      Plan({t1}, "form", {"schedules", "groups", "logs"}, 0, 2, 2, 1, 0, 0),
      Plan({t1, t2}, "schedules", {"schedules"}, 1, 1, 2, 1, 0, 0) }
=============================================================================
