--------------------------- MODULE MCAccountHealth ---------------------------
(* A small instance of AccountHealth: a quarter is three days. *)
EXTENDS AccountHealth

Campaign(creator, department, billable) ==
    [creator |-> creator, department |-> department, billable |-> billable]

CONSTANTS u1, u2, u3

SmallWork == {Campaign(u1, "d1", TRUE), Campaign(u2, "d1", TRUE),
              Campaign(u3, "d2", TRUE)}

Person(type, departed) ==
    [type |-> type, departed |-> departed, lastContact |-> 0, willing |-> TRUE]

Complete == {Person("economic_buyer", FALSE), Person("exec_sponsor", FALSE),
             Person("champion", FALSE)}

\* The starts: a new committed account; one that has been Healthy for long;
\* one that wakes up after a long silence; one signed again after a pilot,
\* without sponsor or commitment.
Committed(from, until) ==
    [contractStart |-> from, potential |-> 2, model |-> "committed",
     committed |-> 8, commitmentEnd |-> until, stakeholders |-> Complete,
     valueDocs |-> {from, -2}]

Resigned ==
    [contractStart |-> 1, potential |-> 2, model |-> "ad_hoc",
     committed |-> 0, commitmentEnd |-> NoDate,
     stakeholders |-> {Person("champion", TRUE), Person("champion", FALSE),
                       Person("economic_buyer", FALSE)},
     valueDocs |-> {NoDate, -1}]

Past(day, creator) == [day |-> day, creator |-> creator,
                       department |-> "d1", billable |-> TRUE]

SmallStarts ==
    {[account |-> Committed(0, 3), campaigns |-> {}],
     [account |-> Committed(-7, 2),
      campaigns |-> {Past(-6, u1), Past(-4, u1), Past(-4, u2),
                     Past(-1, u1), Past(-1, u2)}],
     [account |-> Committed(-7, 2),
      campaigns |-> {[Past(-4, u1) EXCEPT !.billable = FALSE],
                     Past(-1, u1), Past(-1, u2)}],
     [account |-> Resigned, campaigns |-> {Past(-1, u1), Past(-2, u2)}]}

\* BreadthScore's divisions are exact on these instances.
ASSUME \A start \in SmallStarts : 50 % start.account.potential = 0
ASSUME \A n \in 1..Cardinality(Departments) : 50 % n = 0

=============================================================================
