---------------------------- MODULE ReviewProofs ----------------------------
(***************************************************************************)
(* Proofs about what people look at: the cadenced reviews (Reporting) and  *)
(* the queue of drafts to be decided (ApprovalQueue).                      *)
(*                                                                         *)
(* Reporting, for any number of overlapping runs, report types and         *)
(* cadences: the inductive invariant ties what a run has drafted to what   *)
(* it can have read.  A draft is due against every review that was         *)
(* committed before its run began (Due), and every type a run has passed   *)
(* is fresh by a draft of its own or by a review that is stored (Fresh).   *)
(* While runs come one at a time a second invariant (Serial) orders them:  *)
(* reviews are made in the order of their commits, and every date with a   *)
(* run of its own has a review for no later date within the cadence.       *)
(*                                                                         *)
(* ApprovalQueue, for every finite set of rows, every set of stored types  *)
(* and every threshold: DecisionComplete needs no assumption on how many   *)
(* requests race.  That a decision is final, and that auto is earned, hold *)
(* for one request at a time (SerialHandlers): a request in flight then    *)
(* still finds its row pending when it commits (RequestStillPending), so   *)
(* the approvals counted once stay approved.                               *)
(***************************************************************************)
EXTENDS Reporting, ApprovalQueue, FiniteSetTheorems, TLAPS

ReviewTypes == Range(ReportTypes)
Drafts == [type : ReviewTypes, asOf : Nat, generated : Nat]
Sessions == [at : 1..Len(ReportTypes) + 1, asOf : Nat, onTime : BOOLEAN,
             began : Nat, drafts : SUBSET Drafts]
Stored == [type : ReviewTypes, asOf : Nat, generated : Nat, began : Nat, commit : Nat]

Typed ==
    /\ today \in 0..Horizon
    /\ reports \subseteq Stored
    /\ run \in [Runs -> {Closed} \cup Sessions]
    /\ starts \in 0..MaxRuns
    /\ commits \in Nat
    /\ ran \subseteq 0..today
    /\ rivals \in BOOLEAN

StoredDates ==
    \A p \in reports :
        /\ p.asOf <= p.generated /\ p.generated <= today
        /\ p.began < p.commit /\ p.commit <= commits

SessionDates ==
    \A r \in Open :
        /\ run[r].asOf <= today /\ run[r].began <= commits
        /\ \A d \in run[r].drafts :
               d.asOf = run[r].asOf /\ d.asOf <= d.generated /\ d.generated <= today

Due ==
    \A r \in Open : \A d \in run[r].drafts : \A p \in reports :
        p.type = d.type /\ p.commit <= run[r].began =>
            d.asOf - p.generated >= Cadence[d.type]

IsFresh(type, asOf, made) == asOf - made.generated < Cadence[type]

Fresh ==
    \A r \in Open : \A i \in 1..(run[r].at - 1) :
        \E made \in run[r].drafts \cup reports :
            /\ made.type = ReportTypes[i]
            /\ IsFresh(made.type, run[r].asOf, made)

IInv == Typed /\ StoredDates /\ SessionDates /\ Due /\ Fresh /\ PeriodsAreDisjoint

-----------------------------------------------------------------------------

LEMMA Constants ==
    /\ Horizon \in Nat /\ MaxRuns \in Nat
    /\ Len(ReportTypes) \in Nat
    /\ DOMAIN ReportTypes = 1..Len(ReportTypes)
    /\ \A i \in DOMAIN ReportTypes : ReportTypes[i] \in ReviewTypes
    /\ \A type \in ReviewTypes : Cadence[type] \in Nat /\ Cadence[type] > 0
  <1>1. ReportTypes \in Seq(ReviewTypes)
    BY ReportingAssumption DEF ReportingAssumption, ReviewTypes
  <1>2. Cadence \in [ReviewTypes -> Nat \ {0}]
    BY ReportingAssumption DEF ReportingAssumption, ReviewTypes
  <1>3. QED
    BY <1>1, <1>2, ReportingAssumption DEF ReportingAssumption

\* A session that is open is a record of a session.
LEMMA OpenSession ==
    ASSUME Typed
    PROVE  /\ \A r \in Runs : run[r] # Closed <=> r \in Open
           /\ \A r \in Open : r \in Runs /\ run[r] \in Sessions /\ run[r] # Closed
           /\ \A r \in Runs : run[r] \in Sessions => run[r] # Closed
  BY Constants DEF Typed, Open, Closed, Sessions

LEMMA InitIInv == Init => IInv
  <1> SUFFICES ASSUME Init PROVE IInv
    OBVIOUS
  <1>1. Typed
    <2>1. rivals \in BOOLEAN
      BY Zenon DEF Init
    <2>2. /\ today \in 0..Horizon /\ reports \subseteq Stored
          /\ run \in [Runs -> {Closed} \cup Sessions]
          /\ starts \in 0..MaxRuns /\ commits \in Nat /\ ran \subseteq 0..today
      BY Constants DEF Init
    <2>3. QED
      BY <2>1, <2>2 DEF Typed
  <1>2. Open = {}
    BY DEF Init, Open
  <1>3. QED
    BY <1>1, <1>2 DEF Init, IInv, StoredDates, SessionDates, Due, Fresh,
                      PeriodsAreDisjoint

LEMMA StartKeepsIInv ==
    ASSUME IInv, NEW r \in Runs, StartRun(r) PROVE IInv'
  <1> USE DEF IInv
  <1>1. PICK asOf \in 0..today :
            run' = [run EXCEPT ![r] = [at |-> 1, asOf |-> asOf,
                                       onTime |-> asOf = today,
                                       began |-> commits, drafts |-> {}]]
    BY DEF StartRun
  <1>2. UNCHANGED <<today, reports, commits, ran>>
    BY DEF StartRun
  <1>3. run'[r] \in Sessions
    BY <1>1, Constants DEF Typed, Sessions
  <1>4. Typed'
    BY <1>1, <1>2, <1>3, Constants DEF Typed, StartRun
  <1>5. ASSUME NEW k \in Open' PROVE \/ k \in Open /\ run'[k] = run[k]
                                     \/ k = r /\ run'[k].drafts = {}
                                        /\ run'[k].at = 1
                                        /\ run'[k].asOf = asOf
                                        /\ run'[k].began = commits
    BY <1>1 DEF Open, Typed
  <1>6. StoredDates' /\ PeriodsAreDisjoint'
    BY <1>2 DEF StoredDates, PeriodsAreDisjoint, PeriodStart
  <1>7. SessionDates'
    BY <1>2, <1>5 DEF SessionDates, Typed
  <1>8. Due'
    BY <1>2, <1>5 DEF Due
  <1>9. Fresh'
    <2> SUFFICES ASSUME NEW k \in Open', NEW i \in 1..(run'[k].at - 1)
                 PROVE \E made \in run'[k].drafts \cup reports' :
                           /\ made.type = ReportTypes[i]
                           /\ IsFresh(made.type, run'[k].asOf, made)
      BY DEF Fresh, IsFresh
    <2>1. k \in Open /\ run'[k] = run[k]
      BY <1>5
    <2>2. QED
      BY <2>1, <1>2 DEF Fresh, IsFresh
  <1>10. QED
    BY <1>4, <1>6, <1>7, <1>8, <1>9

\* What the block of run r would add to its drafts.
NextType(r) == ReportTypes[run[r].at]
NextDraft(r) == [type |-> NextType(r), asOf |-> run[r].asOf, generated |-> today]

\* A block adds its draft if the type is due, and nothing otherwise.
LEMMA ReviewDrafts ==
    ASSUME Typed, NEW r \in Runs, ReviewNext(r)
    PROVE  /\ r \in Open /\ run[r] \in Sessions /\ run[r].at \in 1..Len(ReportTypes)
           /\ UNCHANGED <<today, reports, starts, commits, ran, rivals>>
           /\ NextType(r) \in ReviewTypes /\ NextDraft(r) \in Drafts
           /\ run' \in [Runs -> {Closed} \cup Sessions]
           /\ \A k \in Open' : k \in Open /\ (k = r \/ run'[k] = run[k])
           /\ run'[r].at = run[r].at + 1 /\ run'[r].asOf = run[r].asOf
           /\ run'[r].began = run[r].began /\ run'[r].onTime = run[r].onTime
           /\ run[r].drafts \subseteq run'[r].drafts
           /\ ReportDue(NextType(r), run[r].asOf) => NextDraft(r) \in run'[r].drafts
           /\ \A d \in run'[r].drafts :
                  \/ d \in run[r].drafts
                  \/ d = NextDraft(r) /\ ReportDue(NextType(r), run[r].asOf)
  <1> DEFINE type == NextType(r)
             added == NextDraft(r)
             drafts == IF ReportDue(type, run[r].asOf)
                       THEN run[r].drafts \cup {added} ELSE run[r].drafts
  <1>1. /\ r \in Open /\ run[r] \in Sessions
        /\ run[r].at \in 1..Len(ReportTypes)
        /\ UNCHANGED <<today, reports, starts, commits, ran, rivals>>
    BY Constants, OpenSession DEF ReviewNext
  <1>2. run' = [run EXCEPT ![r] = [run[r] EXCEPT !.at = @ + 1, !.drafts = drafts]]
    BY <1>1 DEF ReviewNext, Typed, NextType, NextDraft
  <1>3. type \in ReviewTypes /\ added \in Drafts
    BY <1>1, Constants DEF Typed, Drafts, Sessions, NextType, NextDraft
  <1>4. drafts \in SUBSET Drafts
    BY <1>1, <1>3 DEF Sessions
  <1>5. /\ run[r].drafts \subseteq drafts
        /\ ReportDue(type, run[r].asOf) => added \in drafts
        /\ \A d \in drafts : \/ d \in run[r].drafts
                             \/ d = added /\ ReportDue(type, run[r].asOf)
    OBVIOUS
  <1> HIDE DEF drafts, added, type
  <1>6. run'[r] = [run[r] EXCEPT !.at = @ + 1, !.drafts = drafts]
    BY <1>1, <1>2 DEF Typed
  <1>7. /\ run'[r].at = run[r].at + 1 /\ run'[r].drafts = drafts
        /\ run'[r].asOf = run[r].asOf /\ run'[r].began = run[r].began
        /\ run'[r].onTime = run[r].onTime
    BY <1>1, <1>6 DEF Sessions
  <1>8. run'[r] \in Sessions
    <2>1. run[r].at + 1 \in 1..Len(ReportTypes) + 1
      BY <1>1, Constants
    <2>2. QED
      BY <1>1, <1>4, <1>6, <2>1 DEF Sessions
  <1>9. run' \in [Runs -> {Closed} \cup Sessions]
    BY <1>2, <1>6, <1>8 DEF Typed
  <1>10. ASSUME NEW k \in Open' PROVE k \in Open /\ (k = r \/ run'[k] = run[k])
    BY <1>1, <1>2 DEF Open, Typed
  <1>11. QED
    BY <1>1, <1>3, <1>5, <1>7, <1>9, <1>10 DEF type, added

LEMMA ReviewKeepsIInv ==
    ASSUME IInv, NEW r \in Runs, ReviewNext(r) PROVE IInv'
  <1> USE DEF IInv
  <1> DEFINE type == NextType(r)
             added == NextDraft(r)
  <1>1. /\ r \in Open /\ run[r] \in Sessions /\ run[r].at \in 1..Len(ReportTypes)
        /\ UNCHANGED <<today, reports, starts, commits, ran, rivals>>
        /\ type \in ReviewTypes /\ added \in Drafts
    BY ReviewDrafts
  <1>2. added.type = type /\ added.asOf = run[r].asOf /\ added.generated = today
    BY DEF NextDraft
  <1>4. /\ run'[r].at = run[r].at + 1
        /\ run'[r].asOf = run[r].asOf /\ run'[r].began = run[r].began
        /\ run[r].drafts \subseteq run'[r].drafts
    BY ReviewDrafts
  <1>5. Typed'
    BY ReviewDrafts DEF Typed
  <1>6. ASSUME NEW k \in Open' PROVE k \in Open /\ (k = r \/ run'[k] = run[k])
    BY ReviewDrafts
  <1>7. ASSUME NEW d \in run'[r].drafts
        PROVE \/ d \in run[r].drafts
              \/ d = added /\ ReportDue(type, run[r].asOf)
    BY ReviewDrafts
  <1> HIDE DEF added, type
  <1>8. StoredDates' /\ PeriodsAreDisjoint'
    BY <1>1 DEF StoredDates, PeriodsAreDisjoint, PeriodStart
  <1>9. SessionDates'
    <2> SUFFICES ASSUME NEW k \in Open'
                 PROVE /\ run'[k].asOf <= today /\ run'[k].began <= commits
                       /\ \A d \in run'[k].drafts :
                              /\ d.asOf = run'[k].asOf
                              /\ d.asOf <= d.generated /\ d.generated <= today
      BY <1>1 DEF SessionDates
    <2>1. CASE k # r
      BY <2>1, <1>6 DEF SessionDates
    <2>2. CASE k = r
      BY <2>2, <1>1, <1>2, <1>4, <1>7 DEF SessionDates, Typed, Sessions, Drafts
    <2>3. QED
      BY <2>1, <2>2
  <1>10. Due'
    <2> SUFFICES ASSUME NEW k \in Open', NEW d \in run'[k].drafts, NEW p \in reports,
                        p.type = d.type, p.commit <= run'[k].began
                 PROVE d.asOf - p.generated >= Cadence[d.type]
      BY <1>1 DEF Due
    <2>1. CASE k # r
      BY <2>1, <1>6 DEF Due
    <2>2. CASE k = r
      BY <2>2, <1>1, <1>2, <1>4, <1>7 DEF Due, ReportDue, Of
    <2>3. QED
      BY <2>1, <2>2
  <1>11. Fresh'
    <2> SUFFICES ASSUME NEW k \in Open', NEW i \in 1..(run'[k].at - 1)
                 PROVE \E made \in run'[k].drafts \cup reports :
                           /\ made.type = ReportTypes[i]
                           /\ IsFresh(made.type, run'[k].asOf, made)
      BY <1>1 DEF Fresh, IsFresh
    <2>1. CASE k # r
      BY <2>1, <1>6 DEF Fresh
    <2>2. CASE k = r /\ i < run[r].at
      BY <2>2, <1>1, <1>4 DEF Fresh, Sessions
    <2>3. CASE k = r /\ i = run[r].at /\ ReportDue(type, run[r].asOf)
      <3>1. added \in run'[k].drafts /\ added.type = ReportTypes[i]
        BY <2>3, <1>2, ReviewDrafts DEF added, type, NextType
      <3>2. IsFresh(added.type, run'[k].asOf, added)
        BY <2>3, <1>1, <1>2, <1>4, Constants
           DEF IsFresh, SessionDates, Typed, Sessions
      <3>3. QED
        BY <3>1, <3>2
    <2>4. CASE k = r /\ i = run[r].at /\ ~ReportDue(type, run[r].asOf)
      <3>1. PICK p \in reports : /\ p.type = type
                                 /\ ~(run[r].asOf - p.generated >= Cadence[type])
        BY <2>4 DEF ReportDue, Of
      <3>2. IsFresh(p.type, run'[k].asOf, p)
        BY <2>4, <3>1, <1>1, <1>4, Constants
           DEF IsFresh, Typed, Stored, Sessions
      <3>3. QED
        BY <3>1, <3>2, <2>4 DEF type, NextType
    <2>5. i \in 1..run[r].at \/ k # r
      BY <1>1, <1>4 DEF Sessions
    <2>6. QED
      BY <2>1, <2>2, <2>3, <2>4, <2>5, <1>1 DEF Sessions
  <1>12. QED
    BY <1>5, <1>8, <1>9, <1>10, <1>11

\* What a committed run leaves behind.
LEMMA CommitStores ==
    ASSUME IInv, NEW r \in Runs, CommitRun(r)
    PROVE  /\ r \in Open /\ run[r] \in Sessions
           /\ run[r].at = Len(ReportTypes) + 1
           /\ run' = [run EXCEPT ![r] = Closed]
           /\ UNCHANGED <<today, starts, rivals>>
           /\ reports \subseteq reports'
           /\ \A d \in run[r].drafts :
                  \E p \in reports' : /\ p.type = d.type /\ p.asOf = d.asOf
                                      /\ p.generated = d.generated
           /\ \A q \in reports' :
                  \/ q \in reports
                  \/ /\ commits' = commits + 1
                     /\ q.commit = commits + 1 /\ q.began = run[r].began
                     /\ \E d \in run[r].drafts :
                            /\ q.type = d.type /\ q.asOf = d.asOf
                            /\ q.generated = d.generated
                     /\ q \in Stored
           /\ commits' \in {commits, commits + 1}
           /\ ran' \subseteq 0..today
           /\ ran' = IF run[r].onTime THEN ran \cup {run[r].asOf} ELSE ran
  <1> USE DEF IInv
  <1> DEFINE Made(d) == [type |-> d.type, asOf |-> d.asOf, generated |-> d.generated,
                         began |-> run[r].began, commit |-> commits + 1]
             new == {Made(d) : d \in run[r].drafts}
  <1>1. r \in Open /\ run[r] \in Sessions /\ run[r].at = Len(ReportTypes) + 1
    BY Constants, OpenSession DEF CommitRun, Sessions
  <1>2. /\ reports' = reports \cup new
        /\ commits' = IF new = {} THEN commits ELSE commits + 1
        /\ run' = [run EXCEPT ![r] = Closed]
        /\ UNCHANGED <<today, starts, rivals>>
    BY DEF CommitRun
  <1>3. \A d \in run[r].drafts : Made(d) \in Stored
    BY <1>1 DEF Typed, Sessions, Drafts, Stored
  <1>4. ran' \subseteq 0..today
    <2>1. ran' = ran \/ ran' = ran \cup {run[r].asOf}
      BY DEF CommitRun
    <2>2. run[r].asOf \in 0..today
      BY <1>1, Constants DEF Typed, SessionDates, Sessions
    <2>3. QED
      BY <2>1, <2>2 DEF Typed
  <1>5. \A d \in run[r].drafts :
            \E p \in reports' : /\ p.type = d.type /\ p.asOf = d.asOf
                                /\ p.generated = d.generated
    <2> TAKE d \in run[r].drafts
    <2>1. Made(d) \in reports' /\ Made(d).type = d.type
          /\ Made(d).asOf = d.asOf /\ Made(d).generated = d.generated
      BY <1>2
    <2> HIDE DEF Made
    <2>2. QED
      BY <2>1
  <1>6. ASSUME NEW q \in reports', q \notin reports
        PROVE  /\ commits' = commits + 1
               /\ q.commit = commits + 1 /\ q.began = run[r].began
               /\ \E d \in run[r].drafts :
                      /\ q.type = d.type /\ q.asOf = d.asOf
                      /\ q.generated = d.generated
               /\ q \in Stored
    <2>1. PICK d \in run[r].drafts : q = Made(d)
      BY <1>2, <1>6
    <2>2. new # {}
      BY <2>1
    <2>3. QED
      BY <2>1, <2>2, <1>2, <1>3
  <1> HIDE DEF new
  <1>7. ran' = IF run[r].onTime THEN ran \cup {run[r].asOf} ELSE ran
    BY DEF CommitRun
  <1>8. QED
    BY <1>1, <1>2, <1>4, <1>5, <1>6, <1>7

LEMMA CommitKeepsIInv ==
    ASSUME IInv, NEW r \in Runs, CommitRun(r) PROVE IInv'
  <1> USE DEF IInv
  <1>1. ASSUME NEW k \in Open' PROVE k \in Open /\ k # r /\ run'[k] = run[k]
    BY CommitStores DEF Open, Typed
  <1>2. Typed'
    BY CommitStores, Constants DEF Typed
  <1>3. StoredDates'
    BY CommitStores DEF StoredDates, SessionDates, Typed, Sessions, Drafts, Stored
  <1>4. SessionDates'
    <2> SUFFICES ASSUME NEW k \in Open'
                 PROVE /\ run[k].asOf <= today /\ run[k].began <= commits'
                       /\ \A d \in run[k].drafts :
                              /\ d.asOf = run[k].asOf
                              /\ d.asOf <= d.generated /\ d.generated <= today
      BY <1>1, CommitStores DEF SessionDates
    <2>1. k \in Open /\ run[k].began \in Nat
      BY <1>1, OpenSession DEF Sessions
    <2>2. run[k].began <= commits'
      BY <2>1, CommitStores DEF SessionDates, Typed
    <2>3. QED
      BY <2>1, <2>2 DEF SessionDates
  <1>5. Due'
    <2> SUFFICES ASSUME NEW k \in Open', NEW d \in run[k].drafts, NEW p \in reports',
                        p.type = d.type, p.commit <= run[k].began
                 PROVE d.asOf - p.generated >= Cadence[d.type]
      BY <1>1 DEF Due
    <2>1. p \in reports
      BY <1>1, CommitStores, OpenSession DEF SessionDates, Typed, Sessions
    <2>2. QED
      BY <2>1, <1>1 DEF Due
  <1>6. Fresh'
    <2> SUFFICES ASSUME NEW k \in Open', NEW i \in 1..(run[k].at - 1)
                 PROVE \E made \in run[k].drafts \cup reports' :
                           /\ made.type = ReportTypes[i]
                           /\ IsFresh(made.type, run[k].asOf, made)
      BY <1>1 DEF Fresh, IsFresh
    <2>1. QED
      BY <1>1, CommitStores DEF Fresh
  <1>7. PeriodsAreDisjoint'
    <2> SUFFICES ASSUME NEW p \in reports', NEW q \in reports',
                        p.type = q.type, p.commit <= q.began
                 PROVE p.asOf < q.asOf - (Cadence[q.type] - 1)
      BY DEF PeriodsAreDisjoint, PeriodStart
    <2>1. p \in reports
      BY CommitStores DEF StoredDates, SessionDates, Typed, Sessions, Stored
    <2>2. CASE q \in reports
      BY <2>1, <2>2 DEF PeriodsAreDisjoint, PeriodStart
    <2>3. CASE q \notin reports
      <3>1. PICK d \in run[r].drafts : q.type = d.type /\ q.asOf = d.asOf
        BY <2>3, CommitStores
      <3>2. d.asOf - p.generated >= Cadence[d.type]
        BY <2>1, <2>3, <3>1, CommitStores DEF Due
      <3>3. p.asOf <= p.generated /\ p \in Stored /\ d \in Drafts
        BY <2>1, CommitStores DEF StoredDates, Typed, Sessions
      <3>4. QED
        BY <3>1, <3>2, <3>3, Constants DEF Stored, Drafts
    <2>4. QED
      BY <2>2, <2>3
  <1>8. QED
    BY <1>2, <1>3, <1>4, <1>5, <1>6, <1>7

LEMMA FailKeepsIInv ==
    ASSUME IInv, NEW r \in Runs, FailRun(r) PROVE IInv'
  <1> USE DEF IInv, FailRun
  <1>1. ASSUME NEW k \in Open' PROVE k \in Open /\ run'[k] = run[k]
    BY DEF Open, Typed
  <1>2. Typed'
    BY DEF Typed
  <1>3. StoredDates' /\ PeriodsAreDisjoint'
    BY DEF StoredDates, PeriodsAreDisjoint, PeriodStart
  <1>4. SessionDates' /\ Due'
    BY <1>1 DEF SessionDates, Due
  <1>5. Fresh'
    BY <1>1 DEF Fresh, IsFresh
  <1>6. QED
    BY <1>2, <1>3, <1>4, <1>5

LEMMA MidnightKeepsIInv == IInv /\ Midnight => IInv'
  <1> SUFFICES ASSUME IInv, Midnight PROVE IInv'
    OBVIOUS
  <1> USE DEF IInv, Midnight
  <1>1. Open' = Open
    BY DEF Open
  <1>2. Typed'
    BY Constants DEF Typed
  <1>3. StoredDates'
    BY DEF StoredDates, Typed, Stored
  <1>4. PeriodsAreDisjoint'
    BY DEF PeriodsAreDisjoint, PeriodStart
  <1>5. SessionDates'
    BY <1>1, OpenSession DEF SessionDates, Typed, Sessions, Drafts
  <1>6. Due' /\ Fresh'
    BY <1>1 DEF Due, Fresh, IsFresh
  <1>7. QED
    BY <1>2, <1>3, <1>4, <1>5, <1>6

LEMMA NextKeepsIInv == IInv /\ [Next]_vars => IInv'
  <1> SUFFICES ASSUME IInv, [Next]_vars PROVE IInv'
    OBVIOUS
  <1>1. CASE \E r \in Runs : StartRun(r) \/ ReviewNext(r) \/ CommitRun(r) \/ FailRun(r)
    BY <1>1, StartKeepsIInv, ReviewKeepsIInv, CommitKeepsIInv, FailKeepsIInv
  <1>2. CASE Midnight
    BY <1>2, MidnightKeepsIInv
  <1>3. CASE UNCHANGED vars
    BY <1>3 DEF vars, IInv, Typed, StoredDates, SessionDates, Due, Fresh, IsFresh,
                PeriodsAreDisjoint, PeriodStart, Open
  <1>4. QED
    BY <1>1, <1>2, <1>3 DEF Next

THEOREM Inductive == Spec => []IInv
  BY InitIInv, NextKeepsIInv, PTL DEF Spec

-----------------------------------------------------------------------------
(* Runs one at a time *)

\* A session drafts one review of a type, a commit brings one.
OneOfType ==
    /\ \A r \in Open : \A d \in run[r].drafts :
           /\ \E i \in 1..(run[r].at - 1) : d.type = ReportTypes[i]
           /\ \A e \in run[r].drafts : d.type = e.type => d = e
    /\ \A p, q \in reports : p.type = q.type /\ p.commit = q.commit => p = q

OneRun == \A r, k \in Open : r = k

NothingSince == \A r \in Open : run[r].began = commits

\* What is stored was made before anything a run has drafted, and no later
\* than the date of a run that is made on its date.
DraftsFollow ==
    \A r \in Open, p \in reports :
        /\ \A d \in run[r].drafts : p.generated <= d.generated
        /\ run[r].onTime => p.generated <= run[r].asOf

ReviewsFollow ==
    \A p, q \in reports :
        p.commit < q.commit => p.commit <= q.began /\ p.generated <= q.generated

RanIsFresh ==
    \A day \in ran, type \in ReviewTypes :
        \E p \in reports :
            p.type = type /\ p.asOf <= day /\ IsFresh(type, day, p)

Serial == OneRun /\ NothingSince /\ DraftsFollow /\ ReviewsFollow /\ RanIsFresh

SInv == OneOfType /\ (~rivals => Serial)

\* The cases of [Next]_vars below; every one of them leaves rivals as it is
\* or makes it true.
LEMMA StartOpens ==
    ASSUME Typed, NEW r \in Runs, StartRun(r)
    PROVE  /\ UNCHANGED <<today, reports, commits, ran>>
           /\ r \notin Open
           /\ ~rivals' => ~rivals /\ Open = {}
           /\ \A k \in Open' :
                  \/ k \in Open /\ run'[k] = run[k]
                  \/ /\ k = r /\ run'[k].drafts = {} /\ run'[k].began = commits
                     /\ run'[k].onTime => run'[k].asOf = today
  <1>1. /\ UNCHANGED <<today, reports, commits, ran>>
        /\ r \notin Open /\ (~rivals' => ~rivals /\ Open = {})
    BY OpenSession DEF StartRun
  <1>2. PICK asOf \in 0..today :
            run' = [run EXCEPT ![r] = [at |-> 1, asOf |-> asOf,
                                       onTime |-> asOf = today,
                                       began |-> commits, drafts |-> {}]]
    BY DEF StartRun
  <1>3. run'[r] = [at |-> 1, asOf |-> asOf, onTime |-> asOf = today,
                   began |-> commits, drafts |-> {}]
    BY <1>2 DEF Typed
  <1>4. QED
    BY <1>1, <1>2, <1>3 DEF Open, Typed

LEMMA StartKeepsSInv ==
    ASSUME IInv, SInv, NEW r \in Runs, StartRun(r) PROVE SInv'
  <1> USE DEF IInv
  <1>1. OneOfType'
    BY StartOpens DEF SInv, OneOfType
  <1>2. ASSUME ~rivals' PROVE Serial'
    <2>1. Serial /\ Open = {}
      BY <1>2, StartOpens DEF SInv
    <2>2. \A k \in Open' : /\ k = r /\ run'[k].drafts = {} /\ run'[k].began = commits
                           /\ run'[k].onTime => run'[k].asOf = today
      BY <2>1, StartOpens
    <2>3. OneRun' /\ NothingSince' /\ ReviewsFollow' /\ RanIsFresh'
      BY <2>1, <2>2, StartOpens
      DEF Serial, OneRun, NothingSince, ReviewsFollow, RanIsFresh, IsFresh
    <2>4. DraftsFollow'
      <3>1. reports' = reports /\ \A p \in reports : p.generated <= today
        BY StartOpens DEF StoredDates
      <3>2. QED
        BY <2>2, <3>1 DEF DraftsFollow
    <2>5. QED
      BY <2>3, <2>4 DEF Serial
  <1>3. QED
    BY <1>1, <1>2 DEF SInv

LEMMA ReviewKeepsSInv ==
    ASSUME IInv, SInv, NEW r \in Runs, ReviewNext(r) PROVE SInv'
  <1> USE DEF IInv
  <1>1. /\ r \in Open /\ run[r].at \in 1..Len(ReportTypes)
        /\ UNCHANGED <<today, reports, starts, commits, ran, rivals>>
        /\ \A k \in Open' : k \in Open /\ (k = r \/ run'[k] = run[k])
        /\ run'[r].at = run[r].at + 1 /\ run'[r].asOf = run[r].asOf
        /\ run'[r].began = run[r].began /\ run'[r].onTime = run[r].onTime
        /\ \A d \in run'[r].drafts : d \in run[r].drafts \/ d = NextDraft(r)
    BY ReviewDrafts
  <1>2. NextDraft(r).type = ReportTypes[run[r].at] /\ NextDraft(r).generated = today
    BY DEF NextDraft, NextType
  <1>3. \A d \in run[r].drafts : d.type # NextDraft(r).type
    <2> TAKE d \in run[r].drafts
    <2>1. PICK i \in 1..(run[r].at - 1) : d.type = ReportTypes[i]
      BY <1>1 DEF SInv, OneOfType
    <2>2. i \in DOMAIN ReportTypes /\ run[r].at \in DOMAIN ReportTypes /\ i # run[r].at
      BY <1>1, <2>1, Constants
    <2>3. QED
      BY <1>2, <2>1, <2>2, ReportingAssumption DEF ReportingAssumption, IsInjective
  <1>4. OneOfType'
    <2>1. ASSUME NEW k \in Open', NEW d \in run'[k].drafts
          PROVE  /\ \E i \in 1..(run'[k].at - 1) : d.type = ReportTypes[i]
                 /\ \A e \in run'[k].drafts : d.type = e.type => d = e
      <3>1. CASE k # r
        BY <2>1, <3>1, <1>1 DEF SInv, OneOfType
      <3>2. CASE k = r
        <4>1. \A e \in run'[k].drafts : d.type = e.type => d = e
          BY <2>1, <3>2, <1>1, <1>3 DEF SInv, OneOfType
        <4>2. CASE d \in run[r].drafts
          <5>1. PICK i \in 1..(run[r].at - 1) : d.type = ReportTypes[i]
            BY <1>1, <4>2 DEF SInv, OneOfType
          <5>2. i \in 1..(run'[k].at - 1)
            BY <3>2, <1>1
          <5>3. QED
            BY <4>1, <5>1, <5>2
        <4>3. CASE d = NextDraft(r)
          <5>1. run[r].at \in 1..(run'[k].at - 1)
            BY <3>2, <1>1
          <5>2. QED
            BY <4>1, <4>3, <5>1, <1>2
        <4>4. QED
          BY <2>1, <3>2, <4>2, <4>3, <1>1
      <3>3. QED
        BY <3>1, <3>2
    <2>2. QED
      BY <2>1, <1>1 DEF SInv, OneOfType
  <1>5. ASSUME ~rivals' PROVE Serial'
    <2>1. Serial
      BY <1>5, <1>1 DEF SInv
    <2>2. OneRun' /\ NothingSince' /\ ReviewsFollow' /\ RanIsFresh'
      BY <2>1, <1>1 DEF Serial, OneRun, NothingSince, ReviewsFollow, RanIsFresh, IsFresh
    <2>3. DraftsFollow'
      BY <2>1, <1>1, <1>2 DEF Serial, DraftsFollow, StoredDates
    <2>4. QED
      BY <2>2, <2>3 DEF Serial
  <1>6. QED
    BY <1>4, <1>5 DEF SInv

LEMMA CommitKeepsSInv ==
    ASSUME IInv, SInv, NEW r \in Runs, CommitRun(r) PROVE SInv'
  <1> USE DEF IInv
  <1>1. \A k \in Open' : k \in Open /\ k # r /\ run'[k] = run[k]
    BY CommitStores DEF Open, Typed
  <1>2. ASSUME NEW q \in reports', q \notin reports
        PROVE  /\ q \in Stored /\ q.commit = commits + 1 /\ q.began = run[r].began
               /\ \E d \in run[r].drafts :
                      /\ q.type = d.type /\ q.asOf = d.asOf
                      /\ q.generated = d.generated
    BY <1>2, CommitStores
  <1>3. \A p \in reports : p.commit <= commits /\ p \in Stored
    BY DEF StoredDates, Typed
  <1>4. OneOfType'
    <2>1. ASSUME NEW p \in reports', NEW q \in reports',
                 p.type = q.type, p.commit = q.commit
          PROVE  p = q
      <3>1. CASE p \in reports /\ q \in reports
        BY <2>1, <3>1 DEF SInv, OneOfType
      <3>2. CASE p \notin reports /\ q \notin reports
        <4>1. p.asOf = q.asOf /\ p.generated = q.generated /\ p.began = q.began
          BY <2>1, <3>2, <1>2, CommitStores DEF SInv, OneOfType
        <4>2. p \in Stored /\ q \in Stored
          BY <3>2, <1>2
        <4>3. QED
          BY <2>1, <4>1, <4>2 DEF Stored
      <3>3. CASE (p \in reports) # (q \in reports)
        BY <2>1, <3>3, <1>2, <1>3 DEF Typed, Stored
      <3>4. QED
        BY <3>1, <3>2, <3>3
    <2>2. QED
      BY <2>1, <1>1 DEF SInv, OneOfType
  <1>5. ASSUME ~rivals' PROVE Serial'
    <2>1. Serial
      BY <1>5, CommitStores DEF SInv
    <2>2. Open' = {}
      BY <1>1, <2>1, CommitStores DEF Serial, OneRun
    <2>3. OneRun' /\ NothingSince' /\ DraftsFollow'
      BY <2>2 DEF OneRun, NothingSince, DraftsFollow
    <2>4. ReviewsFollow'
      <3> SUFFICES ASSUME NEW p \in reports', NEW q \in reports', p.commit < q.commit
                   PROVE  p.commit <= q.began /\ p.generated <= q.generated
        BY DEF ReviewsFollow
      <3>1. p \in reports
        BY <1>2, <1>3, CommitStores DEF Typed, Stored
      <3>2. CASE q \in reports
        BY <2>1, <3>1, <3>2 DEF Serial, ReviewsFollow
      <3>3. CASE q \notin reports
        <4>1. q.began = commits /\ p.commit <= commits
          BY <2>1, <3>1, <3>3, <1>2, <1>3, CommitStores DEF Serial, NothingSince
        <4>2. p.generated <= q.generated
          BY <2>1, <3>1, <3>3, <1>2, CommitStores DEF Serial, DraftsFollow
        <4>3. QED
          BY <4>1, <4>2
      <3>4. QED
        BY <3>2, <3>3
    <2>5. RanIsFresh'
      <3> SUFFICES ASSUME NEW day \in ran', NEW type \in ReviewTypes
                   PROVE  \E p \in reports' : /\ p.type = type /\ p.asOf <= day
                                              /\ IsFresh(type, day, p)
        BY DEF RanIsFresh, IsFresh
      <3>1. CASE day \in ran
        BY <2>1, <3>1, CommitStores DEF Serial, RanIsFresh
      <3>2. CASE day \notin ran
        <4>1. run[r].onTime /\ day = run[r].asOf
          BY <3>2, CommitStores
        <4>2. PICK i \in DOMAIN ReportTypes : type = ReportTypes[i]
          BY DEF ReviewTypes, Range
        <4>3. i \in 1..(run[r].at - 1)
          BY <4>2, Constants, CommitStores
        <4>4. PICK made \in run[r].drafts \cup reports :
                  made.type = type /\ IsFresh(type, day, made)
          BY <4>1, <4>2, <4>3, CommitStores DEF Fresh
        <4>5. CASE made \in reports
          <5>1. made.generated <= day /\ made.asOf <= made.generated /\ made \in Stored
            BY <2>1, <4>1, <4>5, CommitStores DEF Serial, DraftsFollow, StoredDates, Typed
          <5>2. made.asOf <= day /\ made \in reports'
            BY <5>1, <4>1, <4>5, CommitStores DEF Stored, Sessions
          <5>3. QED
            BY <4>4, <5>2
        <4>6. CASE made \in run[r].drafts
          <5>1. PICK p \in reports' : /\ p.type = made.type /\ p.asOf = made.asOf
                                     /\ p.generated = made.generated
            BY <4>6, CommitStores
          <5>2. made.asOf = day /\ day \in Nat
            BY <4>1, <4>6, CommitStores DEF SessionDates, Sessions
          <5>3. QED
            BY <4>4, <5>1, <5>2 DEF IsFresh
        <4>7. QED
          BY <4>4, <4>5, <4>6
      <3>3. QED
        BY <3>1, <3>2
    <2>6. QED
      BY <2>3, <2>4, <2>5 DEF Serial
  <1>6. QED
    BY <1>4, <1>5 DEF SInv

LEMMA NextKeepsSInv == IInv /\ SInv /\ [Next]_vars => SInv'
  <1> SUFFICES ASSUME IInv, SInv, [Next]_vars PROVE SInv'
    OBVIOUS
  <1> USE DEF IInv, SInv
  <1>1. ASSUME NEW r \in Runs, StartRun(r) PROVE SInv'
    BY <1>1, StartKeepsSInv
  <1>2. ASSUME NEW r \in Runs, ReviewNext(r) PROVE SInv'
    BY <1>2, ReviewKeepsSInv
  <1>3. ASSUME NEW r \in Runs, CommitRun(r) PROVE SInv'
    BY <1>3, CommitKeepsSInv
  <1>4. ASSUME NEW r \in Runs, FailRun(r) PROVE SInv'
    <2>1. /\ \A k \in Open' : k \in Open /\ run'[k] = run[k]
          /\ UNCHANGED <<today, reports, starts, commits, ran, rivals>>
      BY <1>4 DEF FailRun, Open, Typed
    <2>2. OneOfType'
      BY <2>1 DEF OneOfType
    <2>3. Serial => Serial'
      BY <2>1 DEF Serial, OneRun, NothingSince, DraftsFollow, ReviewsFollow,
                  RanIsFresh, IsFresh
    <2>4. QED
      BY <2>1, <2>2, <2>3
  <1>5. ASSUME Midnight \/ UNCHANGED vars PROVE SInv'
    <2>1. UNCHANGED <<reports, run, commits, ran, rivals>>
      BY <1>5 DEF Midnight, vars
    <2>2. OneOfType' /\ (Serial => Serial')
      BY <2>1 DEF OneOfType, Open, Serial, OneRun, NothingSince, DraftsFollow,
                  ReviewsFollow, RanIsFresh, IsFresh
    <2>3. QED
      BY <2>1, <2>2
  <1>6. QED
    BY <1>1, <1>2, <1>3, <1>4, <1>5 DEF Next

LEMMA InitSInv == Init => SInv
  BY DEF Init, SInv, OneOfType, Open, Serial, OneRun, NothingSince, DraftsFollow,
         ReviewsFollow, RanIsFresh

THEOREM SerialInductive == Spec => []SInv
  BY InitSInv, NextKeepsSInv, Inductive, PTL DEF Spec

-----------------------------------------------------------------------------

\* Types: every stored review was made by the clock, for a date that had come,
\* and every open run is at one of the report types.
THEOREM TypeCorrect == Spec => []TypeOK
  <1>1. IInv => TypeOK
    <2> SUFFICES ASSUME IInv PROVE TypeOK
      OBVIOUS
    <2>1. \A p \in reports :
              /\ p.type \in Range(ReportTypes)
              /\ p.asOf \in 0..p.generated /\ p.generated <= today
              /\ p.began < p.commit /\ p.commit <= commits
      BY DEF IInv, Typed, StoredDates, Stored, ReviewTypes
    <2>2. \A r \in Open :
              /\ run[r].at \in 1..Len(ReportTypes) + 1
              /\ run[r].asOf \in 0..today /\ run[r].began \in 0..commits
      BY OpenSession, Constants DEF IInv, Typed, SessionDates, Sessions
    <2>3. QED
      BY <2>1, <2>2 DEF IInv, Typed, TypeOK
  <1>2. QED
    BY <1>1, Inductive, PTL

\* No day is reviewed twice by runs that follow each other, whatever dates
\* are filled in, whoever overlaps and whenever midnight passes.
THEOREM PeriodsAreDisjointHolds == Spec => []PeriodsAreDisjoint
  <1>1. IInv => PeriodsAreDisjoint
    BY DEF IInv
  <1>2. QED
    BY <1>1, Inductive, PTL

\* A committed run leaves every type reviewed within its cadence.
THEOREM FreshAfterRunHolds == Spec => FreshAfterRun
  <1> DEFINE Left(r) == \A i \in DOMAIN ReportTypes :
                            \E p \in reports' :
                                /\ p.type = ReportTypes[i]
                                /\ run[r].asOf - p.generated < Cadence[p.type]
             Step == \A r \in Runs : CommitRun(r) => Left(r)
  <1>1. ASSUME IInv, NEW r \in Runs, CommitRun(r) PROVE Left(r)
    <2> TAKE i \in DOMAIN ReportTypes
    <2>1. i \in 1..(run[r].at - 1)
      BY <1>1, CommitStores, Constants
    <2>2. PICK made \in run[r].drafts \cup reports :
              /\ made.type = ReportTypes[i]
              /\ IsFresh(made.type, run[r].asOf, made)
      BY <1>1, <2>1, CommitStores DEF IInv, Fresh
    <2>3. \E p \in reports' : p.type = made.type /\ p.generated = made.generated
      BY <1>1, <2>2, CommitStores
    <2>4. QED
      BY <2>2, <2>3 DEF IsFresh
  <1>2. IInv /\ [Next]_vars => [Step]_vars
    BY <1>1
  <1>3. QED
    BY <1>2, Inductive, PTL DEF Spec, FreshAfterRun

\* In runs that do not overlap, no date on which the second of two
\* consecutive reviews was due had a run of its own: that run would have left
\* a review between them.  So the days no review covers are dates without a
\* run, and the midnights the first review's run took.
THEOREM GapsAreExplainedHolds == Spec => []GapsAreExplained
  <1>1. ASSUME IInv, SInv, ~rivals,
               NEW p \in reports, NEW q \in reports, p.type = q.type,
               p.commit < q.commit,
               \A between \in Of(p.type) :
                   between.commit <= p.commit \/ q.commit <= between.commit,
               NEW day \in (p.generated + Cadence[p.type])..(q.asOf - 1)
        PROVE  day \notin ran
    <2> SUFFICES ASSUME day \in ran PROVE FALSE
      OBVIOUS
    <2>1. /\ p \in Stored /\ q \in Stored /\ Serial /\ day \in Int
          /\ p.type \in ReviewTypes /\ Cadence[p.type] \in Nat
      BY <1>1, Constants DEF IInv, Typed, SInv, Stored
    <2>2. PICK r \in reports : /\ r.type = p.type /\ r.asOf <= day
                              /\ day - r.generated < Cadence[p.type]
      BY <1>1, <2>1 DEF Serial, RanIsFresh, IsFresh
    <2>3. r \in Stored
      BY <1>1 DEF IInv, Typed
    <2>4. r.generated > p.generated /\ r.asOf < q.asOf
      BY <1>1, <2>1, <2>2, <2>3 DEF Stored
    <2>5. r.commit <= p.commit \/ q.commit <= r.commit
      BY <1>1, <2>2 DEF Of
    <2>6. CASE r.commit <= p.commit
      <3>1. r.commit < p.commit
        BY <1>1, <2>1, <2>2, <2>3, <2>4, <2>6 DEF SInv, OneOfType, Stored
      <3>2. r.generated <= p.generated
        BY <2>1, <3>1 DEF Serial, ReviewsFollow
      <3>3. QED
        BY <2>1, <2>3, <2>4, <3>2 DEF Stored
    <2>7. CASE q.commit <= r.commit
      <3>1. q.commit < r.commit
        BY <1>1, <2>1, <2>2, <2>3, <2>4, <2>7 DEF SInv, OneOfType, Stored
      <3>2. q.asOf < r.asOf - (Cadence[r.type] - 1)
        BY <1>1, <2>1, <2>2, <3>1
        DEF IInv, Serial, ReviewsFollow, PeriodsAreDisjoint, PeriodStart
      <3>3. Cadence[r.type] \in Nat /\ Cadence[r.type] > 0
        BY <2>1, <2>2, Constants
      <3>4. QED
        BY <2>1, <2>3, <2>4, <3>2, <3>3 DEF Stored
    <2>8. QED
      BY <2>5, <2>6, <2>7
  <1>2. ASSUME IInv, SInv PROVE GapsAreExplained
    <2> SUFFICES ASSUME ~rivals, NEW p \in reports, NEW q \in reports,
                        p.type = q.type, p.commit < q.commit,
                        \A between \in Of(p.type) :
                            between.commit <= p.commit \/ q.commit <= between.commit
                 PROVE  PeriodStart(q) - 1 - p.asOf
                            <= (p.generated - p.asOf)
                               + Cardinality((p.generated + Cadence[p.type])
                                                 ..(q.asOf - 1) \ ran)
      BY DEF GapsAreExplained
    <2>1. /\ p \in Stored /\ q \in Stored
          /\ Cadence[p.type] \in Nat
      BY <1>2, Constants DEF IInv, Typed, Stored
    <2> DEFINE due == p.generated + Cadence[p.type]
    <2>2. due \in Int /\ q.asOf - 1 \in Int
      BY <2>1 DEF Stored
    <2> HIDE DEF due
    <2>3. (due..(q.asOf - 1)) \ ran = due..(q.asOf - 1)
      BY <1>2, <1>1 DEF due
    <2>4. Cardinality(due..(q.asOf - 1))
              = IF due > q.asOf - 1 THEN 0 ELSE (q.asOf - 1) - due + 1
      BY <2>2, FS_Interval
    <2> DEFINE idle == Cardinality((due..(q.asOf - 1)) \ ran)
    <2>5. idle = IF due > q.asOf - 1 THEN 0 ELSE (q.asOf - 1) - due + 1
      BY <2>3, <2>4
    <2> HIDE DEF idle
    <2>6. PeriodStart(q) - 1 - p.asOf <= (p.generated - p.asOf) + idle
      BY <2>1, <2>2, <2>5 DEF due, PeriodStart, Stored
    <2>7. QED
      BY <2>6 DEF due, idle
  <1>3. QED
    BY <1>2, Inductive, SerialInductive, PTL

-----------------------------------------------------------------------------
(* The approval queue *)

RequestStillPending ==
    \A h \in Handlers :
        request[h] # Idle => status[request[h].action] = "pending"

CompleteInv == QueueTypeOK /\ DecisionComplete

EarnedInv == QueueTypeOK /\ RequestStillPending /\ AutoIsEarned

-----------------------------------------------------------------------------
(* Types *)

LEMMA RowOfType ==
    ASSUME NEW type \in StoredTypes, NEW tier \in Tiers
    PROVE  /\ CustomerFacing(RowOf[type])
           /\ Matrix[RowOf[type]][tier] \in Levels
  <1>1. RowOf[type] \in DOMAIN Matrix \ {"internal_brief"}
    BY DEF StoredTypes, RowOf, Matrix
  <1>2. Matrix[RowOf[type]][tier] \in Levels
    BY <1>1 DEF Matrix, Row, Tiers, Levels
  <1>3. QED  BY <1>1, <1>2 DEF CustomerFacing

LEMMA NewDraftType ==
    ASSUME NEW type \in Types, NEW tier \in Tiers, NEW flagged \in BOOLEAN
    PROVE  NewDraft(type, tier, flagged) \in Draft
  <1> DEFINE raw == Resolve(tier, RowOf[type],
                            Cardinality(Approved(CountedFor(type))), Threshold)
             level == Gate(raw, flagged)
  <1>1. raw \in Levels
    BY QueueAssumption, RowOfType DEF Resolve, Levels
  <1>2. level \in Levels
    BY <1>1 DEF Gate, Levels
  <1>3. NewDraft(type, tier, flagged) =
            [type |-> type, tier |-> tier, flagged |-> flagged, level |-> level]
    BY DEF NewDraft
  <1> HIDE DEF level
  <1>4. QED  BY <1>2, <1>3 DEF Draft

LEMMA NoDraftIsNone == NoDraft \notin Draft
  BY DEF NoDraft, Draft

LEMMA IdleIsNoRequest == Idle \notin [decision : Decisions, action : Ids]
  BY DEF Idle

LEMMA InitTypeOK == QueueInit => QueueTypeOK
  BY DEF QueueInit, QueueTypeOK, Statuses

LEMMA NextTypeOK == QueueTypeOK /\ [QueueNext]_queueVars => QueueTypeOK'
  <1> SUFFICES ASSUME QueueTypeOK, [QueueNext]_queueVars PROVE QueueTypeOK'
    OBVIOUS
  <1> DEFINE Requests == [decision : Decisions, action : Ids]
  <1>0. \A h \in Handlers : request[h] # Idle => request[h] \in Requests
    BY DEF QueueTypeOK
  <1>1. ASSUME NEW i \in Ids, StageAction(i)
        PROVE  QueueTypeOK'
    <2>1. PICK type \in Types, tier \in Tiers, flagged \in BOOLEAN :
              draft' = [draft EXCEPT ![i] = NewDraft(type, tier, flagged)]
      BY <1>1 DEF StageAction
    <2> DEFINE new == NewDraft(type, tier, flagged)
    <2>2. new \in Draft
      BY NewDraftType
    <2> HIDE DEF new
    <2>3. draft' = [draft EXCEPT ![i] = new] /\ new \in Draft /\ new # NoDraft
      BY <2>1, <2>2, NoDraftIsNone DEF new
    <2>4. status[i] = "absent" /\ status' = [status EXCEPT ![i] = "staged"]
      BY <1>1 DEF StageAction
    <2>5. QED  BY <1>0, <1>1, <2>3, <2>4 DEF QueueTypeOK, StageAction, Statuses
  <1>2. CASE CommitJob
    BY <1>0, <1>2 DEF QueueTypeOK, CommitJob, Staged, Statuses
  <1>3. CASE AbortJob
    BY <1>0, <1>3 DEF QueueTypeOK, AbortJob, Staged, Statuses
  <1>4. ASSUME NEW h \in Handlers, NEW i \in Ids, OpenRequest(h, i)
        PROVE  QueueTypeOK'
    <2>1. PICK decision \in Decisions :
              request' = [request EXCEPT ![h] = [decision |-> decision, action |-> i]]
      BY <1>4 DEF OpenRequest
    <2>2. QED  BY <1>4, <2>1 DEF QueueTypeOK, OpenRequest
  <1>5. ASSUME NEW h \in Handlers, Decide(h)
        PROVE  QueueTypeOK'
    <2>1. request[h] \in Requests
      BY <1>0, <1>5 DEF Decide
    <2>2. /\ request[h].decision \in {"approved", "rejected"}
          /\ request[h].action \in Ids
          /\ status[request[h].action] # "absent"
      BY <1>5, <2>1 DEF Decisions, QueueTypeOK, Decide
    <2>3. /\ status' = [status EXCEPT ![request[h].action] = request[h].decision]
          /\ request' = [request EXCEPT ![h] = Idle]
          /\ draft' = draft
          /\ approvedBy' \in [Ids -> BOOLEAN]
          /\ category' \in [Ids -> BOOLEAN]
      BY <1>5, <2>2 DEF QueueTypeOK, Decide
    <2>4. /\ status' \in [Ids -> Statuses]
          /\ request' \in [Handlers -> Requests \cup {Idle}]
          /\ \A i \in Ids : draft'[i] = NoDraft <=> status'[i] = "absent"
      BY <2>2, <2>3 DEF QueueTypeOK, Statuses
    <2>5. ASSUME NEW g \in Handlers, request'[g] # Idle
          PROVE  status'[request'[g].action] \in {"pending", "approved", "rejected"}
      <3>1. request'[g] = request[g]
        BY <2>3, <2>5 DEF QueueTypeOK
      <3>2. request[g].action \in Ids
        BY <1>0, <2>5, <3>1
      <3>3. QED  BY <2>2, <2>3, <2>5, <3>1, <3>2 DEF QueueTypeOK
    <2>6. QED  BY <2>3, <2>4, <2>5 DEF QueueTypeOK
  <1>6. ASSUME NEW h \in Handlers, DropRequest(h)
        PROVE  QueueTypeOK'
    BY <1>6 DEF QueueTypeOK, DropRequest
  <1>7. CASE UNCHANGED queueVars
    BY <1>7 DEF QueueTypeOK, queueVars
  <1>8. QED
    BY <1>1, <1>2, <1>3, <1>4, <1>5, <1>6, <1>7 DEF QueueNext, Jobs, Api

-----------------------------------------------------------------------------
(* Racing requests leave every decision complete *)

LEMMA DecideCompletes ==
    ASSUME CompleteInv, NEW h \in Handlers, Decide(h)
    PROVE  DecisionComplete'
  <1>1. request[h].decision \in Decisions /\ request[h].action \in Ids
    BY DEF CompleteInv, QueueTypeOK, Decide
  <1> SUFFICES ASSUME NEW i \in Ids
               PROVE  /\ status'[i] = "rejected" => category'[i]
                      /\ status'[i] = "approved" => approvedBy'[i]
    BY DEF DecisionComplete
  <1>2. CASE i = request[h].action
    <2>1. /\ status'[i] = request[h].decision
          /\ request[h].decision = "rejected" => category'[i]
          /\ request[h].decision = "approved" => approvedBy'[i]
      BY <1>1, <1>2 DEF CompleteInv, QueueTypeOK, Decide
    <2>2. QED  BY <2>1
  <1>3. CASE i # request[h].action
    <2>1. /\ status'[i] = status[i]
          /\ category'[i] = category[i]
          /\ approvedBy'[i] = approvedBy[i]
      BY <1>1, <1>3 DEF CompleteInv, QueueTypeOK, Decide
    <2>2. QED  BY <2>1 DEF CompleteInv, DecisionComplete
  <1>4. QED  BY <1>2, <1>3

LEMMA NextCompleteInv == CompleteInv /\ [QueueNext]_queueVars => CompleteInv'
  <1> SUFFICES ASSUME CompleteInv, [QueueNext]_queueVars PROVE DecisionComplete'
    BY NextTypeOK DEF CompleteInv
  <1>1. ASSUME NEW i \in Ids, StageAction(i)
        PROVE  DecisionComplete'
    BY <1>1 DEF CompleteInv, QueueTypeOK, DecisionComplete, StageAction
  <1>2. CASE CommitJob
    BY <1>2 DEF CompleteInv, DecisionComplete, CommitJob
  <1>3. CASE AbortJob
    BY <1>3 DEF CompleteInv, DecisionComplete, AbortJob
  <1>4. ASSUME NEW h \in Handlers, NEW i \in Ids, OpenRequest(h, i) \/ DropRequest(h)
        PROVE  DecisionComplete'
    BY <1>4 DEF CompleteInv, DecisionComplete, OpenRequest, DropRequest
  <1>5. ASSUME NEW h \in Handlers, Decide(h)
        PROVE  DecisionComplete'
    BY <1>5, DecideCompletes
  <1>6. ASSUME NEW h \in Handlers, DropRequest(h)
        PROVE  DecisionComplete'
    BY <1>6 DEF CompleteInv, DecisionComplete, DropRequest
  <1>7. CASE UNCHANGED queueVars
    BY <1>7 DEF CompleteInv, DecisionComplete, queueVars
  <1>8. QED
    BY <1>1, <1>2, <1>3, <1>4, <1>5, <1>6, <1>7 DEF QueueNext, Jobs, Api

-----------------------------------------------------------------------------
(* One request at a time *)

\* A single request finds its row still pending when it commits.
LEMMA NextRequestStillPending ==
    ASSUME SerialHandlers, QueueTypeOK, RequestStillPending, [QueueNext]_queueVars
    PROVE  RequestStillPending'
  <1>0. \A h \in Handlers : request[h] # Idle => request[h].action \in Ids
    BY DEF QueueTypeOK
  <1>1. ASSUME NEW i \in Ids, StageAction(i)
        PROVE  RequestStillPending'
    BY <1>0, <1>1 DEF QueueTypeOK, RequestStillPending, StageAction
  <1>2. CASE CommitJob
    BY <1>0, <1>2 DEF RequestStillPending, CommitJob
  <1>3. CASE AbortJob
    BY <1>0, <1>3 DEF RequestStillPending, AbortJob, Staged
  <1>4. ASSUME NEW h \in Handlers, NEW i \in Ids, OpenRequest(h, i)
        PROVE  RequestStillPending'
    BY <1>4 DEF QueueTypeOK, RequestStillPending, OpenRequest, SerialHandlers
  <1>5. ASSUME NEW h \in Handlers, Decide(h) \/ DropRequest(h)
        PROVE  RequestStillPending'
    BY <1>5 DEF QueueTypeOK, RequestStillPending, Decide, DropRequest, SerialHandlers
  <1>6. CASE UNCHANGED queueVars
    BY <1>6 DEF RequestStillPending, queueVars
  <1>7. QED
    BY <1>1, <1>2, <1>3, <1>4, <1>5, <1>6 DEF QueueNext, Jobs, Api

\* No step takes an approval back, and decided rows keep their drafts.
LEMMA ApprovalsGrow ==
    ASSUME QueueTypeOK, RequestStillPending, [QueueNext]_queueVars, NEW types
    PROVE  Approved(types) \subseteq Approved(types)'
  <1> SUFFICES ASSUME NEW i \in Ids, status[i] = "approved"
               PROVE  status'[i] = "approved" /\ draft'[i] = draft[i]
    BY DEF Approved
  <1>1. ASSUME NEW j \in Ids, StageAction(j)
        PROVE  status'[i] = "approved" /\ draft'[i] = draft[i]
    BY <1>1 DEF QueueTypeOK, StageAction
  <1>2. CASE CommitJob \/ AbortJob
    BY <1>2 DEF CommitJob, AbortJob, Staged
  <1>3. ASSUME NEW h \in Handlers, Decide(h)
        PROVE  status'[i] = "approved" /\ draft'[i] = draft[i]
    BY <1>3 DEF QueueTypeOK, RequestStillPending, Decide
  <1>4. ASSUME NEW h \in Handlers, NEW j \in Ids, OpenRequest(h, j)
        PROVE  status'[i] = "approved" /\ draft'[i] = draft[i]
    BY <1>4 DEF OpenRequest
  <1>5. ASSUME NEW h \in Handlers, DropRequest(h)
        PROVE  status'[i] = "approved" /\ draft'[i] = draft[i]
    BY <1>5 DEF DropRequest
  <1>6. CASE UNCHANGED queueVars
    BY <1>6 DEF queueVars
  <1>7. QED
    BY <1>1, <1>2, <1>3, <1>4, <1>5, <1>6 DEF QueueNext, Jobs, Api

LEMMA ApprovalCountsGrow ==
    ASSUME QueueTypeOK, RequestStillPending, [QueueNext]_queueVars, NEW types,
           Cardinality(Approved(types)) >= Threshold
    PROVE  Cardinality(Approved(types))' >= Threshold
  <1>1. Approved(types) \subseteq Ids /\ Approved(types)' \subseteq Ids
    BY DEF Approved
  <1>2. IsFiniteSet(Approved(types)) /\ IsFiniteSet(Approved(types)')
    BY <1>1, QueueAssumption, FS_Subset
  <1>3. /\ Cardinality(Approved(types)) \in Nat
        /\ Cardinality(Approved(types)') \in Nat
        /\ Cardinality(Approved(types)) <= Cardinality(Approved(types)')
    BY <1>2, ApprovalsGrow, FS_Subset, FS_CardinalityType
  <1>4. QED  BY <1>3, QueueAssumption

\* Only the row of the budget cases counts approvals of another category,
\* and no tier of it is auto.
LEMMA AutoCountsItsCategory ==
    ASSUME NEW type \in StoredTypes, NEW tier \in Tiers, Matrix[RowOf[type]][tier] = "auto"
    PROVE  CountedFor(type) = CategoryOf(type)
  <1>1. type # "exec_to_exec_budget_or_displacement"
    BY DEF Matrix, RowOf, Row, Tiers
  <1>2. QED  BY <1>1 DEF CountedFor, CategoryOf

\* A draft that comes out auto has the approvals it was promoted on.
LEMMA AutoDraftIsEarned ==
    ASSUME NEW type \in Types, NEW tier \in Tiers, NEW flagged \in BOOLEAN,
           NewDraft(type, tier, flagged).level = "auto"
    PROVE  /\ ~NewDraft(type, tier, flagged).flagged
           /\ NewDraft(type, tier, flagged).type = type
           /\ Cardinality(Approved(CategoryOf(type))) >= Threshold
  <1> DEFINE count == Cardinality(Approved(CountedFor(type)))
             raw == Resolve(tier, RowOf[type], count, Threshold)
  <1>1. Gate(raw, flagged) = "auto"
    BY DEF NewDraft
  <1>2. raw = "auto" /\ ~flagged
    BY <1>1 DEF Gate
  <1>3. ~(count < Threshold)
    BY <1>2, QueueAssumption, RowOfType DEF Resolve
  <1>4. count \in Nat
    <2>1. Approved(CountedFor(type)) \subseteq Ids
      BY DEF Approved
    <2>2. QED  BY <2>1, QueueAssumption, FS_Subset, FS_CardinalityType
  <1>5. CountedFor(type) = CategoryOf(type)
    <2>1. Matrix[RowOf[type]][tier] = "auto"
      BY <1>2 DEF Resolve
    <2>2. type \in StoredTypes
      BY QueueAssumption
    <2>3. QED  BY <2>1, <2>2, AutoCountsItsCategory
  <1>6. Cardinality(Approved(CountedFor(type))) >= Threshold
    BY <1>3, <1>4, QueueAssumption
  <1>7. QED  BY <1>2, <1>5, <1>6 DEF NewDraft

LEMMA NextEarnedInv ==
    ASSUME SerialHandlers, EarnedInv, [QueueNext]_queueVars
    PROVE  EarnedInv'
  <1>1. QueueTypeOK' /\ RequestStillPending'
    BY NextTypeOK, NextRequestStillPending DEF EarnedInv
  <1> SUFFICES ASSUME NEW i \in Ids, NEW type \in Types, status'[i] # "absent",
                      draft'[i].type = type, draft'[i].level = "auto"
               PROVE  /\ ~draft'[i].flagged
                      /\ Cardinality(Approved(CategoryOf(type)))' >= Threshold
    BY <1>1 DEF EarnedInv, AutoIsEarned
  <1>2. CASE status[i] # "absent" /\ draft'[i] = draft[i]
    <2>1. /\ ~draft[i].flagged
          /\ Cardinality(Approved(CategoryOf(type))) >= Threshold
      BY <1>2 DEF EarnedInv, AutoIsEarned
    <2>2. Cardinality(Approved(CategoryOf(type)))' >= Threshold
      BY <2>1, ApprovalCountsGrow DEF EarnedInv
    <2>3. QED  BY <1>2, <2>1, <2>2
  <1>3. CASE StageAction(i)
    <2>1. PICK chosen \in Types, tier \in Tiers, flagged \in BOOLEAN :
              draft'[i] = NewDraft(chosen, tier, flagged)
      BY <1>3 DEF StageAction, EarnedInv, QueueTypeOK
    <2>2. /\ ~draft'[i].flagged
          /\ chosen = type
          /\ Cardinality(Approved(CategoryOf(type))) >= Threshold
      BY <2>1, AutoDraftIsEarned
    <2>3. Cardinality(Approved(CategoryOf(type)))' >= Threshold
      BY <2>2, ApprovalCountsGrow DEF EarnedInv
    <2>4. QED  BY <2>2, <2>3
  <1>4. StageAction(i) \/ (status[i] # "absent" /\ draft'[i] = draft[i])
    <2>1. ASSUME NEW j \in Ids, StageAction(j), j # i
          PROVE  status'[i] = status[i] /\ draft'[i] = draft[i]
      BY <2>1 DEF StageAction, EarnedInv, QueueTypeOK
    <2>2. CASE CommitJob
      BY <2>2 DEF CommitJob, Staged
    <2>3. CASE AbortJob
      BY <2>3 DEF AbortJob, Staged
    <2>4. ASSUME NEW h \in Handlers, Decide(h)
          PROVE  status[i] # "absent" /\ draft'[i] = draft[i]
      BY <2>4 DEF Decide, EarnedInv, QueueTypeOK
    <2>5. ASSUME NEW h \in Handlers, NEW j \in Ids, OpenRequest(h, j)
          PROVE  status'[i] = status[i] /\ draft'[i] = draft[i]
      BY <2>5 DEF OpenRequest
    <2>6. ASSUME NEW h \in Handlers, DropRequest(h)
          PROVE  status'[i] = status[i] /\ draft'[i] = draft[i]
      BY <2>6 DEF DropRequest
    <2>7. CASE UNCHANGED queueVars
      BY <2>7 DEF queueVars
    <2>8. QED
      BY <2>1, <2>2, <2>3, <2>4, <2>5, <2>6, <2>7 DEF QueueNext, Jobs, Api
  <1>5. QED  BY <1>2, <1>3, <1>4

-----------------------------------------------------------------------------
(* Theorems *)

\* The queue's columns keep their types, whatever requests race.
THEOREM QueueTypeCorrect == QueueSpec => []QueueTypeOK
  <1>1. QED  BY InitTypeOK, NextTypeOK, PTL DEF QueueSpec

\* However many requests decide the same row at once, a rejected row has
\* its reason and an approved row its signature.
THEOREM DecisionCompleteHolds == QueueSpec => []DecisionComplete
  <1>1. QueueInit => CompleteInv
    BY InitTypeOK DEF CompleteInv, DecisionComplete, QueueInit
  <1>2. CompleteInv => DecisionComplete
    BY DEF CompleteInv
  <1>3. QED  BY <1>1, <1>2, NextCompleteInv, PTL DEF QueueSpec

THEOREM EarnedInvHolds ==
    ASSUME SerialHandlers
    PROVE  QueueSpec => []EarnedInv
  <1>1. QueueInit => EarnedInv
    BY InitTypeOK DEF EarnedInv, RequestStillPending, AutoIsEarned, QueueInit
  <1>2. EarnedInv /\ [QueueNext]_queueVars => EarnedInv'
    BY NextEarnedInv
  <1>3. QED  BY <1>1, <1>2, PTL DEF QueueSpec

\* With one request at a time, no row of the queue says auto without an
\* unflagged draft and a full threshold of approvals of its own category.
THEOREM AutoIsEarnedHolds ==
    ASSUME SerialHandlers
    PROVE  QueueSpec => []AutoIsEarned
  <1>1. EarnedInv => AutoIsEarned
    BY DEF EarnedInv
  <1>2. QED  BY EarnedInvHolds, <1>1, PTL

\* With one request at a time, a decision is final.
THEOREM DecidedOnceHolds ==
    ASSUME SerialHandlers
    PROVE  QueueSpec => DecidedOnce
  <1> DEFINE Final == \A i \in Ids : status[i] \in Decisions => status'[i] = status[i]
  <1>1. EarnedInv /\ [QueueNext]_queueVars => [Final]_queueVars
    <2> SUFFICES ASSUME EarnedInv, QueueNext, NEW i \in Ids, status[i] \in Decisions
                 PROVE  status'[i] = status[i]
      BY DEF queueVars
    <2>1. status[i] \notin {"absent", "staged", "pending"}
      BY DEF Decisions
    <2>2. ASSUME NEW h \in Handlers, Decide(h)
          PROVE  status'[i] = status[i]
      BY <2>1, <2>2 DEF EarnedInv, QueueTypeOK, RequestStillPending, Decide
    <2>3. ASSUME NEW j \in Ids, StageAction(j)
          PROVE  status'[i] = status[i]
      BY <2>1, <2>3 DEF EarnedInv, QueueTypeOK, StageAction
    <2>4. CASE CommitJob \/ AbortJob
      BY <2>1, <2>4 DEF CommitJob, AbortJob, Staged
    <2>5. ASSUME NEW h \in Handlers, NEW j \in Ids, OpenRequest(h, j)
          PROVE  status'[i] = status[i]
      BY <2>5 DEF OpenRequest
    <2>6. ASSUME NEW h \in Handlers, DropRequest(h)
          PROVE  status'[i] = status[i]
      BY <2>6 DEF DropRequest
    <2>7. QED
      BY <2>2, <2>3, <2>4, <2>5, <2>6 DEF QueueNext, Jobs, Api
  <1>2. QED  BY EarnedInvHolds, <1>1, PTL DEF QueueSpec, DecidedOnce

=============================================================================
