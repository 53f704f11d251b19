-------------------------------- MODULE Ingest --------------------------------
(***************************************************************************)
(* One account in the ingest loader (ingest/loader.py) and the billing     *)
(* reconciliation (ingest/reconciliation.py, jobs/reconcile_billing.py).   *)
(*                                                                         *)
(* A load takes an export of the product database, walks through its       *)
(* entities in order, and commits once; loads may overlap (a retry of one  *)
(* given up too early) or fail.  Sessions are READ COMMITTED: a select     *)
(* sees what is committed then, a write waits for the other session that   *)
(* holds the row.  The product database and the people who classify the    *)
(* account are outside; Finance bills what the product counts.             *)
(***************************************************************************)
EXTENDS Integers, SequencesExt

CONSTANTS
    Loads,          \* sessions that may be loading at the same time
    Campaigns,      \* sequence of the account's campaigns, in export order
    Plans,          \* values of the product's fields of the account
    Tiers,          \* values of the fields CS owns
    LowestTier,     \* what an account is created with
    NoRow,          \* stands for a row that does not exist
    MaxEvents       \* bound: changes of the product database, edits by CS
                    \* and loads lost for a reason outside this module

\* A row of accounts: a version, the one it follows (0 for none), the
\* product's fields, CS's fields, and valid_to IS NULL.
AccountRows == [id : Nat, follows : Nat, plan : Plans, tier : Tiers,
                current : BOOLEAN]

ASSUME IngestAssumption ==
    /\ LowestTier \in Tiers
    /\ NoRow \notin AccountRows \cup Nat \cup {"free", "billable"}
    /\ Plans # {}
    /\ MaxEvents \in Nat
    /\ "account" \notin Range(Campaigns) /\ "billed" \notin Range(Campaigns)
    /\ Campaigns \in Seq(Range(Campaigns))
    /\ IsInjective(Campaigns)

VARIABLES
    source,         \* the product database: [plan, campaigns, intact]
    versions,       \* committed rows of accounts, in order of their commits
    rows,           \* committed campaigns and the billed count
    tx,             \* the session of each load
    reconciliation, \* the nightly comparison
    events,         \* changes, edits and failures so far
    judged,         \* history: the tier CS gave last, and whether a load had
                    \* read the row and not yet written its copy
    mixed           \* history: the last load to commit was not alone

vars == <<source, versions, rows, tx, reconciliation, events, judged, mixed>>

\* Departments and users are upserted as the campaigns are; nothing of the
\* properties below depends on them.
Entities == <<"account">> \o Campaigns \o <<"billed">>
Stored == Range(Campaigns) \cup {"billed"}

Billable(of) == Cardinality({c \in Range(Campaigns) : of[c] = "billable"})

\* What an export says of an entity; its billing periods agree with it.
Exported(export, entity) ==
    CASE entity = "account" -> export.plan
      [] entity = "billed"  -> Billable(export.campaigns)
      [] OTHER              -> export.campaigns[entity]

CurrentVersions == {i \in DOMAIN versions : versions[i].current}

\* _current_account_version
Current == IF CurrentVersions = {} THEN NoRow
           ELSE versions[Max(CurrentVersions)]

Visible(entity) == IF entity = "account" THEN Current ELSE rows[entity]

Idle == [at |-> 0]
Active == {l \in Loads : tx[l] # Idle}

Init ==
    /\ source = [plan |-> CHOOSE p \in Plans : TRUE,
                 campaigns |-> [c \in Range(Campaigns) |-> NoRow],
                 intact |-> TRUE]
    /\ versions = <<>>
    /\ rows = [e \in Stored |-> NoRow]
    /\ tx = [l \in Loads |-> Idle]
    /\ reconciliation = [stage |-> "idle"]
    /\ events = 0
    /\ judged = [tier |-> LowestTier, crossed |-> FALSE]
    /\ mixed = FALSE

-----------------------------------------------------------------------------
(* Outside *)

Event == events < MaxEvents /\ events' = events + 1

\* The product changes the account, adds or re-rates a campaign, or yields
\* exports in which a reference dangles, until that is repaired.
SourceChanges ==
    /\ Event
    /\ \/ \E p \in Plans \ {source.plan} : source' = [source EXCEPT !.plan = p]
       \/ \E c \in Range(Campaigns), s \in {"free", "billable"} :
              /\ source.campaigns[c] # s
              /\ source' = [source EXCEPT !.campaigns[c] = s]
       \/ source' = [source EXCEPT !.intact = ~@]
    /\ UNCHANGED <<versions, rows, tx, reconciliation, judged, mixed>>

Holders(entity) == {l \in Active : entity \in DOMAIN tx[l].writes}

\* CS classifies the account: an UPDATE of the current row.
Classify(tier) ==
    /\ Event /\ Current # NoRow /\ Current.tier # tier
    /\ Holders("account") = {}
    /\ versions' = [versions EXCEPT ![Max(CurrentVersions)].tier = tier]
    /\ judged' = [tier |-> tier,
                  crossed |-> \E l \in Active : tx[l].at = 1 /\ tx[l].seen # <<>>]
    /\ UNCHANGED <<source, rows, tx, reconciliation, mixed>>

-----------------------------------------------------------------------------
(* A load *)

\* FixtureAdapter reads the whole export before load() starts.
StartLoad(l) ==
    /\ tx[l] = Idle
    /\ tx' = [tx EXCEPT ![l] = [at |-> 1, export |-> source, seen |-> <<>>,
                                writes |-> <<>>, alone |-> TRUE]]
    /\ UNCHANGED <<source, versions, rows, reconciliation, events, judged, mixed>>

\* The session rolls back, and with it everything the load wrote.
Rollback(l) == tx' = [tx EXCEPT ![l] = Idle]

Loading(l) == tx[l] # Idle /\ tx[l].at \in DOMAIN Entities
EntityOf(l) == Entities[tx[l].at]
WantedBy(l) == Exported(tx[l].export, EntityOf(l))
Advanced(t) == [t EXCEPT !.at = @ + 1, !.seen = <<>>]

\* Mutant: a row that exists is never updated.
Settled_Exists(entity, wanted, row) == wanted = NoRow \/ row # NoRow

\* The row already says what the export says (or the export has no record).
Settled(entity, wanted, row) ==
    \/ wanted = NoRow
    \/ row # NoRow /\ wanted = (IF entity = "account" THEN row.plan ELSE row)

\* The select of an upsert; a dangling reference raises ValueError.
ReadRow(l) ==
    /\ Loading(l) /\ tx[l].seen = <<>>
    /\ IF ~tx[l].export.intact /\ EntityOf(l) \in Range(Campaigns)
       THEN Rollback(l)
       ELSE tx' = [tx EXCEPT ![l] =
                      IF Settled(EntityOf(l), WantedBy(l), Visible(EntityOf(l)))
                      THEN Advanced(@)
                      ELSE [@ EXCEPT !.seen = <<Visible(EntityOf(l))>>]]
    /\ UNCHANGED <<source, versions, rows, reconciliation, events, judged, mixed>>

\* Mutant: the index that keeps one current version is missing.
Collides_RowsOnly(entity, seen) ==
    entity # "account" /\ seen = NoRow /\ rows[entity] # NoRow

\* A second INSERT of an external_id, or of a current version, meets the
\* row another session committed meanwhile (unique, ux_accounts_current).
\* Closing a version is by its id, so a copy with another tier is the same.
Collides(entity, seen) ==
    IF entity = "account"
    THEN /\ Current # NoRow
         /\ seen # NoRow => seen.id # Current.id
    ELSE seen = NoRow /\ rows[entity] # NoRow

\* Mutant: a new version starts over with the default.
NewVersion_Defaults(l, seen) ==
    [id |-> Len(versions) + 1,
     follows |-> IF seen = NoRow THEN 0 ELSE seen.id,
     plan |-> tx[l].export.plan,
     tier |-> LowestTier,
     current |-> TRUE]

\* The version a load opens, with the product's fields and CS's as it read
\* them; the one it follows is closed at the same instant.
NewVersion(l, seen) ==
    [id |-> Len(versions) + 1,
     follows |-> IF seen = NoRow THEN 0 ELSE seen.id,
     plan |-> tx[l].export.plan,
     tier |-> IF seen = NoRow THEN LowestTier ELSE seen.tier,
     current |-> TRUE]

Wrote(t, entity, value) ==
    [Advanced(t) EXCEPT !.writes = [e \in DOMAIN t.writes \cup {entity} |->
                                       IF e = entity THEN value ELSE t.writes[e]]]

\* The UPDATE or INSERT, once no other session holds the row.
WriteRow(l) ==
    LET entity == EntityOf(l)
        seen   == tx[l].seen[1]
        value  == IF entity = "account" THEN NewVersion(l, seen) ELSE WantedBy(l)
    IN  /\ Loading(l) /\ tx[l].seen # <<>>
        /\ Holders(entity) = {}
        /\ IF Collides(entity, seen) THEN Rollback(l)
           ELSE tx' = [tx EXCEPT ![l] = Wrote(@, entity, value)]
        /\ UNCHANGED <<source, versions, rows, reconciliation, events, judged, mixed>>

\* What a commit makes visible: the closed version stays, the one that
\* follows it is the last.  Other loads are no longer alone.
Apply(l) ==
    LET writes == tx[l].writes
        opened == writes["account"]
    IN  /\ versions' =
               IF "account" \notin DOMAIN writes THEN versions
               ELSE Append([i \in DOMAIN versions |->
                               IF versions[i].id = opened.follows
                               THEN [versions[i] EXCEPT !.current = FALSE]
                               ELSE versions[i]],
                           opened)
        /\ rows' = [e \in Stored |->
                       IF e \in DOMAIN writes THEN writes[e] ELSE rows[e]]
        /\ reconciliation' = IF reconciliation.stage = "idle" THEN reconciliation
                             ELSE [reconciliation EXCEPT !.crossed = TRUE]
        /\ mixed' = ~tx[l].alone

Spoil(k) == IF k \in Active THEN [tx[k] EXCEPT !.alone = FALSE] ELSE tx[k]

\* Mutant: what is written so far may be committed before the end.
CommitLoad_InParts(l) ==
    /\ tx[l] # Idle /\ tx[l].seen = <<>> /\ tx[l].writes # <<>>
    /\ Apply(l)
    /\ tx' = [k \in Loads |->
                 IF k # l THEN Spoil(k)
                 ELSE IF tx[l].at > Len(Entities) THEN Idle
                 ELSE [tx[l] EXCEPT !.writes = <<>>]]
    /\ UNCHANGED <<source, events, judged>>

\* The commit at the end of load().
CommitLoad(l) ==
    /\ tx[l] # Idle /\ tx[l].at > Len(Entities)
    /\ Apply(l)
    /\ tx' = [k \in Loads |-> IF k = l THEN Idle ELSE Spoil(k)]
    /\ UNCHANGED <<source, events, judged>>

\* The process or its connection is lost.
FailLoad(l) ==
    /\ tx[l] # Idle /\ Event
    /\ Rollback(l)
    /\ UNCHANGED <<source, versions, rows, reconciliation, judged, mixed>>

-----------------------------------------------------------------------------
(* The reconciliation: two selects of one session *)

\* Counter over the billable campaigns.
CountCampaigns ==
    /\ reconciliation.stage = "idle"
    /\ reconciliation' = [stage |-> "counted", computed |-> Billable(rows),
                          crossed |-> mixed]
    /\ UNCHANGED <<source, versions, rows, tx, events, judged, mixed>>

\* A missing key counts as 0 on either side.
Discrepancy(computed) ==
    computed # IF rows["billed"] = NoRow THEN 0 ELSE rows["billed"]

Alarm == Discrepancy(reconciliation.computed)

CompareBilled ==
    /\ reconciliation.stage = "counted"
    /\ reconciliation' = [stage |-> "idle"]
    /\ UNCHANGED <<source, versions, rows, tx, events, judged, mixed>>

LoadStep(l) == ReadRow(l) \/ WriteRow(l) \/ CommitLoad(l)

Next ==
    \/ SourceChanges
    \/ \E tier \in Tiers : Classify(tier)
    \/ \E l \in Loads : StartLoad(l) \/ LoadStep(l) \/ FailLoad(l)
    \/ CountCampaigns \/ CompareBilled

\* Loads are scheduled for ever and each comes to its end.
Fairness == \A l \in Loads : WF_vars(StartLoad(l)) /\ WF_vars(LoadStep(l))

Spec == Init /\ [][Next]_vars /\ Fairness

-----------------------------------------------------------------------------
(* Properties *)

Exports == [plan : Plans, campaigns : [Range(Campaigns) -> {NoRow, "free", "billable"}],
            intact : BOOLEAN]

\* Every load is idle or at one of its entities, with writes to entities it
\* has passed; stored counts are counts.
TypeOK ==
    /\ source \in Exports
    /\ versions \in Seq(AccountRows)
    /\ \A c \in Range(Campaigns) : rows[c] \in {NoRow, "free", "billable"}
    /\ rows["billed"] \in {NoRow} \cup 0..Len(Campaigns)
    /\ \A l \in Active :
           /\ tx[l].export \in Exports
           /\ tx[l].at \in 1..Len(Entities) + 1
           /\ DOMAIN tx[l].writes \subseteq {Entities[i] : i \in 1..tx[l].at - 1}
           /\ Len(tx[l].seen) <= 1
    /\ reconciliation.stage \in {"idle", "counted"}
    /\ judged.tier \in Tiers

\* The versions of an account form one chain: each follows the one before
\* it and differs from it in the product's fields, and only the last is
\* current, however loads overlap, fail and are repeated.
VersionsChain ==
    \A i \in DOMAIN versions :
        /\ versions[i].follows = i - 1
        /\ i > 1 => versions[i].plan # versions[i - 1].plan
        /\ versions[i].current <=> i = Len(versions)

\* What CS decided about an account outlives every later load; it is lost
\* only if it fell between a load's reading the row and writing its copy.
JudgmentSurvives ==
    Current # NoRow /\ ~judged.crossed => Current.tier = judged.tier

\* While Finance bills what the product counts, the nightly comparison is
\* quiet, unless a load committed between its two selects or the last load
\* ran beside another one: no load shows half of its export.
AlarmMeansOverlap ==
    [][CompareBilled /\ Alarm => reconciliation.crossed]_vars

Mirrors ==
    /\ Current # NoRow /\ Current.plan = source.plan
    /\ \A e \in Stored :
           LET wanted == Exported(source, e)
           IN  wanted = NoRow \/ (rows[e] # NoRow /\ rows[e] = wanted)

\* Once the product's exports are intact and settle, the database comes to
\* agree with them for good, overlapping, lost and refused loads included.
SourceArrives == <>[](source.intact) => <>[]Mirrors

=============================================================================
