---------------------------- MODULE IngestProofs ----------------------------
(***************************************************************************)
(* Proofs about the ingest loader, for any number of overlapping loads,    *)
(* campaigns, plans and tiers.                                             *)
(*                                                                         *)
(* The chain of versions holds because a row lock admits one pending       *)
(* version at a time and the index refuses one made from a stale row: the  *)
(* pending version of a load (Pending) always extends the last committed   *)
(* one, and what a load has read but not written (Reads) is that one, or   *)
(* will be refused.                                                        *)
(*                                                                         *)
(* An alarm of the reconciliation means an overlap because a load that is  *)
(* alone leaves rows that say what its export says (AInv).                 *)
(***************************************************************************)
EXTENDS Ingest, FiniteSetTheorems, SequenceTheorems, TLAPS

Names == Range(Entities)
States == {NoRow, "free", "billable"}
Counts == 0..Len(Campaigns)
AnyRow == {NoRow} \cup AccountRows \cup States \cup Counts
Seen == {<<>>} \cup {<<row>> : row \in AnyRow}
Writes == UNION {[written -> AnyRow] : written \in SUBSET Names}
Sessions == [at : 1..Len(Entities) + 1, export : Exports, seen : Seen,
             writes : Writes, alone : BOOLEAN]

RowsOf(entity) == CASE entity = "account" -> AccountRows
                    [] entity = "billed"  -> {NoRow} \cup Counts
                    [] OTHER              -> States

Typed ==
    /\ source \in Exports
    /\ versions \in Seq(AccountRows)
    /\ rows \in [Stored -> AnyRow]
    /\ \A e \in Stored : rows[e] \in RowsOf(e)
    /\ tx \in [Loads -> {Idle} \cup Sessions]
    /\ reconciliation \in [stage : {"idle"}]
           \cup [stage : {"counted"}, computed : Counts, crossed : BOOLEAN]
    /\ judged.tier \in Tiers
    /\ mixed \in BOOLEAN

Chain ==
    /\ VersionsChain
    /\ \A i \in DOMAIN versions : versions[i].id = i

\* What a load has written for the account and will commit.
Extends(row) ==
    /\ row.id = Len(versions) + 1 /\ row.follows = Len(versions)
    /\ row.current = TRUE
    /\ Len(versions) > 0 => row.plan # versions[Len(versions)].plan
    /\ ~judged.crossed => row.tier = judged.tier

\* What a load has read of the account and will copy or be refused.
Copies(row, export) ==
    /\ row \in AccountRows /\ row.id \in DOMAIN versions
    /\ row.plan = versions[row.id].plan /\ row.plan # export.plan
    /\ ~judged.crossed => row.tier = judged.tier

\* A session has written entities it has passed, values of their kind.
Sound(t) ==
    /\ t.seen # <<>> => t.at <= Len(Entities)
    /\ \A e \in DOMAIN t.writes :
           /\ \E i \in 1..(t.at - 1) : e = Entities[i]
           /\ t.writes[e] \in RowsOf(e)
    /\ "account" \in DOMAIN t.writes => Extends(t.writes["account"])
    /\ t.at = 1 /\ t.seen # <<>> /\ t.seen[1] # NoRow => Copies(t.seen[1], t.export)

SessionsAreSound == \A l \in Active : Sound(tx[l])

\* The row lock.
OneHolder == \A l, k \in Holders("account") : l = k

Judged ==
    ~judged.crossed =>
        judged.tier = IF Len(versions) = 0 THEN LowestTier
                      ELSE versions[Len(versions)].tier

IInv == Typed /\ Chain /\ SessionsAreSound /\ OneHolder /\ Judged

-----------------------------------------------------------------------------

LEMMA EntityOrder ==
    /\ Len(Campaigns) \in Nat
    /\ Len(Entities) = Len(Campaigns) + 2
    /\ Entities \in Seq(Names)
    /\ DOMAIN Entities = 1..Len(Entities)
    /\ Entities[1] = "account"
    /\ \A i \in 1..Len(Entities) :
           /\ Entities[i] \in Names
           /\ i > 1 => Entities[i] # "account" /\ Entities[i] \in Stored
    /\ "account" \notin Stored
    /\ \A e \in Stored : \E i \in 2..Len(Entities) : Entities[i] = e
  <1> DEFINE S == Range(Campaigns) \cup {"account", "billed"}
             front == <<"account">> \o Campaigns
  <1>1. /\ Campaigns \in Seq(S) /\ Len(Campaigns) \in Nat
        /\ DOMAIN Campaigns = 1..Len(Campaigns)
    BY IngestAssumption DEF IngestAssumption
  <1>2. /\ <<"account">> \in Seq(S) /\ Len(<<"account">>) = 1
        /\ <<"account">>[1] = "account"
    OBVIOUS
  <1>3. <<"billed">> \in Seq(S) /\ Len(<<"billed">>) = 1 /\ <<"billed">>[1] = "billed"
    OBVIOUS
  <1>4. /\ front \in Seq(S) /\ Len(front) = 1 + Len(Campaigns)
        /\ \A i \in 1..(1 + Len(Campaigns)) :
               front[i] = IF i <= 1 THEN <<"account">>[i] ELSE Campaigns[i - 1]
    BY <1>1, <1>2, ConcatProperties
  <1> HIDE DEF front
  <1>5. /\ front \o <<"billed">> \in Seq(S)
        /\ Len(front \o <<"billed">>) = Len(front) + 1
        /\ \A i \in 1..(Len(front) + 1) :
               (front \o <<"billed">>)[i] =
                   IF i <= Len(front) THEN front[i] ELSE <<"billed">>[i - Len(front)]
    BY <1>3, <1>4, ConcatProperties
  <1>6. Entities = front \o <<"billed">>
    BY DEF Entities, front
  <1>7. /\ Entities \in Seq(S) /\ Len(Entities) = Len(Campaigns) + 2
        /\ DOMAIN Entities = 1..Len(Entities)
    BY <1>1, <1>4, <1>5, <1>6
  <1>8. Entities[1] = "account"
    BY <1>1, <1>2, <1>4, <1>5, <1>6
  <1>9. /\ \A i \in 2..(Len(Campaigns) + 1) :
               Entities[i] = Campaigns[i - 1] /\ i - 1 \in DOMAIN Campaigns
        /\ Entities[Len(Campaigns) + 2] = "billed"
    <2>1. ASSUME NEW i \in 2..(Len(Campaigns) + 1)
          PROVE  Entities[i] = Campaigns[i - 1] /\ i - 1 \in DOMAIN Campaigns
      BY <1>1, <1>4, <1>5, <1>6, <1>7
    <2>2. Entities[Len(Campaigns) + 2] = "billed"
      BY <1>1, <1>3, <1>4, <1>5, <1>6
    <2>3. QED
      BY <2>1, <2>2
  <1>10. "account" \notin Stored
    BY IngestAssumption DEF IngestAssumption, Stored
  <1>11. \A i \in 1..Len(Entities) : Entities[i] \in Names
    BY <1>7 DEF Names, Range
  <1>12. Entities \in Seq(Names)
    BY <1>7, <1>11
  <1>13. ASSUME NEW i \in 1..Len(Entities), i > 1
         PROVE  Entities[i] \in Stored
    <2>1. i \in 2..(Len(Campaigns) + 1) \/ i = Len(Campaigns) + 2
      BY <1>1, <1>7, <1>13
    <2>2. QED
      BY <2>1, <1>9 DEF Stored, Range
  <1>14. ASSUME NEW e \in Stored PROVE \E i \in 2..Len(Entities) : Entities[i] = e
    <2>1. CASE e = "billed"
      BY <2>1, <1>1, <1>7, <1>9
    <2>2. CASE e # "billed"
      <3>1. PICK i \in DOMAIN Campaigns : Campaigns[i] = e
        BY <2>2 DEF Stored, Range
      <3>2. i + 1 \in 2..(Len(Campaigns) + 1) /\ (i + 1) - 1 = i
            /\ i + 1 \in 2..Len(Entities)
        BY <1>1, <1>7
      <3>3. Entities[i + 1] = e
        BY <3>1, <3>2, <1>9
      <3>4. QED
        BY <3>2, <3>3
    <2>3. QED
      BY <2>1, <2>2
  <1>15. QED
    BY <1>1, <1>7, <1>8, <1>10, <1>11, <1>12, <1>13, <1>14

LEMMA CountRange == \A of : Billable(of) \in Counts
  <1> SUFFICES ASSUME NEW of PROVE Billable(of) \in Counts
    OBVIOUS
  <1>1. Campaigns \in [1..Len(Campaigns) -> Range(Campaigns)] /\ Len(Campaigns) \in Nat
    BY IngestAssumption DEF IngestAssumption
  <1>2. Campaigns \in Surjection(1..Len(Campaigns), Range(Campaigns))
    BY <1>1 DEF Surjection, Range
  <1>3. IsFiniteSet(1..Len(Campaigns)) /\ Cardinality(1..Len(Campaigns)) = Len(Campaigns)
    <2>1. ASSUME NEW n \in Nat PROVE IsFiniteSet(1..n) /\ Cardinality(1..n) = n
      <3>1. /\ IsFiniteSet(1..n)
            /\ Cardinality(1..n) = IF 1 > n THEN 0 ELSE n - 1 + 1
        BY FS_Interval
      <3>2. QED
        BY <3>1
    <2>2. QED
      BY <1>1, <2>1
  <1>4. /\ IsFiniteSet(Range(Campaigns))
        /\ Cardinality(Range(Campaigns)) <= Len(Campaigns)
    BY <1>2, <1>3, FS_Surjection
  <1> DEFINE counted == {c \in Range(Campaigns) : of[c] = "billable"}
  <1>5. IsFiniteSet(counted) /\ Cardinality(counted) <= Cardinality(Range(Campaigns))
    BY <1>4, FS_Subset
  <1>6. Cardinality(counted) \in Nat /\ Cardinality(Range(Campaigns)) \in Nat
    BY <1>4, <1>5, FS_CardinalityType
  <1>7. QED
    BY <1>1, <1>4, <1>5, <1>6 DEF Billable, Counts

\* What an export says of an entity is a value of the entity's kind.
LEMMA ExportedKind ==
    ASSUME NEW export \in Exports
    PROVE  /\ Exported(export, "account") = export.plan /\ export.plan \in Plans
           /\ \A e \in Stored : Exported(export, e) \in RowsOf(e)
           /\ \A e \in Stored : RowsOf(e) \subseteq AnyRow
  <1>1. export.plan \in Plans
        /\ export.campaigns \in [Range(Campaigns) -> States]
    BY DEF Exports, States
  <1>2. Exported(export, "billed") \in RowsOf("billed")
    BY CountRange DEF Exported, RowsOf
  <1>3. ASSUME NEW e \in Range(Campaigns) PROVE Exported(export, e) \in RowsOf(e)
    BY <1>1, IngestAssumption DEF IngestAssumption, Exported, RowsOf
  <1>4. \A e \in Stored : RowsOf(e) \subseteq AnyRow
    BY IngestAssumption DEF IngestAssumption, Stored, RowsOf, AnyRow
  <1>5. QED
    BY <1>1, <1>2, <1>3, <1>4 DEF Exported, Stored

\* The current row is the last version.
LEMMA CurrentRow ==
    ASSUME versions \in Seq(AccountRows), Chain
    PROVE  /\ Len(versions) \in Nat /\ DOMAIN versions = 1..Len(versions)
           /\ versions = <<>> <=> Len(versions) = 0
           /\ Len(versions) = 0 => Current = NoRow /\ CurrentVersions = {}
           /\ Len(versions) > 0 =>
                  /\ Max(CurrentVersions) = Len(versions)
                  /\ Current = versions[Len(versions)]
                  /\ Current \in AccountRows /\ Current # NoRow
                  /\ Current.id = Len(versions)
  <1>1. Len(versions) \in Nat /\ DOMAIN versions = 1..Len(versions)
        /\ (versions = <<>> <=> Len(versions) = 0)
    OBVIOUS
  <1>2. CASE Len(versions) = 0
    BY <1>1, <1>2 DEF Current, CurrentVersions
  <1>3. CASE Len(versions) > 0
    <2>1. CurrentVersions = {Len(versions)}
      BY <1>1, <1>3 DEF CurrentVersions, Chain, VersionsChain
    <2>2. Max(CurrentVersions) = Len(versions)
      BY <1>1, <2>1 DEF Max
    <2>3. Current = versions[Len(versions)]
      BY <2>1, <2>2 DEF Current
    <2>4. versions[Len(versions)] \in AccountRows
      BY <1>1, <1>3
    <2>5. QED
      BY <1>1, <1>3, <2>2, <2>3, <2>4, IngestAssumption DEF IngestAssumption, Chain
  <1>4. QED
    BY <1>1, <1>2, <1>3

\* A load that runs is a session; the account is its first entity.
LEMMA RunningLoad ==
    ASSUME Typed
    PROVE  /\ \A l \in Loads : l \in Active <=> tx[l] # Idle
           /\ \A l \in Active : l \in Loads /\ tx[l] \in Sessions
           /\ \A l \in Loads : tx[l] \in Sessions => l \in Active
           /\ \A l \in Active : tx[l].at \in 1..Len(Entities) + 1
           /\ \A l \in Active :
                  tx[l].at <= Len(Entities) =>
                      (Entities[tx[l].at] = "account" <=> tx[l].at = 1)
  <1>1. \A t \in Sessions : t # Idle
    BY EntityOrder DEF Sessions, Idle
  <1>2. \A t \in Sessions : t.at \in 1..Len(Entities) + 1
    BY DEF Sessions
  <1>3. QED
    BY <1>1, <1>2, EntityOrder DEF Typed, Active

LEMMA InitIInv == Init => IInv
  <1> SUFFICES ASSUME Init PROVE IInv
    OBVIOUS
  <1>1. Active = {}
    BY DEF Init, Active
  <1>2. versions = <<>> /\ Len(versions) = 0 /\ DOMAIN versions = {}
        /\ versions \in Seq(AccountRows)
    BY DEF Init
  <1>3. source \in Exports
    <2>1. (CHOOSE p \in Plans : TRUE) \in Plans
      BY IngestAssumption DEF IngestAssumption
    <2>2. QED
      BY <2>1 DEF Init, Exports
  <1>4. /\ rows \in [Stored -> AnyRow]
        /\ \A e \in Stored : rows[e] \in RowsOf(e)
    <2>1. \A e \in Stored : rows[e] = NoRow /\ e # "account"
      BY EntityOrder DEF Init
    <2>2. \A e \in Stored : NoRow \in RowsOf(e)
      BY <2>1 DEF RowsOf, States
    <2>3. QED
      BY <2>1, <2>2 DEF Init, AnyRow
  <1>5. tx \in [Loads -> {Idle} \cup Sessions]
    BY DEF Init
  <1>6. Typed
    BY <1>2, <1>3, <1>4, <1>5, IngestAssumption DEF IngestAssumption, Init, Typed
  <1>7. QED
    BY <1>1, <1>2, <1>6
    DEF IInv, Init, Chain, VersionsChain, SessionsAreSound, OneHolder, Holders, Judged

-----------------------------------------------------------------------------
(* Steps of one session *)

\* A step that replaces one session by a sound one, and at most the source,
\* keeps the invariant.
LEMMA SessionStep ==
    ASSUME IInv, NEW l \in Loads, NEW t \in {Idle} \cup Sessions,
           tx' = [tx EXCEPT ![l] = t],
           UNCHANGED <<source, versions, rows, reconciliation, judged, mixed>>,
           t # Idle => Sound(t),
           t # Idle /\ "account" \in DOMAIN t.writes =>
               \A k \in Holders("account") : k = l
    PROVE  IInv'
  <1>1. Typed /\ Chain /\ SessionsAreSound /\ OneHolder /\ Judged
    BY DEF IInv
  <1>2. tx \in [Loads -> {Idle} \cup Sessions]
    BY <1>1 DEF Typed
  <1>3. tx' \in [Loads -> {Idle} \cup Sessions] /\ tx'[l] = t
        /\ \A k \in Loads \ {l} : tx'[k] = tx[k]
    BY <1>2
  <1>4. Typed'
    BY <1>1, <1>3 DEF Typed
  <1>5. Chain' /\ Judged'
    BY <1>1 DEF Chain, VersionsChain, Judged
  <1>6. \A s : Sound(s)' <=> Sound(s)
    BY DEF Sound, Extends, Copies
  <1>7. SessionsAreSound'
    <2> SUFFICES ASSUME NEW k \in Loads, tx'[k] # Idle PROVE Sound(tx'[k])
      BY <1>6 DEF SessionsAreSound, Active
    <2>1. QED
      BY <1>1, <1>3 DEF SessionsAreSound, Active
  <1>8. OneHolder'
    <2> SUFFICES ASSUME NEW j \in Loads, NEW k \in Loads,
                        tx'[j] # Idle, "account" \in DOMAIN tx'[j].writes,
                        tx'[k] # Idle, "account" \in DOMAIN tx'[k].writes
                 PROVE  j = k
      BY DEF OneHolder, Holders, Active
    <2>1. \A i \in Loads \ {l} :
              tx'[i] # Idle /\ "account" \in DOMAIN tx'[i].writes =>
                  i \in Holders("account")
      BY <1>3 DEF Holders, Active
    <2>2. QED
      BY <1>1, <1>3, <2>1 DEF OneHolder
  <1>9. QED
    BY <1>4, <1>5, <1>7, <1>8 DEF IInv

LEMMA RollbackKeeps ==
    ASSUME IInv, NEW l \in Loads, Rollback(l),
           UNCHANGED <<source, versions, rows, reconciliation, judged, mixed>>
    PROVE  IInv'
  BY SessionStep DEF Rollback

LEMMA StartLoadKeeps ==
    ASSUME IInv, NEW l \in Loads, StartLoad(l)
    PROVE  IInv'
  <1> DEFINE t == [at |-> 1, export |-> source, seen |-> <<>>,
                   writes |-> <<>>, alone |-> TRUE]
  <1>1. source \in Exports
    BY DEF IInv, Typed
  <1>2. t.writes \in Writes /\ DOMAIN t.writes = {}
    <2>1. <<>> \in [{} -> AnyRow] /\ DOMAIN <<>> = {}
      OBVIOUS
    <2>2. QED
      BY <2>1 DEF Writes
  <1>3. t \in Sessions
    BY <1>1, <1>2, EntityOrder DEF Sessions, Seen
  <1>4. Sound(t)
    BY <1>2 DEF Sound
  <1>5. QED
    BY <1>2, <1>3, <1>4, SessionStep DEF StartLoad

\* What a select returns is a row of the entity's kind.
LEMMA VisibleKind ==
    ASSUME IInv, NEW e \in Names
    PROVE  Visible(e) \in AnyRow
  <1>1. versions \in Seq(AccountRows) /\ Chain /\ rows \in [Stored -> AnyRow]
    BY DEF IInv, Typed
  <1>2. CASE e = "account"
    <2>1. Current \in {NoRow} \cup AccountRows
      BY <1>1, CurrentRow
    <2>2. QED
      BY <1>2, <2>1 DEF Visible, AnyRow
  <1>3. CASE e # "account"
    <2>1. e \in Stored
      BY <1>3, EntityOrder DEF Names, Range
    <2>2. QED
      BY <1>1, <1>3, <2>1 DEF Visible
  <1>4. QED
    BY <1>2, <1>3

\* Going on to the next entity.
LEMMA AdvancedSession ==
    ASSUME NEW t \in Sessions, t.at \in 1..Len(Entities)
    PROVE  /\ Advanced(t) \in Sessions
           /\ Advanced(t).at = t.at + 1 /\ Advanced(t).seen = <<>>
           /\ Advanced(t).writes = t.writes /\ Advanced(t).export = t.export
  <1>1. Len(Entities) \in Nat
    BY EntityOrder
  <1>2. t.at + 1 \in 1..Len(Entities) + 1
    BY <1>1
  <1>3. <<>> \in Seen
    BY DEF Seen
  <1>4. QED
    BY <1>2, <1>3 DEF Advanced, Sessions

LEMMA ReadRowKeeps ==
    ASSUME IInv, NEW l \in Loads, ReadRow(l)
    PROVE  IInv'
  <1>1. Typed /\ Chain /\ Judged /\ SessionsAreSound
    BY DEF IInv
  <1>2. /\ Loading(l) /\ tx[l].seen = <<>>
        /\ UNCHANGED <<source, versions, rows, reconciliation, judged, mixed>>
    BY DEF ReadRow
  <1>3. tx[l] # Idle /\ l \in Active /\ tx[l] \in Sessions /\ Sound(tx[l])
    BY <1>1, <1>2, RunningLoad DEF Loading, SessionsAreSound
  <1>4. tx[l].at \in 1..Len(Entities)
    BY <1>2, EntityOrder DEF Loading
  <1> DEFINE entity == EntityOf(l)
             row == Visible(entity)
             ahead == Advanced(tx[l])
             read == [tx[l] EXCEPT !.seen = <<row>>]
  <1>5. entity \in Names /\ row \in AnyRow
    BY <1>4, EntityOrder, VisibleKind DEF EntityOf
  <1>6. /\ "account" \in DOMAIN tx[l].writes =>
               \A k \in Holders("account") : k = l
    BY <1>3 DEF IInv, OneHolder, Holders
  <1>7. CASE Rollback(l)
    BY <1>2, <1>7, RollbackKeeps
  <1>8. CASE tx' = [tx EXCEPT ![l] = ahead]
    <2>1. ahead \in Sessions
      BY <1>3, <1>4, AdvancedSession
    <2>2. ahead.seen = <<>> /\ ahead.writes = tx[l].writes /\ ahead.at = tx[l].at + 1
      BY <1>3, <1>4, AdvancedSession
    <2>3. Sound(ahead)
      BY <1>3, <1>4, <2>2 DEF Sound
    <2>4. QED
      BY <1>2, <1>6, <1>8, <2>1, <2>2, <2>3, SessionStep
  <1>9. CASE /\ tx' = [tx EXCEPT ![l] = read]
             /\ ~Settled(entity, WantedBy(l), row)
    <2>1. read \in Sessions
      BY <1>3, <1>5 DEF Sessions, Seen
    <2>2. /\ read.seen = <<row>> /\ read.writes = tx[l].writes
          /\ read.at = tx[l].at /\ read.export = tx[l].export
      BY <1>3 DEF Sessions
    <2>3. ASSUME read.at = 1, row # NoRow
          PROVE  Copies(row, read.export)
      <3>1. entity = "account" /\ row = Current /\ WantedBy(l) = tx[l].export.plan
        BY <2>2, <2>3, EntityOrder DEF EntityOf, Visible, WantedBy, Exported
      <3>2. /\ Len(versions) \in Nat /\ Len(versions) > 0
            /\ DOMAIN versions = 1..Len(versions)
            /\ row = versions[Len(versions)] /\ row \in AccountRows
            /\ row.id = Len(versions)
        BY <1>1, <2>3, <3>1, CurrentRow DEF Typed
      <3>3. row.plan # tx[l].export.plan
        BY <1>9, <2>3, <3>1 DEF Settled
      <3>4. QED
        BY <1>1, <2>2, <3>2, <3>3 DEF Copies, Judged
    <2>4. Sound(read)
      BY <1>3, <1>4, <2>2, <2>3 DEF Sound
    <2>5. QED
      BY <1>2, <1>6, <1>9, <2>1, <2>2, <2>4, SessionStep
  <1>10. QED
    BY <1>7, <1>8, <1>9 DEF ReadRow

\* Writing one more row.
LEMMA WritesGrow ==
    ASSUME NEW w \in Writes, NEW e \in Names, NEW row \in AnyRow
    PROVE  [n \in DOMAIN w \cup {e} |-> IF n = e THEN row ELSE w[n]] \in Writes
  <1>1. PICK written \in SUBSET Names : w \in [written -> AnyRow]
    BY DEF Writes
  <1> DEFINE more == written \cup {e}
  <1>2. more \in SUBSET Names
    OBVIOUS
  <1>3. [n \in DOMAIN w \cup {e} |-> IF n = e THEN row ELSE w[n]] \in [more -> AnyRow]
    BY <1>1
  <1>4. QED
    BY <1>2, <1>3 DEF Writes

\* The version a load opens follows the current one, whatever happened
\* since it read the row: otherwise the write is refused.
LEMMA OpenedExtends ==
    ASSUME IInv, NEW l \in Active, tx[l].at = 1, tx[l].seen # <<>>,
           ~Collides("account", tx[l].seen[1])
    PROVE  /\ NewVersion(l, tx[l].seen[1]) \in AccountRows
           /\ Extends(NewVersion(l, tx[l].seen[1]))
  <1> DEFINE seen == tx[l].seen[1]
             opened == NewVersion(l, seen)
  <1>1. Typed /\ Chain /\ Judged /\ Sound(tx[l])
    BY DEF IInv, SessionsAreSound
  <1>2. versions \in Seq(AccountRows) /\ Len(versions) \in Nat
        /\ DOMAIN versions = 1..Len(versions)
    BY <1>1, CurrentRow DEF Typed
  <1>3. tx[l].export.plan \in Plans
    BY <1>1, RunningLoad DEF Sessions, Exports
  <1>4. CASE seen = NoRow
    <2>1. Current = NoRow
      BY <1>4 DEF Collides
    <2>2. Len(versions) = 0
      BY <1>1, <1>2, <2>1, CurrentRow
    <2>3. opened = [id |-> Len(versions) + 1, follows |-> 0,
                    plan |-> tx[l].export.plan, tier |-> LowestTier,
                    current |-> TRUE]
      BY <1>4 DEF NewVersion
    <2>4. QED
      BY <1>1, <1>3, <2>2, <2>3, IngestAssumption
      DEF IngestAssumption, AccountRows, Extends, Judged
  <1>5. CASE seen # NoRow
    <2>1. Copies(seen, tx[l].export)
      BY <1>1, <1>5 DEF Sound
    <2>2. seen \in AccountRows /\ seen.id \in 1..Len(versions)
      BY <1>2, <2>1 DEF Copies
    <2>3. Len(versions) > 0 /\ Current # NoRow /\ Current.id = Len(versions)
      BY <1>1, <1>2, <2>2, CurrentRow
    <2>4. seen.id = Len(versions)
      BY <1>5, <2>3 DEF Collides
    <2>5. opened = [id |-> Len(versions) + 1, follows |-> seen.id,
                    plan |-> tx[l].export.plan, tier |-> seen.tier,
                    current |-> TRUE]
      BY <1>5 DEF NewVersion
    <2>6. opened \in AccountRows
      BY <1>2, <1>3, <2>2, <2>5 DEF AccountRows
    <2>7. seen.plan = versions[Len(versions)].plan /\ seen.plan # tx[l].export.plan
          /\ (~judged.crossed => seen.tier = judged.tier)
      BY <2>1, <2>4 DEF Copies
    <2>8. Extends(opened)
      BY <2>4, <2>5, <2>7 DEF Extends
    <2>9. QED
      BY <2>6, <2>8
  <1>6. QED
    BY <1>4, <1>5

LEMMA WriteRowKeeps ==
    ASSUME IInv, NEW l \in Loads, WriteRow(l)
    PROVE  IInv'
  <1> DEFINE entity == EntityOf(l)
             seen == tx[l].seen[1]
             value == IF entity = "account" THEN NewVersion(l, seen) ELSE WantedBy(l)
             writes == tx[l].writes
             written == [n \in DOMAIN writes \cup {entity} |->
                            IF n = entity THEN value ELSE writes[n]]
             t == Wrote(tx[l], entity, value)
  <1>1. Typed /\ SessionsAreSound
    BY DEF IInv
  <1>2. /\ Loading(l) /\ tx[l].seen # <<>> /\ Holders(entity) = {}
        /\ UNCHANGED <<source, versions, rows, reconciliation, judged, mixed>>
    BY DEF WriteRow
  <1>3. l \in Active /\ tx[l] # Idle /\ tx[l] \in Sessions /\ Sound(tx[l])
    BY <1>1, <1>2, RunningLoad DEF Loading, SessionsAreSound
  <1>4. tx[l].at \in 1..Len(Entities)
    BY <1>2, EntityOrder DEF Loading
  <1>5. entity \in Names
    BY <1>4, EntityOrder DEF EntityOf
  <1>6. CASE Rollback(l)
    BY <1>2, <1>6, RollbackKeeps
  <1>7. CASE tx' = [tx EXCEPT ![l] = t] /\ ~Collides(entity, seen)
    <2>1. value \in RowsOf(entity) /\ value \in AnyRow
          /\ (entity = "account" => Extends(value))
      <3>1. CASE entity = "account"
        <4>1. tx[l].at = 1
          BY <1>4, <3>1, EntityOrder DEF EntityOf
        <4>2. QED
          BY <1>2, <1>3, <1>7, <3>1, <4>1, OpenedExtends DEF RowsOf, AnyRow
      <3>2. CASE entity # "account"
        <4>1. entity \in Stored
          BY <1>4, <3>2, EntityOrder DEF EntityOf
        <4>2. tx[l].export \in Exports
          BY <1>3 DEF Sessions
        <4>3. WantedBy(l) \in RowsOf(entity) /\ RowsOf(entity) \subseteq AnyRow
          BY <4>1, <4>2, ExportedKind DEF WantedBy
        <4>4. QED
          BY <3>2, <4>3
      <3>3. QED
        BY <3>1, <3>2
    <2>2. Advanced(tx[l]) \in Sessions /\ writes \in Writes
          /\ Advanced(tx[l]).at = tx[l].at + 1 /\ Advanced(tx[l]).seen = <<>>
      BY <1>3, <1>4, AdvancedSession DEF Sessions
    <2>3. t = [Advanced(tx[l]) EXCEPT !.writes = written]
      BY DEF Wrote
    <2> HIDE DEF value
    <2>4. written \in Writes
      BY <1>5, <2>1, <2>2, WritesGrow
    <2>5. /\ DOMAIN written = DOMAIN writes \cup {entity}
          /\ written[entity] = value
          /\ \A n \in DOMAIN writes \ {entity} : written[n] = writes[n]
      OBVIOUS
    <2> HIDE DEF written, t
    <2>6. /\ t.at = tx[l].at + 1 /\ t.seen = <<>> /\ t.writes = written
          /\ t \in Sessions
      BY <2>2, <2>3, <2>4 DEF Sessions
    <2>7. Sound(t)
      <3>1. ASSUME NEW e \in DOMAIN t.writes
            PROVE  /\ \E i \in 1..(t.at - 1) : e = Entities[i]
                   /\ t.writes[e] \in RowsOf(e)
        <4>1. CASE e = entity
          BY <1>4, <2>1, <2>5, <2>6, <4>1 DEF EntityOf
        <4>2. CASE e # entity
          BY <1>3, <1>4, <2>5, <2>6, <4>2 DEF Sound
        <4>3. QED
          BY <4>1, <4>2
      <3>2. "account" \in DOMAIN t.writes => Extends(t.writes["account"])
        BY <1>3, <2>1, <2>5, <2>6 DEF Sound
      <3>3. QED
        BY <2>6, <3>1, <3>2 DEF Sound
    <2>8. "account" \in DOMAIN t.writes => \A k \in Holders("account") : k = l
      BY <1>2, <1>3, <2>5, <2>6 DEF IInv, OneHolder, Holders
    <2>9. QED
      BY <1>2, <1>7, <2>6, <2>7, <2>8, SessionStep
  <1>8. QED
    BY <1>6, <1>7 DEF WriteRow

-----------------------------------------------------------------------------
(* Commits *)

\* A commit without a version of the account leaves the versions alone; one
\* with a version closes the last and appends it.
LEMMA AppliedVersions ==
    ASSUME IInv, NEW l \in Active, Apply(l)
    PROVE  /\ "account" \notin DOMAIN tx[l].writes => versions' = versions
           /\ "account" \in DOMAIN tx[l].writes =>
                  /\ versions' \in Seq(AccountRows)
                  /\ Len(versions') = Len(versions) + 1
                  /\ versions'[Len(versions) + 1] = tx[l].writes["account"]
                  /\ \A i \in 1..Len(versions) :
                         /\ versions'[i].id = versions[i].id
                         /\ versions'[i].follows = versions[i].follows
                         /\ versions'[i].plan = versions[i].plan
                         /\ versions'[i].current <=>
                                (i # Len(versions) /\ versions[i].current)
  <1> DEFINE opened == tx[l].writes["account"]
             closed == [i \in DOMAIN versions |->
                           IF versions[i].id = opened.follows
                           THEN [versions[i] EXCEPT !.current = FALSE]
                           ELSE versions[i]]
  <1>1. CASE "account" \notin DOMAIN tx[l].writes
    BY <1>1 DEF Apply
  <1>2. CASE "account" \in DOMAIN tx[l].writes
    <2>1. versions' = Append(closed, opened)
      BY <1>2 DEF Apply
    <2>2. /\ versions \in Seq(AccountRows) /\ Len(versions) \in Nat
          /\ DOMAIN versions = 1..Len(versions)
          /\ \A i \in 1..Len(versions) :
                 versions[i] \in AccountRows /\ versions[i].id = i
      BY CurrentRow DEF IInv, Typed, Chain
    <2>3. opened \in AccountRows /\ opened.follows = Len(versions)
      BY <1>2 DEF IInv, SessionsAreSound, Sound, Extends, RowsOf
    <2>4. \A i \in 1..Len(versions) :
              /\ closed[i] \in AccountRows
              /\ closed[i].id = versions[i].id
              /\ closed[i].follows = versions[i].follows
              /\ closed[i].plan = versions[i].plan
              /\ closed[i].current <=> (i # Len(versions) /\ versions[i].current)
      <3> SUFFICES ASSUME NEW i \in 1..Len(versions)
                   PROVE  /\ closed[i] \in AccountRows
                          /\ closed[i].id = versions[i].id
                          /\ closed[i].follows = versions[i].follows
                          /\ closed[i].plan = versions[i].plan
                          /\ closed[i].current <=>
                                 (i # Len(versions) /\ versions[i].current)
        OBVIOUS
      <3>1. versions[i] \in AccountRows /\ versions[i].id = i /\ i \in DOMAIN versions
        BY <2>2
      <3>2. CASE i = Len(versions)
        <4>1. closed[i] = [versions[i] EXCEPT !.current = FALSE]
          BY <2>3, <3>1, <3>2
        <4>2. QED
          BY <3>1, <3>2, <4>1 DEF AccountRows
      <3>3. CASE i # Len(versions)
        <4>1. closed[i] = versions[i]
          BY <2>3, <3>1, <3>3
        <4>2. versions[i].current \in BOOLEAN
          BY <3>1 DEF AccountRows
        <4>3. QED
          BY <3>1, <3>3, <4>1, <4>2
      <3>4. QED
        BY <3>2, <3>3
    <2>5. closed \in [1..Len(versions) -> AccountRows]
      BY <2>2, <2>4
    <2> HIDE DEF closed, opened
    <2>6. closed \in Seq(AccountRows) /\ Len(closed) = Len(versions)
      BY <2>2, <2>5
    <2>7. /\ Append(closed, opened) \in Seq(AccountRows)
          /\ Len(Append(closed, opened)) = Len(versions) + 1
          /\ Append(closed, opened)[Len(versions) + 1] = opened
          /\ \A i \in 1..Len(versions) : Append(closed, opened)[i] = closed[i]
      BY <2>2, <2>3, <2>6
    <2>8. QED
      BY <1>2, <2>1, <2>4, <2>7 DEF opened
  <1>3. QED
    BY <1>1, <1>2

\* The chain grows by one link.
LEMMA AppliedChain ==
    ASSUME IInv, NEW l \in Active, Apply(l), UNCHANGED judged
    PROVE  /\ (versions \in Seq(AccountRows))' /\ Chain' /\ Judged'
  <1>1. Typed /\ Chain /\ Judged /\ Sound(tx[l])
    BY DEF IInv, SessionsAreSound
  <1>2. CASE "account" \notin DOMAIN tx[l].writes
    <2>1. versions' = versions
      BY <1>2, AppliedVersions
    <2>2. QED
      BY <1>1, <2>1 DEF Typed, Chain, VersionsChain, Judged
  <1>3. CASE "account" \in DOMAIN tx[l].writes
    <2> DEFINE opened == tx[l].writes["account"]
    <2>1. PICK n \in Nat : Len(versions) = n /\ DOMAIN versions = 1..n
      BY <1>1, CurrentRow DEF Typed
    <2>2. /\ versions' \in Seq(AccountRows) /\ Len(versions') = n + 1
          /\ versions'[n + 1] = opened
          /\ \A i \in 1..n : /\ versions'[i].id = versions[i].id
                             /\ versions'[i].follows = versions[i].follows
                             /\ versions'[i].plan = versions[i].plan
                             /\ versions'[i].current <=>
                                    (i # n /\ versions[i].current)
      BY <1>3, <2>1, AppliedVersions
    <2>3. /\ opened.id = n + 1 /\ opened.follows = n /\ opened.current = TRUE
          /\ n > 0 => opened.plan # versions[n].plan
          /\ ~judged.crossed => opened.tier = judged.tier
      BY <1>1, <1>3, <2>1 DEF Sound, Extends
    <2> HIDE DEF opened
    <2>4. DOMAIN versions' = 1..(n + 1)
      <3>1. versions' \in Seq(AccountRows) /\ Len(versions') = n + 1
        BY <2>2
      <3>2. QED
        BY <3>1
    <2>5. \A i \in 1..n : /\ versions[i].follows = i - 1 /\ versions[i].id = i
                          /\ i > 1 => versions[i].plan # versions[i - 1].plan
                          /\ versions[i].current <=> i = n
      BY <1>1, <2>1 DEF Chain, VersionsChain
    <2>6. ASSUME NEW i \in 1..(n + 1)
          PROVE  /\ versions'[i].follows = i - 1 /\ versions'[i].id = i
                 /\ i > 1 => versions'[i].plan # versions'[i - 1].plan
                 /\ versions'[i].current <=> i = n + 1
      <3>1. CASE i = n + 1
        BY <2>1, <2>2, <2>3, <2>5, <3>1
      <3>2. CASE i # n + 1
        <4>1. i \in 1..n /\ (i > 1 => i - 1 \in 1..n)
          BY <2>1, <3>2
        <4>2. QED
          BY <2>1, <2>2, <2>5, <3>2, <4>1
      <3>3. QED
        BY <3>1, <3>2
    <2>7. Chain'
      BY <2>2, <2>4, <2>6 DEF Chain, VersionsChain
    <2>8. Judged'
      BY <2>1, <2>2, <2>3 DEF Judged
    <2>9. QED
      BY <2>2, <2>7, <2>8
  <1>4. QED
    BY <1>2, <1>3

LEMMA CommitLoadKeeps ==
    ASSUME IInv, NEW l \in Loads, CommitLoad(l)
    PROVE  IInv'
  <1>1. /\ Typed /\ Chain /\ Judged /\ SessionsAreSound /\ OneHolder
        /\ tx \in [Loads -> {Idle} \cup Sessions]
    BY DEF IInv, Typed
  <1>2. /\ tx[l] # Idle /\ Apply(l) /\ UNCHANGED <<source, judged>>
        /\ tx' = [k \in Loads |-> IF k = l THEN Idle ELSE Spoil(k)]
    BY DEF CommitLoad
  <1>3. l \in Active /\ tx[l] \in Sessions /\ Sound(tx[l])
    BY <1>1, <1>2, RunningLoad DEF SessionsAreSound
  <1>4. (versions \in Seq(AccountRows))' /\ Chain' /\ Judged'
    BY <1>2, <1>3, AppliedChain
  <1>5. ASSUME NEW k \in Active, k # l
        PROVE  /\ tx'[k] = [tx[k] EXCEPT !.alone = FALSE] /\ tx'[k] \in Sessions
               /\ tx'[k].at = tx[k].at /\ tx'[k].export = tx[k].export
               /\ tx'[k].seen = tx[k].seen /\ tx'[k].writes = tx[k].writes
    <2>1. k \in Loads /\ tx[k] \in Sessions
      BY <1>1, RunningLoad
    <2>2. tx'[k] = [tx[k] EXCEPT !.alone = FALSE]
      BY <1>2, <1>5, <2>1 DEF Spoil
    <2>3. QED
      BY <2>1, <2>2 DEF Sessions
  <1>6. \A k \in Loads : tx'[k] # Idle => k \in Active /\ k # l
    BY <1>1, <1>2, RunningLoad DEF Spoil
  <1>7. tx' \in [Loads -> {Idle} \cup Sessions]
    <2>1. \A k \in Loads : tx'[k] \in {Idle} \cup Sessions
      BY <1>5, <1>6
    <2>2. QED
      BY <1>2, <2>1
  <1>8. /\ rows' \in [Stored -> AnyRow]
        /\ \A e \in Stored : rows'[e] \in RowsOf(e)
    <2>1. ASSUME NEW e \in Stored PROVE rows'[e] \in RowsOf(e)
      BY <1>1, <1>2, <1>3 DEF Apply, Typed, Sound
    <2>2. PICK export \in Exports : TRUE
      BY <1>1 DEF Typed
    <2>3. \A e \in Stored : RowsOf(e) \subseteq AnyRow
      BY <2>2, ExportedKind
    <2>4. QED
      BY <1>2, <2>1, <2>3 DEF Apply
  <1>9. reconciliation' \in [stage : {"idle"}]
               \cup [stage : {"counted"}, computed : Counts, crossed : BOOLEAN]
    BY <1>1, <1>2 DEF Apply, Typed
  <1>10. Typed'
    <2>1. mixed' \in BOOLEAN
      BY <1>2 DEF Apply
    <2>2. QED
      BY <1>1, <1>2, <1>4, <1>7, <1>8, <1>9, <2>1 DEF Typed
  <1>11. OneHolder'
    <2> SUFFICES ASSUME NEW j \in Loads, NEW k \in Loads,
                        tx'[j] # Idle, "account" \in DOMAIN tx'[j].writes,
                        tx'[k] # Idle, "account" \in DOMAIN tx'[k].writes
                 PROVE  j = k
      BY DEF OneHolder, Holders, Active
    <2>1. j \in Holders("account") /\ k \in Holders("account")
      BY <1>5, <1>6 DEF Holders
    <2>2. QED
      BY <1>1, <2>1 DEF OneHolder
  <1>12. SessionsAreSound'
    <2> SUFFICES ASSUME NEW k \in Active, k # l, tx'[k] # Idle
                 PROVE  Sound(tx[k])'
      BY <1>6 DEF SessionsAreSound, Active
    <2>1. /\ Sound(tx[k])
          /\ tx'[k].at = tx[k].at /\ tx'[k].export = tx[k].export
          /\ tx'[k].seen = tx[k].seen /\ tx'[k].writes = tx[k].writes
      BY <1>1, <1>5 DEF SessionsAreSound
    <2>2. "account" \in DOMAIN tx[k].writes => versions' = versions
      <3>1. ASSUME "account" \in DOMAIN tx[k].writes
            PROVE  "account" \notin DOMAIN tx[l].writes
        BY <1>1, <1>3, <3>1 DEF OneHolder, Holders
      <3>2. QED
        BY <1>2, <1>3, <3>1, AppliedVersions
    <2>3. ASSUME NEW row, NEW export, Copies(row, export)
          PROVE  Copies(row, export)'
      <3>1. Len(versions) \in Nat /\ DOMAIN versions = 1..Len(versions)
        BY <1>1, CurrentRow DEF Typed
      <3>2. row.id \in DOMAIN versions' /\ versions'[row.id].plan = versions[row.id].plan
        <4>1. CASE "account" \notin DOMAIN tx[l].writes
          BY <1>2, <1>3, <2>3, <4>1, AppliedVersions DEF Copies
        <4>2. CASE "account" \in DOMAIN tx[l].writes
          <5>1. versions' \in Seq(AccountRows) /\ Len(versions') = Len(versions) + 1
                /\ \A i \in 1..Len(versions) : versions'[i].plan = versions[i].plan
            BY <1>2, <1>3, <4>2, AppliedVersions
          <5>2. DOMAIN versions' = 1..(Len(versions) + 1)
            BY <5>1
          <5>3. row.id \in 1..Len(versions)
            BY <2>3, <3>1 DEF Copies
          <5>4. QED
            BY <3>1, <5>1, <5>2, <5>3
        <4>3. QED
          BY <4>1, <4>2
      <3>3. QED
        BY <1>2, <2>3, <3>2 DEF Copies
    <2>4. "account" \in DOMAIN tx'[k].writes => Extends(tx[k].writes["account"])'
      BY <1>2, <2>1, <2>2 DEF Sound, Extends
    <2>5. tx'[k].at = 1 /\ tx'[k].seen # <<>> /\ tx'[k].seen[1] # NoRow
              => Copies(tx[k].seen[1], tx[k].export)'
      BY <2>1, <2>3 DEF Sound
    <2>6. QED
      BY <2>1, <2>4, <2>5 DEF Sound
  <1>13. QED
    BY <1>4, <1>10, <1>11, <1>12 DEF IInv

-----------------------------------------------------------------------------
(* The steps of others *)

LEMMA SourceChangesKeeps ==
    ASSUME IInv, SourceChanges
    PROVE  IInv'
  <1>1. UNCHANGED <<versions, rows, tx, reconciliation, judged, mixed>>
    BY DEF SourceChanges
  <1>2. source \in Exports
    BY DEF IInv, Typed
  <1>3. source' \in Exports
    <2>1. ASSUME NEW p \in Plans, source' = [source EXCEPT !.plan = p]
          PROVE  source' \in Exports
      BY <1>2, <2>1 DEF Exports
    <2>2. ASSUME NEW c \in Range(Campaigns), NEW s \in {"free", "billable"},
                 source' = [source EXCEPT !.campaigns[c] = s]
          PROVE  source' \in Exports
      BY <1>2, <2>2 DEF Exports
    <2>3. ASSUME source' = [source EXCEPT !.intact = ~@]
          PROVE  source' \in Exports
      BY <1>2, <2>3 DEF Exports
    <2>4. QED
      BY <2>1, <2>2, <2>3 DEF SourceChanges
  <1>4. QED
    BY <1>1, <1>3
    DEF IInv, Typed, Chain, VersionsChain, SessionsAreSound, Active, Sound, Extends,
        Copies, OneHolder, Holders, Judged

\* A judgment reaches the current row, and every load that has read an
\* older one is counted as crossed.
LEMMA ClassifyKeeps ==
    ASSUME IInv, NEW tier \in Tiers, Classify(tier)
    PROVE  IInv'
  <1>1. /\ Current # NoRow /\ Holders("account") = {}
        /\ versions' = [versions EXCEPT ![Max(CurrentVersions)].tier = tier]
        /\ judged' = [tier |-> tier,
                      crossed |-> \E l \in Active : tx[l].at = 1 /\ tx[l].seen # <<>>]
        /\ UNCHANGED <<source, rows, tx, reconciliation, mixed>>
    BY DEF Classify
  <1>2. Typed /\ Chain /\ SessionsAreSound
    BY DEF IInv
  <1>3. PICK n \in Nat :
            /\ Len(versions) = n /\ n > 0 /\ DOMAIN versions = 1..n
            /\ versions \in Seq(AccountRows) /\ Max(CurrentVersions) = n
            /\ versions[n] \in AccountRows
    BY <1>1, <1>2, CurrentRow DEF Typed
  <1>4. versions' = [versions EXCEPT ![n].tier = tier]
    BY <1>1, <1>3
  <1>5. [versions[n] EXCEPT !.tier = tier] \in AccountRows
    BY <1>3 DEF AccountRows
  <1>6. versions' \in Seq(AccountRows) /\ Len(versions') = n /\ DOMAIN versions' = 1..n
    BY <1>3, <1>4, <1>5
  <1>7. \A i \in 1..n :
            /\ versions'[i].id = versions[i].id /\ versions'[i].plan = versions[i].plan
            /\ versions'[i].follows = versions[i].follows
            /\ versions'[i].current <=> versions[i].current
            /\ i = n => versions'[i].tier = tier
    BY <1>3, <1>4 DEF AccountRows
  <1>8. Chain'
    <2>1. \A i \in 1..n : /\ versions[i].follows = i - 1 /\ versions[i].id = i
                          /\ i > 1 => versions[i].plan # versions[i - 1].plan
                          /\ versions[i].current <=> i = n
      BY <1>2, <1>3 DEF Chain, VersionsChain
    <2>2. \A i \in 1..n : i > 1 => i - 1 \in 1..n
      BY <1>3
    <2>3. \A i \in 1..n : /\ versions'[i].follows = i - 1 /\ versions'[i].id = i
                          /\ i > 1 => versions'[i].plan # versions'[i - 1].plan
                          /\ versions'[i].current <=> i = n
      BY <1>7, <2>1, <2>2
    <2>4. QED
      BY <1>6, <2>3 DEF Chain, VersionsChain
  <1>9. Judged'
    BY <1>1, <1>3, <1>6, <1>7 DEF Judged
  <1>10. Typed'
    BY <1>1, <1>2, <1>6 DEF Typed
  <1>11. OneHolder'
    BY <1>1 DEF OneHolder, Holders, Active
  <1>12. SessionsAreSound'
    <2> SUFFICES ASSUME NEW l \in Active
                 PROVE  Sound(tx[l])'
      BY <1>1 DEF SessionsAreSound, Active
    <2>1. Sound(tx[l]) /\ "account" \notin DOMAIN tx[l].writes
      BY <1>1, <1>2 DEF SessionsAreSound, Holders
    <2>2. ASSUME tx[l].at = 1, tx[l].seen # <<>>, tx[l].seen[1] # NoRow
          PROVE  Copies(tx[l].seen[1], tx[l].export)'
      <3>1. judged'.crossed = TRUE
        BY <1>1, <2>2
      <3>2. Copies(tx[l].seen[1], tx[l].export)
        BY <2>1, <2>2 DEF Sound
      <3>3. QED
        BY <1>1, <1>3, <1>6, <1>7, <3>1, <3>2 DEF Copies
    <2>3. QED
      BY <1>1, <2>1, <2>2 DEF Sound
  <1>13. QED
    BY <1>8, <1>9, <1>10, <1>11, <1>12 DEF IInv

\* The reconciliation writes nothing.
LEMMA ReconciliationKeeps ==
    ASSUME IInv, CountCampaigns \/ CompareBilled
    PROVE  IInv'
  <1>1. UNCHANGED <<source, versions, rows, tx, judged, mixed>>
    BY DEF CountCampaigns, CompareBilled
  <1>2. reconciliation' \in [stage : {"idle"}]
               \cup [stage : {"counted"}, computed : Counts, crossed : BOOLEAN]
    <2>1. CASE CompareBilled
      BY <2>1 DEF CompareBilled
    <2>2. CASE CountCampaigns
      BY <2>2, CountRange DEF CountCampaigns, IInv, Typed
    <2>3. QED
      BY <2>1, <2>2
  <1>3. QED
    BY <1>1, <1>2
    DEF IInv, Typed, Chain, VersionsChain, SessionsAreSound, Active, Sound, Extends,
        Copies, OneHolder, Holders, Judged

LEMMA NextKeepsIInv == IInv /\ [Next]_vars => IInv'
  <1> SUFFICES ASSUME IInv, [Next]_vars PROVE IInv'
    OBVIOUS
  <1>1. CASE SourceChanges
    BY <1>1, SourceChangesKeeps
  <1>2. ASSUME NEW tier \in Tiers, Classify(tier) PROVE IInv'
    BY <1>2, ClassifyKeeps
  <1>3. ASSUME NEW l \in Loads, StartLoad(l) \/ LoadStep(l) \/ FailLoad(l) PROVE IInv'
    <2>1. CASE StartLoad(l)
      BY <2>1, StartLoadKeeps
    <2>2. CASE ReadRow(l)
      BY <2>2, ReadRowKeeps
    <2>3. CASE WriteRow(l)
      BY <2>3, WriteRowKeeps
    <2>4. CASE CommitLoad(l)
      BY <2>4, CommitLoadKeeps
    <2>5. CASE FailLoad(l)
      BY <2>5, RollbackKeeps DEF FailLoad
    <2>6. QED
      BY <1>3, <2>1, <2>2, <2>3, <2>4, <2>5 DEF LoadStep
  <1>4. CASE CountCampaigns \/ CompareBilled
    BY <1>4, ReconciliationKeeps
  <1>5. CASE UNCHANGED vars
    BY <1>5
    DEF vars, IInv, Typed, Chain, VersionsChain, SessionsAreSound, Active, Sound,
        Extends, Copies, OneHolder, Holders, Judged
  <1>6. QED
    BY <1>1, <1>2, <1>3, <1>4, <1>5 DEF Next

-----------------------------------------------------------------------------
(* What the reconciliation compares *)

\* A load that was alone from its start has passed the entity at a position:
\* the export has no record of it, or the row says what the export says or
\* will at the commit.
Landed(t, e) ==
    \/ e \in DOMAIN t.writes
    \/ Exported(t.export, e) = NoRow
    \/ rows[e] = Exported(t.export, e)

\* Campaigns are added and re-rated, never withdrawn: what the product does
\* not have is in no export, and, while a load is alone, in no row.
Tells(t) ==
    /\ \A e \in DOMAIN t.writes \ {"account"} : t.writes[e] = Exported(t.export, e)
    /\ \A c \in Range(Campaigns) :
           source.campaigns[c] = NoRow => t.export.campaigns[c] = NoRow
    /\ t.alone =>
           /\ \A c \in Range(Campaigns) : t.export.campaigns[c] = NoRow => rows[c] = NoRow
           /\ \A i \in 2..(t.at - 1) : Landed(t, Entities[i])

AllTell == \A l \in Active : Tells(tx[l])

NothingUnknown ==
    \A c \in Range(Campaigns) : source.campaigns[c] = NoRow => rows[c] = NoRow

Billed == IF rows["billed"] = NoRow THEN 0 ELSE rows["billed"]

\* After a commit by a load that was alone, both counts come of one export.
CountsAgree == ~mixed => Billed = Billable(rows)

CountIsCurrent ==
    reconciliation.stage = "counted" /\ ~reconciliation.crossed =>
        ~mixed /\ reconciliation.computed = Billable(rows)

AInv == AllTell /\ NothingUnknown /\ CountsAgree /\ CountIsCurrent

LEMMA NamesDiffer ==
    /\ "billed" \in Stored /\ "billed" # "account"
    /\ \A c \in Range(Campaigns) : c \in Stored /\ c # "billed" /\ c # "account"
    /\ \A e \in Stored : e = "billed" \/ e \in Range(Campaigns)
    /\ \A export : \A c \in Range(Campaigns) : Exported(export, c) = export.campaigns[c]
    /\ \A export : Exported(export, "billed") = Billable(export.campaigns)
    /\ \A export : Billable(export.campaigns) # NoRow
  <1>1. \A export : Billable(export.campaigns) # NoRow
    <2> SUFFICES ASSUME NEW export PROVE Billable(export.campaigns) # NoRow
      OBVIOUS
    <2>1. Billable(export.campaigns) \in Nat
      BY CountRange, EntityOrder DEF Counts
    <2>2. QED
      BY <2>1, IngestAssumption DEF IngestAssumption
  <1>2. QED
    BY <1>1, IngestAssumption DEF IngestAssumption, Stored, Exported

\* A step that replaces one session by one that agrees.
LEMMA SessionAgrees ==
    ASSUME IInv, AInv, NEW l \in Loads, NEW t,
           tx' = [tx EXCEPT ![l] = t],
           UNCHANGED <<source, rows, reconciliation, mixed>>,
           t # Idle => Tells(t)
    PROVE  AInv'
  <1>1. \A s : Tells(s)' <=> Tells(s)
    BY DEF Tells, Landed
  <1>2. tx \in [Loads -> {Idle} \cup Sessions]
    BY DEF IInv, Typed
  <1>3. tx'[l] = t /\ \A k \in Loads \ {l} : tx'[k] = tx[k]
    BY <1>2
  <1>4. AllTell'
    <2> SUFFICES ASSUME NEW k \in Loads, tx'[k] # Idle PROVE Tells(tx'[k])
      BY <1>1 DEF AllTell, Active
    <2>1. QED
      BY <1>3 DEF AInv, AllTell, Active
  <1>5. NothingUnknown' /\ CountsAgree' /\ CountIsCurrent'
    BY DEF AInv, NothingUnknown, CountsAgree, Billed, CountIsCurrent, Billable
  <1>6. QED
    BY <1>4, <1>5 DEF AInv

LEMMA StartLoadAgrees ==
    ASSUME IInv, AInv, NEW l \in Loads, StartLoad(l)
    PROVE  AInv'
  <1> DEFINE t == [at |-> 1, export |-> source, seen |-> <<>>,
                   writes |-> <<>>, alone |-> TRUE]
  <1>1. Tells(t)
    BY DEF Tells, AInv, NothingUnknown
  <1>2. QED
    BY <1>1, SessionAgrees DEF StartLoad

LEMMA ReadRowAgrees ==
    ASSUME IInv, AInv, NEW l \in Loads, ReadRow(l)
    PROVE  AInv'
  <1> DEFINE entity == EntityOf(l)
             ahead == Advanced(tx[l])
             read == [tx[l] EXCEPT !.seen = <<Visible(entity)>>]
  <1>1. /\ Loading(l) /\ UNCHANGED <<source, rows, reconciliation, mixed>>
    BY DEF ReadRow
  <1>2. tx[l] # Idle /\ l \in Active /\ tx[l] \in Sessions /\ Tells(tx[l])
    BY <1>1, RunningLoad DEF Loading, IInv, AInv, AllTell
  <1>3. tx[l].at \in 1..Len(Entities)
    BY <1>1, EntityOrder DEF Loading
  <1>4. CASE Rollback(l)
    BY <1>1, <1>4, SessionAgrees DEF Rollback
  <1>5. CASE /\ tx' = [tx EXCEPT ![l] = ahead]
             /\ Settled(entity, WantedBy(l), Visible(entity))
    <2>1. /\ ahead.writes = tx[l].writes /\ ahead.at = tx[l].at + 1
          /\ ahead.export = tx[l].export
      BY <1>2, <1>3, AdvancedSession
    <2>2. ahead.alone = tx[l].alone
      BY <1>2 DEF Advanced, Sessions
    <2>3. ASSUME NEW i \in 2..(ahead.at - 1), tx[l].alone
          PROVE  Landed(ahead, Entities[i])
      <3>1. CASE i < tx[l].at
        BY <1>2, <1>3, <2>1, <2>3, <3>1 DEF Tells, Landed
      <3>2. CASE i = tx[l].at
        <4>1. entity = Entities[i] /\ entity # "account"
          BY <1>3, <2>3, <3>2, EntityOrder DEF EntityOf
        <4>2. Visible(entity) = rows[entity] /\ WantedBy(l) = Exported(tx[l].export, entity)
          BY <4>1 DEF Visible, WantedBy
        <4>3. WantedBy(l) = NoRow \/ rows[entity] = WantedBy(l)
          BY <1>5, <4>1, <4>2 DEF Settled
        <4>4. QED
          BY <2>1, <4>1, <4>2, <4>3 DEF Landed
      <3>3. QED
        BY <1>3, <2>1, <2>3, <3>1, <3>2
    <2>4. Tells(ahead)
      BY <1>2, <2>1, <2>2, <2>3 DEF Tells
    <2>5. QED
      BY <1>1, <1>5, <2>4, SessionAgrees
  <1>6. CASE tx' = [tx EXCEPT ![l] = read]
    <2>1. /\ read.writes = tx[l].writes /\ read.at = tx[l].at
          /\ read.export = tx[l].export /\ read.alone = tx[l].alone
      BY <1>2 DEF Sessions
    <2>2. Tells(read)
      BY <1>2, <2>1 DEF Tells, Landed
    <2>3. QED
      BY <1>1, <1>6, <2>2, SessionAgrees
  <1>7. QED
    BY <1>4, <1>5, <1>6 DEF ReadRow

LEMMA WriteRowAgrees ==
    ASSUME IInv, AInv, NEW l \in Loads, WriteRow(l)
    PROVE  AInv'
  <1> DEFINE entity == EntityOf(l)
             seen == tx[l].seen[1]
             value == IF entity = "account" THEN NewVersion(l, seen) ELSE WantedBy(l)
             writes == tx[l].writes
             written == [n \in DOMAIN writes \cup {entity} |->
                            IF n = entity THEN value ELSE writes[n]]
             t == Wrote(tx[l], entity, value)
  <1>1. /\ Loading(l) /\ UNCHANGED <<source, rows, reconciliation, mixed>>
    BY DEF WriteRow
  <1>2. tx[l] # Idle /\ l \in Active /\ tx[l] \in Sessions /\ Tells(tx[l])
    BY <1>1, RunningLoad DEF Loading, IInv, AInv, AllTell
  <1>3. tx[l].at \in 1..Len(Entities)
    BY <1>1, EntityOrder DEF Loading
  <1>4. CASE Rollback(l)
    BY <1>1, <1>4, SessionAgrees DEF Rollback
  <1>5. CASE tx' = [tx EXCEPT ![l] = t]
    <2>1. entity # "account" => value = Exported(tx[l].export, entity)
      BY DEF WantedBy
    <2>2. t = [Advanced(tx[l]) EXCEPT !.writes = written]
      BY DEF Wrote
    <2> HIDE DEF value
    <2>3. /\ DOMAIN written = DOMAIN writes \cup {entity}
          /\ written[entity] = value
          /\ \A n \in DOMAIN writes \ {entity} : written[n] = writes[n]
      OBVIOUS
    <2> HIDE DEF written, t
    <2>4. /\ Advanced(tx[l]) \in Sessions /\ Advanced(tx[l]).at = tx[l].at + 1
          /\ Advanced(tx[l]).export = tx[l].export
      BY <1>2, <1>3, AdvancedSession
    <2>5. Advanced(tx[l]).alone = tx[l].alone
      BY <1>2 DEF Advanced, Sessions
    <2>6. /\ t.at = tx[l].at + 1 /\ t.writes = written
          /\ t.export = tx[l].export /\ t.alone = tx[l].alone
      BY <2>2, <2>4, <2>5 DEF Sessions
    <2>7. \A e \in DOMAIN t.writes \ {"account"} : t.writes[e] = Exported(t.export, e)
      BY <1>2, <2>1, <2>3, <2>6 DEF Tells
    <2>8. ASSUME NEW i \in 2..(t.at - 1), tx[l].alone PROVE Landed(t, Entities[i])
      <3>1. CASE i < tx[l].at
        BY <1>2, <1>3, <2>3, <2>6, <2>8, <3>1 DEF Tells, Landed
      <3>2. CASE i = tx[l].at
        BY <2>3, <2>6, <3>2 DEF Landed, EntityOf
      <3>3. QED
        BY <1>3, <2>6, <2>8, <3>1, <3>2
    <2>9. Tells(t)
      BY <1>2, <2>6, <2>7, <2>8 DEF Tells
    <2>10. QED
      BY <1>1, <1>5, <2>9, SessionAgrees
  <1>6. QED
    BY <1>4, <1>5 DEF WriteRow

\* A load that was alone leaves the rows and the billed count of its export.
LEMMA AloneCommits ==
    ASSUME IInv, AInv, NEW l \in Active, Apply(l), tx[l].alone,
           tx[l].at > Len(Entities)
    PROVE  Billed' = Billable(rows')
  <1> DEFINE export == tx[l].export
  <1>1. tx[l] \in Sessions /\ Tells(tx[l]) /\ tx[l].at = Len(Entities) + 1
    BY RunningLoad, EntityOrder DEF IInv, AInv, AllTell, Sessions
  <1>2. rows' = [e \in Stored |->
                    IF e \in DOMAIN tx[l].writes THEN tx[l].writes[e] ELSE rows[e]]
    BY DEF Apply
  <1>3. ASSUME NEW e \in Stored
        PROVE  \/ rows'[e] = Exported(export, e)
               \/ Exported(export, e) = NoRow /\ rows'[e] = rows[e]
    <2>1. PICK i \in 2..Len(Entities) : Entities[i] = e
      BY EntityOrder
    <2>2. Landed(tx[l], e)
      BY <1>1, <2>1, EntityOrder DEF Tells
    <2>3. e # "account"
      BY EntityOrder
    <2>4. QED
      BY <1>1, <1>2, <2>2, <2>3 DEF Landed, Tells
  <1>4. ASSUME NEW c \in Range(Campaigns) PROVE rows'[c] = export.campaigns[c]
    BY <1>1, <1>3, NamesDiffer DEF Tells
  <1>5. Billable(rows') = Billable(export.campaigns)
    BY <1>4 DEF Billable
  <1>6. rows'["billed"] = Billable(export.campaigns) /\ Billable(export.campaigns) # NoRow
    BY <1>3, NamesDiffer
  <1>7. QED
    BY <1>5, <1>6 DEF Billed

LEMMA CommitLoadAgrees ==
    ASSUME IInv, AInv, NEW l \in Loads, CommitLoad(l)
    PROVE  AInv'
  <1>1. /\ tx[l] # Idle /\ tx[l].at > Len(Entities) /\ Apply(l) /\ UNCHANGED source
        /\ tx' = [k \in Loads |-> IF k = l THEN Idle ELSE Spoil(k)]
    BY DEF CommitLoad
  <1>2. l \in Active /\ Tells(tx[l]) /\ tx[l] \in Sessions
    BY <1>1, RunningLoad DEF IInv, AInv, AllTell
  <1>3. ASSUME NEW k \in Loads, tx'[k] # Idle
        PROVE  /\ k \in Active
               /\ tx'[k].export = tx[k].export /\ tx'[k].writes = tx[k].writes
               /\ tx'[k].alone = FALSE
    <2>1. k # l /\ k \in Active
      BY <1>1, <1>3, RunningLoad DEF Spoil, IInv
    <2>2. tx[k] \in Sessions
      BY <2>1, RunningLoad DEF IInv
    <2>3. tx'[k] = [tx[k] EXCEPT !.alone = FALSE]
      BY <1>1, <2>1 DEF Spoil
    <2>4. QED
      BY <2>1, <2>2, <2>3 DEF Sessions
  <1>4. AllTell'
    <2> SUFFICES ASSUME NEW k \in Loads, tx'[k] # Idle PROVE Tells(tx[k])'
      BY DEF AllTell, Active
    <2>1. QED
      BY <1>1, <1>3 DEF AInv, AllTell, Tells
  <1>5. NothingUnknown'
    <2> SUFFICES ASSUME NEW c \in Range(Campaigns), source.campaigns[c] = NoRow
                 PROVE  rows'[c] = NoRow
      BY <1>1 DEF NothingUnknown
    <2>1. c \in Stored /\ c # "account" /\ Exported(tx[l].export, c) = NoRow
      BY <1>2, NamesDiffer DEF Tells
    <2>2. rows'[c] = IF c \in DOMAIN tx[l].writes THEN tx[l].writes[c] ELSE rows[c]
      BY <1>1, <2>1 DEF Apply
    <2>3. QED
      BY <1>2, <2>1, <2>2 DEF Tells, AInv, NothingUnknown
  <1>6. CountsAgree'
    BY <1>1, <1>2, AloneCommits DEF CountsAgree, Apply
  <1>7. CountIsCurrent'
    BY <1>1 DEF CountIsCurrent, Apply, IInv, Typed
  <1>8. QED
    BY <1>4, <1>5, <1>6, <1>7 DEF AInv

LEMMA SourceChangesAgrees ==
    ASSUME IInv, AInv, SourceChanges
    PROVE  AInv'
  <1>1. UNCHANGED <<versions, rows, tx, reconciliation, judged, mixed>>
    BY DEF SourceChanges
  <1>2. source \in Exports
    BY DEF IInv, Typed
  <1>3. \A c \in Range(Campaigns) :
            source'.campaigns[c] = NoRow => source.campaigns[c] = NoRow
    <2>1. ASSUME NEW p \in Plans, source' = [source EXCEPT !.plan = p]
          PROVE  source'.campaigns = source.campaigns
      BY <1>2, <2>1 DEF Exports
    <2>2. ASSUME NEW d \in Range(Campaigns), NEW s \in {"free", "billable"},
                 source' = [source EXCEPT !.campaigns[d] = s]
          PROVE  \A c \in Range(Campaigns) :
                     source'.campaigns[c] = IF c = d THEN s ELSE source.campaigns[c]
      BY <1>2, <2>2 DEF Exports
    <2>3. ASSUME source' = [source EXCEPT !.intact = ~@]
          PROVE  source'.campaigns = source.campaigns
      BY <1>2, <2>3 DEF Exports
    <2>4. QED
      BY <2>1, <2>2, <2>3, IngestAssumption DEF SourceChanges, IngestAssumption
  <1>4. AllTell'
    BY <1>1, <1>3 DEF AInv, AllTell, Active, Tells, Landed
  <1>5. NothingUnknown' /\ CountsAgree' /\ CountIsCurrent'
    BY <1>1, <1>3
    DEF AInv, NothingUnknown, CountsAgree, Billed, CountIsCurrent, Billable
  <1>6. QED
    BY <1>4, <1>5 DEF AInv

LEMMA NextKeepsAInv == IInv /\ AInv /\ [Next]_vars => AInv'
  <1> SUFFICES ASSUME IInv, AInv, [Next]_vars PROVE AInv'
    OBVIOUS
  <1>1. CASE SourceChanges
    BY <1>1, SourceChangesAgrees
  <1>2. CASE UNCHANGED <<source, rows, tx, reconciliation, mixed>>
    BY <1>2
    DEF AInv, AllTell, Active, Tells, Landed, NothingUnknown, CountsAgree, Billed,
        CountIsCurrent, Billable
  <1>3. ASSUME NEW l \in Loads, StartLoad(l) \/ LoadStep(l) \/ FailLoad(l) PROVE AInv'
    <2>1. CASE StartLoad(l)
      BY <2>1, StartLoadAgrees
    <2>2. CASE ReadRow(l)
      BY <2>2, ReadRowAgrees
    <2>3. CASE WriteRow(l)
      BY <2>3, WriteRowAgrees
    <2>4. CASE CommitLoad(l)
      BY <2>4, CommitLoadAgrees
    <2>5. CASE FailLoad(l)
      BY <2>5, SessionAgrees DEF FailLoad, Rollback
    <2>6. QED
      BY <1>3, <2>1, <2>2, <2>3, <2>4, <2>5 DEF LoadStep
  <1>4. CASE CountCampaigns \/ CompareBilled
    <2>1. UNCHANGED <<source, rows, tx, mixed>>
      BY <1>4 DEF CountCampaigns, CompareBilled
    <2>2. AllTell' /\ NothingUnknown' /\ CountsAgree'
      BY <2>1
      DEF AInv, AllTell, Active, Tells, Landed, NothingUnknown, CountsAgree, Billed,
          Billable
    <2>3. CountIsCurrent'
      BY <1>4, <2>1 DEF CountIsCurrent, CountCampaigns, CompareBilled, Billable
    <2>4. QED
      BY <2>2, <2>3 DEF AInv
  <1>5. QED
    BY <1>1, <1>2, <1>3, <1>4 DEF Next, Classify, vars

LEMMA InitAInv == Init => AInv
  <1> SUFFICES ASSUME Init PROVE AInv
    OBVIOUS
  <1>1. Active = {}
    BY DEF Init, Active
  <1>2. \A e \in Stored : rows[e] = NoRow
    BY DEF Init
  <1>3. Billable(rows) = 0 /\ Billed = 0
    <2>1. {c \in Range(Campaigns) : rows[c] = "billable"} = {}
      BY <1>2, NamesDiffer, IngestAssumption DEF IngestAssumption
    <2>2. QED
      BY <1>2, <2>1, NamesDiffer, FS_EmptySet DEF Billable, Billed
  <1>4. QED
    BY <1>1, <1>2, <1>3, NamesDiffer
    DEF Init, AInv, AllTell, NothingUnknown, CountsAgree, CountIsCurrent

-----------------------------------------------------------------------------
(* Theorems *)

\* The invariant holds in every reachable state.
THEOREM Inductive == Spec => []IInv
  <1>1. QED
    BY InitIInv, NextKeepsIInv, PTL DEF Spec

LEMMA IInvTypes == IInv => TypeOK
  <1> SUFFICES ASSUME IInv PROVE TypeOK
    OBVIOUS
  <1>1. Typed /\ SessionsAreSound
    BY DEF IInv
  <1>2. /\ \A c \in Range(Campaigns) : rows[c] \in {NoRow, "free", "billable"}
        /\ rows["billed"] \in {NoRow} \cup 0..Len(Campaigns)
    <2>1. \A c \in Range(Campaigns) : RowsOf(c) = States
      BY IngestAssumption DEF IngestAssumption, RowsOf
    <2>2. RowsOf("billed") = {NoRow} \cup Counts
      BY DEF RowsOf
    <2>3. QED
      BY <1>1, <2>1, <2>2 DEF Typed, Stored, States, Counts
  <1>3. ASSUME NEW l \in Active
        PROVE  /\ tx[l].export \in Exports
               /\ tx[l].at \in 1..Len(Entities) + 1
               /\ DOMAIN tx[l].writes \subseteq {Entities[i] : i \in 1..tx[l].at - 1}
               /\ Len(tx[l].seen) <= 1
    <2>1. tx[l] \in Sessions /\ Sound(tx[l])
      BY <1>1, RunningLoad DEF SessionsAreSound
    <2>2. Len(tx[l].seen) <= 1
      <3>1. tx[l].seen \in Seen
        BY <2>1 DEF Sessions
      <3>2. ASSUME NEW row PROVE Len(<<row>>) = 1
        OBVIOUS
      <3>3. tx[l].seen = <<>> \/ \E row \in AnyRow : tx[l].seen = <<row>>
        BY <3>1 DEF Seen
      <3>4. CASE tx[l].seen = <<>>
        BY <3>4
      <3>5. CASE \E row \in AnyRow : tx[l].seen = <<row>>
        <4>1. PICK row \in AnyRow : tx[l].seen = <<row>>
          BY <3>5
        <4>2. Len(tx[l].seen) = Len(<<row>>)
          BY <4>1
        <4>3. QED
          BY <3>2, <4>2
      <3>6. QED
        BY <3>3, <3>4, <3>5
    <2>3. QED
      BY <2>1, <2>2 DEF Sessions, Sound
  <1>4. QED
    BY <1>1, <1>2, <1>3 DEF Typed, TypeOK

\* Every row, session and export of the loader stays of its kind.
THEOREM TypeCorrect == Spec => []TypeOK
  <1>1. QED
    BY Inductive, IInvTypes, PTL

\* The versions of an account form one chain with one current version at its
\* end, for any number of overlapping, lost and refused loads.
THEOREM VersionsChainHolds == Spec => []VersionsChain
  <1>1. IInv => VersionsChain
    BY DEF IInv, Chain
  <1>2. QED
    BY <1>1, Inductive, PTL

\* No load takes back what CS decided, unless the decision fell between its
\* read of the account and its write.
THEOREM JudgmentSurvivesHolds == Spec => []JudgmentSurvives
  <1>1. IInv => JudgmentSurvives
    BY CurrentRow DEF IInv, Typed, Judged, JudgmentSurvives
  <1>2. QED
    BY <1>1, Inductive, PTL

THEOREM AgreementInductive == Spec => []AInv
  <1>1. QED
    BY InitAInv, NextKeepsAInv, Inductive, PTL DEF Spec

\* A nightly alarm has a cause: a load committed between the comparison's two
\* selects, or the last load to commit had another one commit beside it.
THEOREM AlarmMeansOverlapHolds == Spec => AlarmMeansOverlap
  <1> DEFINE Caused == CompareBilled /\ Alarm => reconciliation.crossed
  <1>1. IInv /\ AInv => Caused
    <2> SUFFICES ASSUME IInv, AInv, CompareBilled, ~reconciliation.crossed
                 PROVE  ~Alarm
      BY DEF CompareBilled, IInv, Typed
    <2>1. Billed = reconciliation.computed
      BY DEF CompareBilled, AInv, CountIsCurrent, CountsAgree
    <2>2. QED
      BY <2>1 DEF Alarm, Discrepancy, Billed
  <1>2. IInv /\ AInv /\ [Next]_vars => [Caused]_vars
    BY <1>1
  <1>3. QED
    BY <1>2, Inductive, AgreementInductive, PTL DEF Spec, AlarmMeansOverlap

=============================================================================
