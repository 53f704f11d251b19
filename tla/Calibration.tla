----------------------------- MODULE Calibration -----------------------------
(***************************************************************************)
(* The calibration harness (evals/calibration.py): what the stored bands   *)
(* said before an event, and the episodes of risk they make up.  A history *)
(* is a function from the scored days to bands.                            *)
(***************************************************************************)
EXTENDS Usage, Sequences

AmberBands   == {"watch", "at_risk", "critical"}
FlaggedBands == {"at_risk", "critical"}
NoDay == -1

\* detect_event on the trailing quarter against the one before it.
DetectEvent(campaigns, today) ==
    LET last  == Cardinality(Last90(campaigns, today))
        prior == Cardinality(Prior90(campaigns, today))
    IN  IF prior = 0 THEN "none"
        ELSE IF last = 0 THEN "churned"
        ELSE IF 100 * last <= 70 * prior THEN "decayed"
        ELSE IF 100 * last >= 130 * prior THEN "expanded"
        ELSE "none"

\* _band_at_or_before; "none" when nothing was scored by then.
BandAtOrBefore(history, day) ==
    LET scored == {d \in DOMAIN history : d <= day}
    IN  IF scored = {} THEN "none" ELSE history[Max(scored)]

\* _first_amber_date
FirstAmber(history, before) ==
    LET amber == {d \in DOMAIN history : d <= before /\ history[d] \in AmberBands}
    IN  IF amber = {} THEN NoDay ELSE Min(amber)

-----------------------------------------------------------------------------
(* detect_risk_episodes: one pass over the rows by date *)

Outside == [flaggedAt |-> NoDay, band |-> "none", closed |-> <<>>]

\* Mutant: a change from at_risk to critical starts an episode of its own.
ScanRow_SplitsOnBand(history, scan, day) ==
    LET episode == [flaggedAt |-> scan.flaggedAt, band |-> scan.band,
                    recoveredAt |-> day]
    IN  IF history[day] \in FlaggedBands
        THEN IF scan.band = history[day] THEN scan
             ELSE [flaggedAt |-> day, band |-> history[day],
                   closed |-> IF scan.flaggedAt = NoDay THEN scan.closed
                              ELSE Append(scan.closed, episode)]
        ELSE IF scan.flaggedAt = NoDay THEN scan
        ELSE [Outside EXCEPT !.closed = Append(scan.closed, episode)]

\* The loop's body on the row of one day.
ScanRow(history, scan, day) ==
    LET episode == [flaggedAt |-> scan.flaggedAt, band |-> scan.band,
                    recoveredAt |-> day]
    IN  IF history[day] \in FlaggedBands
        THEN IF scan.flaggedAt # NoDay THEN scan
             ELSE [scan EXCEPT !.flaggedAt = day, !.band = history[day]]
        ELSE IF scan.flaggedAt = NoDay THEN scan
        ELSE [Outside EXCEPT !.closed = Append(scan.closed, episode)]

\* The state of the loop behind the rows of the days before a day.
Scanned(history) ==
    LET scan[day \in Nat] ==
            IF day = 0 THEN Outside
            ELSE IF day - 1 \in DOMAIN history
            THEN ScanRow(history, scan[day - 1], day - 1)
            ELSE scan[day - 1]
    IN  scan

\* All episodes, the one still open at the last row included.
RiskEpisodes(history) ==
    LET scan == Scanned(history)[Max({-1} \cup DOMAIN history) + 1]
    IN  IF scan.flaggedAt = NoDay THEN scan.closed
        ELSE Append(scan.closed, [flaggedAt |-> scan.flaggedAt,
                                  band |-> scan.band, recoveredAt |-> NoDay])

=============================================================================
