---------------------------- MODULE ApprovalQueue ----------------------------
(***************************************************************************)
(* The approval queue: agents' jobs add Action rows whose autonomy level   *)
(* depends on the approvals counted so far, and reviewers approve or       *)
(* reject pending rows through the API (api/routers/actions.py).           *)
(*                                                                         *)
(* An API request reads its row, checks that it is pending, and writes its *)
(* own columns at commit; there is no lock and no version column, so two   *)
(* requests may both have seen the row pending.  A job stages its rows,    *)
(* with the counts it saw, until its one commit.                           *)
(***************************************************************************)
EXTENDS Autonomy, FiniteSets

CONSTANTS
    Ids,         \* bound: the rows that can exist
    Handlers,    \* API requests that may be in flight at once
    Types,       \* bound: the stored types of this instance
    Threshold    \* promotion_threshold_approved_without_edit, 30

ASSUME QueueAssumption ==
    /\ IsFiniteSet(Ids)
    /\ Types \subseteq StoredTypes
    /\ Threshold \in Nat

VARIABLES
    status,      \* status[i]: "absent", "staged" by a job, or ActionStatus
    draft,       \* draft[i]: what the agent stored, or NoDraft
    approvedBy,  \* approvedBy[i]: the approved_by column is set
    category,    \* category[i]: the rejection_reason_category column is set
    request      \* request[h]: what request h read and will write, or Idle

queueVars == <<status, draft, approvedBy, category, request>>

Statuses == {"absent", "staged", "pending", "approved", "rejected"}
Decisions == {"approved", "rejected"}

Draft == [type : Types, tier : Tiers, flagged : BOOLEAN, level : Levels]
NoDraft == [type |-> "none"]
Idle == [decision |-> "none"]

QueueInit ==
    /\ status = [i \in Ids |-> "absent"]
    /\ draft = [i \in Ids |-> NoDraft]
    /\ approvedBy = [i \in Ids |-> FALSE]
    /\ category = [i \in Ids |-> FALSE]
    /\ request = [h \in Handlers |-> Idle]

-----------------------------------------------------------------------------
(* The agents' jobs *)

\* The rows _approved_without_edit_count counts: committed and approved.
Approved(types) == {i \in Ids : status[i] = "approved" /\ draft[i].type \in types}

NewDraft(type, tier, flagged) ==
    LET raw == Resolve(tier, RowOf[type], Cardinality(Approved(CountedFor(type))), Threshold)
    IN  [type |-> type, tier |-> tier, flagged |-> flagged, level |-> Gate(raw, flagged)]

StageAction(i) ==
    /\ status[i] = "absent"
    /\ \E type \in Types, tier \in Tiers, flagged \in BOOLEAN :
           draft' = [draft EXCEPT ![i] = NewDraft(type, tier, flagged)]
    /\ status' = [status EXCEPT ![i] = "staged"]
    /\ UNCHANGED <<approvedBy, category, request>>

Staged == {i \in Ids : status[i] = "staged"}

CommitJob ==
    /\ Staged # {}
    /\ status' = [i \in Ids |-> IF i \in Staged THEN "pending" ELSE status[i]]
    /\ UNCHANGED <<draft, approvedBy, category, request>>

\* An exception in any account rolls the whole job back.
AbortJob ==
    /\ Staged # {}
    /\ status' = [i \in Ids |-> IF i \in Staged THEN "absent" ELSE status[i]]
    /\ draft' = [i \in Ids |-> IF i \in Staged THEN NoDraft ELSE draft[i]]
    /\ UNCHANGED <<approvedBy, category, request>>

-----------------------------------------------------------------------------
(* The API *)

\* Mutant: the row is loaded but its status is not looked at.
OpenRequest_AnyStatus(h, i) ==
    /\ request[h] = Idle
    /\ status[i] \in {"pending", "approved", "rejected"}
    /\ \E decision \in Decisions :
           request' = [request EXCEPT ![h] = [decision |-> decision, action |-> i]]
    /\ UNCHANGED <<status, draft, approvedBy, category>>

\* _get_pending_action: anything but a pending row is answered 409.
OpenRequest(h, i) ==
    /\ request[h] = Idle
    /\ status[i] = "pending"
    /\ \E decision \in Decisions :
           request' = [request EXCEPT ![h] = [decision |-> decision, action |-> i]]
    /\ UNCHANGED <<status, draft, approvedBy, category>>

\* The commit of approve_action or reject_action: each writes the status
\* and its own columns, and leaves the other's as they are.
Decide(h) ==
    /\ request[h] # Idle
    /\ LET i == request[h].action
           decision == request[h].decision
       IN  /\ status' = [status EXCEPT ![i] = decision]
           /\ approvedBy' = [approvedBy EXCEPT ![i] = @ \/ decision = "approved"]
           /\ category' = [category EXCEPT ![i] = @ \/ decision = "rejected"]
    /\ request' = [request EXCEPT ![h] = Idle]
    /\ UNCHANGED draft

\* The request fails before its commit: an unknown category (400), a lost
\* connection, a killed process.
DropRequest(h) ==
    /\ request[h] # Idle
    /\ request' = [request EXCEPT ![h] = Idle]
    /\ UNCHANGED <<status, draft, approvedBy, category>>

-----------------------------------------------------------------------------

Jobs == CommitJob \/ AbortJob \/ \E i \in Ids : StageAction(i)

Api == \E h \in Handlers :
          \/ \E i \in Ids : OpenRequest(h, i)
          \/ Decide(h)
          \/ DropRequest(h)

QueueNext == Jobs \/ Api

QueueSpec == QueueInit /\ [][QueueNext]_queueVars

-----------------------------------------------------------------------------
(* Properties *)

QueueTypeOK ==
    /\ status \in [Ids -> Statuses]
    /\ draft \in [Ids -> Draft \cup {NoDraft}]
    /\ \A i \in Ids : draft[i] = NoDraft <=> status[i] = "absent"
    /\ approvedBy \in [Ids -> BOOLEAN]
    /\ category \in [Ids -> BOOLEAN]
    /\ request \in [Handlers -> [decision : Decisions, action : Ids] \cup {Idle}]
    /\ \A h \in Handlers :   \* a request is about a committed row
           request[h] # Idle =>
               status[request[h].action] \in {"pending", "approved", "rejected"}

\* One API request at a time.
SerialHandlers == \A h, g \in Handlers : h = g

\* "Rejection reasons are training data ... the category is mandatory"
\* (core/models/play.py), and an approval is always signed: whatever
\* requests race, the columns the final status needs are there.
DecisionComplete ==
    \A i \in Ids : /\ status[i] = "rejected" => category[i]
                   /\ status[i] = "approved" => approvedBy[i]

\* "Cannot decide an already decided action"
\* (tests/api/test_actions.py): a decision is final.
DecidedOnce ==
    [][\A i \in Ids : status[i] \in Decisions => status'[i] = status[i]]_queueVars

\* The matrix's category of a stored type: the types under the same row.
CategoryOf(type) == {other \in StoredTypes : RowOf[other] = RowOf[type]}

\* Auto is earned "per action type only after 30 approved-without-edit
\* drafts in that category" (BUILD-PROMPT.md section 9) and stays earned:
\* whenever a customer-facing row says auto, staged or in the queue, its
\* draft was not flagged and Threshold approved rows of its own category,
\* whatever the job counted, stand behind it.
AutoIsEarned ==
    \A i \in Ids, type \in Types :
        status[i] # "absent" /\ draft[i].type = type /\ draft[i].level = "auto" =>
            /\ ~draft[i].flagged
            /\ Cardinality(Approved(CategoryOf(type))) >= Threshold

=============================================================================
