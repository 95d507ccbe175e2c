------------------------------ MODULE LeadStore ------------------------------
(***************************************************************************)
(* The SQLite store: one row per source URL, written by SaveLead's INSERT  *)
(* with ON CONFLICT DO UPDATE, read by GetLeads for the XLSX export.  The  *)
(* database has one connection, so a call is one step; a row outlives the  *)
(* program.                                                                *)
(*                                                                         *)
(* Of the text columns that keep their old value when the new one is empty *)
(* (company_name, emails, skype, linkedin, twitter), one stands for all.   *)
(* telegram_handles and tg_validation_status are kept apart, because each  *)
(* keeps its old value on its own; so is cis_reason beside is_cis.  The    *)
(* flags is_cis and mx_valid always take the new value.                    *)
(***************************************************************************)
EXTENDS FiniteSets

CONSTANTS
    URLs,       \* source URLs
    NoRow,      \* "the table has no row for this URL"
    Handles,    \* Telegram handles
    Leads       \* the leads the pipeline may hand to SaveLead

Blank == ""

\* What SaveLead is given.  accepted are the handles the pipeline kept, rejected
\* those it took away; together they are the usernames of TGResults.  The mark mx
\* needs an address to stand on: validateEmails gives none to a lead without one.
LeadShape(l) ==
    /\ DOMAIN l = {"text", "accepted", "rejected", "reason", "mx"}
    /\ l.mx \in BOOLEAN /\ (l.mx => l.text # Blank)
    /\ l.accepted \subseteq Handles /\ l.rejected \subseteq Handles
    /\ l.accepted \cap l.rejected = {}

ASSUME LeadsAssumption == \A l \in Leads : LeadShape(l)

VARIABLES
    rows,       \* URL -> its row, or NoRow
    accepted,   \* history: URL -> handles some lead of it was saved with
    marked      \* history: URL -> texts of the leads of it saved as mx_valid

storeVars == <<rows, accepted, marked>>

Texts   == {l.text : l \in Leads}
Reasons == {l.reason : l \in Leads}

\* good and bad are the usernames of tg_validation_status, by their status
Row == [text: Texts, handles: SUBSET Handles,
        good: SUBSET Handles, bad: SUBSET Handles, isCIS: BOOLEAN, reason: Reasons,
        mx: BOOLEAN]

ASSUME NoRowAssumption == NoRow \notin Row \cup Leads

StoreTypeOK ==
    /\ rows \in [URLs -> Row \cup {NoRow}]
    /\ accepted \in [URLs -> SUBSET Handles]
    /\ marked \in [URLs -> SUBSET Texts]

StoreInit ==
    /\ rows = [u \in URLs |-> NoRow]
    /\ accepted = [u \in URLs |-> {}]
    /\ marked = [u \in URLs |-> {}]

-----------------------------------------------------------------------------
\* IsCIS gives a reason with every verdict that is true, and none otherwise
IsCIS(l) == l.reason # Blank

InsertedRow(l) ==
    [text |-> l.text, handles |-> l.accepted,
     good |-> l.accepted, bad |-> l.rejected, isCIS |-> IsCIS(l), reason |-> l.reason,
     mx |-> l.mx]

\* CASE WHEN excluded.x <> '' THEN excluded.x ELSE leads.x END
NewUnlessBlank(new, old, blank) == IF new = blank THEN old ELSE new

\* tg_validation_status is '' when no handle was validated
Judged(l) == l.accepted \cup l.rejected

\* a careless variant: every column takes the new lead's value
OverwrittenRow(row, l) == InsertedRow(l)

\* a careless variant: the handles are those that were validated
RowOfJudged(row, l) ==
    [row EXCEPT !.handles = NewUnlessBlank(Judged(l), row.handles, {})]

\* a careless variant: the statuses are added to those a row has
StatusesMerged(row, l) ==
    [row EXCEPT !.handles = NewUnlessBlank(l.accepted, row.handles, {}),
                !.good = row.good \cup l.accepted]

\* a careless variant: the reason is not among the updated columns
ReasonForgotten(row, l) ==
    [row EXCEPT !.text = NewUnlessBlank(l.text, row.text, Blank), !.isCIS = IsCIS(l)]

\* a careless variant: the mark is kept like the addresses it is about
MarkKept(row, l) ==
    [row EXCEPT !.text = NewUnlessBlank(l.text, row.text, Blank), !.mx = l.mx \/ row.mx]

UpdatedRow(row, l) ==
    [text    |-> NewUnlessBlank(l.text, row.text, Blank),
     handles |-> NewUnlessBlank(l.accepted, row.handles, {}),
     good    |-> IF Judged(l) = {} THEN row.good ELSE l.accepted,
     bad     |-> IF Judged(l) = {} THEN row.bad ELSE l.rejected,
     isCIS   |-> IsCIS(l),
     reason  |-> NewUnlessBlank(l.reason, row.reason, Blank),
     mx      |-> l.mx]

SaveLead(u, l) ==
    /\ rows' = [rows EXCEPT ![u] =
                    IF rows[u] = NoRow THEN InsertedRow(l) ELSE UpdatedRow(rows[u], l)]
    /\ accepted' = [accepted EXCEPT ![u] = @ \cup l.accepted]
    /\ marked' = [marked EXCEPT ![u] = @ \cup IF l.mx THEN {l.text} ELSE {}]

\* GetLeads with no filter; ExistingSourceURLs is the same set of URLs
SavedURLs == {u \in URLs : rows[u] # NoRow}

-----------------------------------------------------------------------------
(* telegram_handles and tg_validation_status are updated by different       *)
(* rules, and still a row whose statuses accept handles shows these very   *)
(* handles.  Only while the statuses accept none may handles of an older   *)
(* save stand beside them; a handle no save had accepted stands nowhere.   *)
RowHandlesAccepted ==
    \A u \in SavedURLs :
        /\ rows[u].good # {} => rows[u].handles = rows[u].good
        /\ rows[u].handles \cup rows[u].good \subseteq accepted[u]

(* A row marked as CIS carries the reason, also after any updates.         *)
MarkedRowsHaveReason ==
    \A u \in SavedURLs : rows[u].isCIS => rows[u].reason # Blank

(* A row marked as having a usable mail domain shows the very addresses     *)
(* that were looked up: the mark never outlives them, although addresses    *)
(* and mark are updated by different rules.                                 *)
MarkIsOfText ==
    \A u \in SavedURLs : rows[u].mx => rows[u].text \in marked[u]
=============================================================================
