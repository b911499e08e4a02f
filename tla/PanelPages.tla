----------------------------- MODULE PanelPages -----------------------------
(***************************************************************************)
(* The pages of the admin panel (apps/admin/app/(dashboard)) and what their *)
(* buttons ask of the backend.  All six have one shape: a list from the     *)
(* query cache, filtered and paged by the server; per row the buttons that  *)
(* role and status call for; a dialog, which asks for confirmation or is a  *)
(* form; a mutation, whose success closes the dialog and invalidates the    *)
(* list.  PanelOffers has what the pages differ in.                         *)
(*                                                                         *)
(* A row is its status and one editable text (a name, a plan, a limit).     *)
(* Other administrators change rows behind the list; the role the panel     *)
(* knows is the one of the last login or refresh.  Pages are reached through *)
(* the sidebar, not by typing their address.                                *)
(***************************************************************************)
EXTENDS PanelOffers

CONSTANTS
    Rows,           \* rows of the table of a page
    Loading,        \* a list without data
    Failed,         \* a list that could not be loaded
    MaxMoves        \* bound on requests, failures, moves of others, filters, navigation

ASSUME PanelPagesAssumption == /\ Hits \subseteq Rows /\ IsFiniteSet(Rows)
                               /\ Gone \notin Rows /\ MaxMoves \in Nat

VARIABLES
    page,           \* the page shown
    role, realRole, \* of the administrator: cached by useSession, in the database
    table,          \* rows of the page's table in the database
    filter,         \* [typed, search, select]: the state behind the query key
    list,           \* data of the query: the rows shown as they were, Loading or Failed
    dialog,         \* the open dialog, with the text in its form
    sent,           \* mutations under way
    result,         \* new codes on the screen, shown this once
    moves           \* moves so far

PanelPagesVars == <<page, role, realRole, table, filter, list, dialog, sent, result, moves>>

PageRow(p) == [status : Statuses(p), text : Texts(p)]

ASSUME GoneIsNoRow == \A p \in NavItems("SUPER_ADMIN") : Gone \notin PageRow(p)

AnyText == {Blank, "x", "y"}

NoFilter == [typed |-> FALSE, search |-> FALSE, select |-> FALSE]
NoDialog == [kind |-> "none", row |-> Gone, text |-> Blank, seen |-> Blank, touched |-> FALSE]
HeaderActions == {"generate", "create"}
RowActions == {"detail", "limit", "edit", "renew", "suspend", "reactivate", "revoke", "delete",
               "block", "unblock"}
Mutation == [kind : HeaderActions \cup RowActions, row : Rows \cup {Gone},
             text : AnyText, seen : AnyText, touched : BOOLEAN, answer : {"none", "ok", "refused"}]

\* The items on the screen.
Listed == IF list \in {Loading, Failed} THEN {}
          ELSE {r \in DOMAIN list : FiltersItself(page) => Passes(filter, r, list[r])}

PanelPagesTypeOK ==
    /\ role \in PanelRoles /\ realRole \in PanelRoles /\ page \in NavItems("SUPER_ADMIN")
    /\ \A r \in Rows : table[r] \in PageRow(page) \cup {Gone}
    /\ filter \in [typed : BOOLEAN, search : BOOLEAN, select : BOOLEAN]
    /\ \A r \in Listed : list[r] \in PageRow(page)
    /\ dialog.row \in Rows \cup {Gone}
    /\ \A m \in sent : m \in Mutation
    /\ result \in BOOLEAN /\ moves \in 0..MaxMoves

\* Active rows, told apart by their texts; moves of others and requests change them.
Fill(p) == {[r \in Rows |-> [status |-> "ACTIVE", text |-> IF r \in Hits THEN "x" ELSE other]] :
               other \in Texts(p) \ {"x"}}

PanelPagesInit ==
    /\ role \in PanelRoles /\ realRole = role /\ page \in NavItems(role)
    /\ table \in Fill(page)
    /\ filter = NoFilter /\ list = Loading /\ dialog = NoDialog
    /\ sent = {} /\ result = FALSE /\ moves = 0

Moves == moves < MaxMoves /\ moves' = moves + 1
Covered == dialog # NoDialog \/ result      \* overlays leave nothing else to click

-----------------------------------------------------------------------------
(* Navigation, roles, other administrators. *)

\* The page is unmounted: what it sent goes on, but no dialog waits for it.
Navigate(p) ==
    /\ ~Covered /\ Moves /\ p \in NavItems(role)
    /\ page' = p /\ table' \in Fill(p)
    /\ filter' = NoFilter /\ list' = Loading
    /\ sent' = {}
    /\ UNCHANGED <<role, realRole, dialog, result>>

RoleChanges(r) ==
    /\ Moves /\ realRole' = r
    /\ UNCHANGED <<page, role, table, filter, list, dialog, sent, result>>

\* doRefresh stores the identity the backend sent.
IdentityRefreshed ==
    /\ role' = realRole
    /\ UNCHANGED <<page, realRole, table, filter, list, dialog, sent, result, moves>>

OthersWrite(r) ==
    /\ Moves
    /\ \/ table' = [table EXCEPT ![r] = Gone]
       \/ /\ table[r] # Gone
          /\ \/ \E s \in Statuses(page) : table' = [table EXCEPT ![r].status = s]
             \/ \E text \in Texts(page) : table' = [table EXCEPT ![r].text = text]
    /\ UNCHANGED <<page, role, realRole, filter, list, dialog, sent, result>>

-----------------------------------------------------------------------------
(* The list: filters make the query key, the server filters (and pages: see  *)
(* Paging).                                                                  *)

Matching(f) == {r \in Rows : table[r] # Gone /\ ListedByService(page, f, r, table[r])}

SameKey(f) == FiltersItself(page) \/ (f.search = filter.search /\ f.select = filter.select)

Asks(f) ==
    /\ ~Covered /\ Moves
    /\ filter' = f
    /\ list' = IF SameKey(f) THEN list ELSE Loading
    /\ UNCHANGED <<page, role, realRole, table, dialog, sent, result>>

Select == "select" \in FiltersOf(page) /\ Asks([filter EXCEPT !.select = ~@])
TypeSearch ==
    \/ "typed" \in FiltersOf(page) /\ Asks([filter EXCEPT !.typed = ~@])
    \/ "instant" \in FiltersOf(page) /\ Asks([filter EXCEPT !.typed = ~@, !.search = ~@])
ClearFilters == "clear" \in FiltersOf(page) /\ Asks(NoFilter)

\* 300 ms after the last key the term becomes part of the key.
SearchSettles ==
    /\ filter.typed # filter.search
    /\ filter' = [filter EXCEPT !.search = filter.typed]
    /\ list' = Loading
    /\ UNCHANGED <<page, role, realRole, table, dialog, sent, result, moves>>

\* A first load, or the reload after an invalidation; it replaces what is
\* shown, and so does the error when it fails.  The page of plans knows no error:
\* it keeps the rows it has, and shows none when it has none.
Fetch ==
    /\ list' = [r \in Matching(filter) |-> table[r]]
    /\ UNCHANGED <<page, role, realRole, table, filter, dialog, sent, result, moves>>
FetchFails ==
    /\ list # Failed /\ Moves
    /\ list' = IF page = "planes" /\ list # Loading THEN list ELSE Failed
    /\ UNCHANGED <<page, role, realRole, table, filter, dialog, sent, result>>

-----------------------------------------------------------------------------
(* Dialogs and mutations. *)

Busy(a) == \E m \in sent : m.kind \in BusyWith(page, a)

Opens(a, r, row) ==
    /\ ~Covered
    /\ dialog' = [kind |-> a, row |-> r, touched |-> FALSE,
                  text |-> Seed(page, a, row),
                  seen |-> IF IsForm(a) /\ row # Gone THEN row.text ELSE Blank]
    /\ UNCHANGED <<page, role, realRole, table, filter, list, sent, result, moves>>

OpenHeader(a) == a \in HeaderButtons(page, role) /\ Opens(a, Gone, Gone)
OpenRow(a, r) ==
    /\ r \in Listed
    /\ a \in Buttons(page, role, list[r].status) /\ ~IsDirect(a)
    /\ Opens(a, r, list[r])

MayCancelMutant(a) == TRUE
\* A modal closes at any time, a confirmation not while its answer is awaited.
MayCancel(a) == a \notin Confirms(page) \/ ~Busy(a)

Close ==
    /\ dialog # NoDialog /\ MayCancel(dialog.kind)
    /\ dialog' = NoDialog
    /\ UNCHANGED <<page, role, realRole, table, filter, list, sent, result, moves>>

Type(text) ==
    /\ IsForm(dialog.kind) /\ text \in Texts(page)
    /\ dialog' = [dialog EXCEPT !.text = text, !.touched = TRUE]
    /\ UNCHANGED <<page, role, realRole, table, filter, list, sent, result, moves>>

Posts(a, r, d) ==
    /\ ~Busy(a) /\ Moves
    /\ sent' = sent \cup {[kind |-> a, row |-> r, text |-> d.text, seen |-> d.seen,
                           touched |-> d.touched, answer |-> "none"]}
    /\ UNCHANGED <<page, role, realRole, table, filter, list, dialog, result>>

Submit ==
    /\ dialog # NoDialog /\ dialog.kind # "detail"
    /\ Valid(page, dialog.kind, dialog.text)
    /\ Posts(dialog.kind, dialog.row, dialog)

Reactivate(r) ==
    /\ r \in Listed /\ ~Covered
    /\ "reactivate" \in Buttons(page, role, list[r].status)
    /\ Posts("reactivate", r, NoDialog)

\* The backend: refused by role, state or something the page does not show.
Execute(m) ==
    LET row == IF m.row = Gone THEN Gone ELSE table[m.row]
        ok == Granted(page, realRole, m.kind, IF row = Gone THEN Blank ELSE row.status, m.text)
    IN
    /\ m.answer = "none"
    /\ \/ /\ ok /\ row # Gone
          /\ sent' = (sent \ {m}) \cup {[m EXCEPT !.answer = "ok"]}
          /\ \E s \in StatusAfter(page, m.kind, row.status) :
                table' = [table EXCEPT ![m.row] =
                             IF m.kind = "delete" THEN Gone
                             ELSE [status |-> s,
                                   text |-> IF IsForm(m.kind) THEN m.text ELSE row.text]]
       \/ /\ ok /\ m.row = Gone                         \* a new row, not on this page
          /\ sent' = (sent \ {m}) \cup {[m EXCEPT !.answer = "ok"]}
          /\ UNCHANGED table
       \/ /\ sent' = (sent \ {m}) \cup {[m EXCEPT !.answer = "refused"]}
          /\ UNCHANGED table
    /\ UNCHANGED <<page, role, realRole, filter, list, dialog, result, moves>>

\* onSuccess closes the dialog of this kind, whichever row it is for by now.
Settles(m) ==
    /\ m.answer # "none"
    /\ sent' = sent \ {m}
    /\ IF m.answer = "ok" /\ dialog.kind \in Closes(page, m.kind)
       THEN dialog' = NoDialog ELSE UNCHANGED dialog
    /\ result' = (result \/ (m.answer = "ok" /\ m.kind = "generate"))
    /\ UNCHANGED <<page, role, realRole, table, filter, list, moves>>

CloseResult ==
    /\ result /\ result' = FALSE
    /\ UNCHANGED <<page, role, realRole, table, filter, list, dialog, sent, moves>>

PanelPagesNext ==
    \/ \E p \in NavItems("SUPER_ADMIN") : Navigate(p)
    \/ \E r \in PanelRoles : RoleChanges(r)
    \/ IdentityRefreshed \/ Select \/ TypeSearch \/ ClearFilters \/ SearchSettles
    \/ Fetch \/ FetchFails \/ Close \/ Submit \/ CloseResult
    \/ \E r \in Rows : OthersWrite(r) \/ Reactivate(r)
    \/ \E a \in HeaderActions : OpenHeader(a)
    \/ \E r \in Rows, a \in RowActions : OpenRow(a, r)
    \/ \E text \in AnyText : Type(text)
    \/ \E m \in sent : Execute(m) \/ Settles(m)

-----------------------------------------------------------------------------
(* Properties. *)

\* Two offers the backend always refuses: suspending an EXPIRED code, and a
\* customer "Sin plan", whom the form sends with planId "" (clientes/page.tsx:104).
KnownRefusal(a, s, text) ==
    \/ page = "codigos" /\ a = "suspend" /\ s = "EXPIRED"
    \/ page = "clientes" /\ a \in {"create", "edit"} /\ text = Blank

Accepts(a, s, text) == Granted(page, role, a, s, text) \/ KnownRefusal(a, s, text)

\* Apart from these, whatever a page offers from fresh data to an administrator
\* whose role it knows, on a page of that role, the controllers and services grant.
OfferedIsAllowed ==
    role = realRole /\ page \in NavItems(role) =>
        \A text \in Texts(page) :
            /\ \A a \in HeaderButtons(page, role) : Valid(page, a, text) => Accepts(a, Blank, text)
            /\ \A r \in {q \in Listed : list[q] = table[q]} :
                  \A a \in Buttons(page, role, table[r].status) :
                      Valid(page, a, text) => Accepts(a, table[r].status, text)

\* The answer to a confirmed action finds the dialog it was given in, of the same
\* row: no confirmation of another row is closed, and read as done, by it.  And no
\* batch of codes arrives while the one before is on the screen, its only showing.
AnswersFindTheirDialog ==
    \A m \in sent :
        /\ m.kind \in Confirms(page) => (dialog.kind = m.kind /\ dialog.row = m.row)
        /\ result => m.kind # "generate"

\* A form sends every field, so it can undo what others wrote since the list was
\* read; but to a row nobody else touches it writes only what was typed for that
\* row or what that row showed when the form opened: nothing left over from the
\* row edited before.
EditTouchesItsRow ==
    [][\A r \in Rows :
          \/ page' # page \/ moves' # moves \/ Gone \in {table[r], table'[r]}
          \/ table'[r].text = table[r].text
          \/ \E m \in sent \ sent' : m.row = r /\ (m.touched \/ m.text = m.seen)]_PanelPagesVars
=============================================================================
