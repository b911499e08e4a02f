----------------------------- MODULE PanelOffers -----------------------------
(***************************************************************************)
(* What the six pages of the admin panel offer, and what the backend grants *)
(* of it: the buttons of a row by role and status, the forms with what they *)
(* are filled with, the confirmations, the dialogs an answer closes, the    *)
(* filters; and the roles and refusals of the controllers and services.     *)
(* One operator per part of a page, and one over all pages where PanelPages *)
(* needs it.                                                               *)
(***************************************************************************)
EXTENDS Integers, FiniteSets

CONSTANTS
    Gone,           \* no such row
    Hits            \* the rows a search finds

PanelRoles == {"SUPER_ADMIN", "ADMIN", "OPERATOR"}
Statuses(p) ==
    CASE p = "codigos" -> {"PENDING", "ACTIVE", "EXPIRED", "SUSPENDED", "REVOKED"}
      [] p = "clientes" -> {"ACTIVE", "EXPIRED", "SUSPENDED"}
      [] p = "dispositivos" -> {"ACTIVE", "BLOCKED", "REVOKED"}
      [] p = "sesiones" -> {"ACTIVE", "EXPIRED", "REVOKED"}
      [] OTHER -> {"ACTIVE", "INACTIVE"}
\* An empty field, the value of "Sin plan".
Blank == ""
Texts(p) == IF p = "clientes" THEN {Blank, "x"} ELSE {"x", "y"}

-----------------------------------------------------------------------------
(* What a page offers: the buttons of a row, by role and status shown. *)

canWrite(r) == r \in {"SUPER_ADMIN", "ADMIN"}
isSuper(r) == r = "SUPER_ADMIN"
If(condition, buttons) == IF condition THEN buttons ELSE {}

\* /logs is offered too, but has no page.
NavItems(r) == {"clientes", "codigos", "planes", "dispositivos", "sesiones"}
                   \cup If(isSuper(r), {"usuarios"})

CodeButtonsMutant(r, s) ==
    {"detail"} \cup If(canWrite(r),
        {"limit"} \cup If(s = "SUSPENDED", {"reactivate"})
                  \cup If(s # "SUSPENDED", {"suspend"})
                  \cup If(s # "REVOKED", {"revoke"}))
CodeButtons(r, s) ==
    {"detail"} \cup If(canWrite(r),
        {"limit"} \cup If(s = "SUSPENDED", {"reactivate"})
                  \cup If(s \notin {"SUSPENDED", "REVOKED"}, {"suspend"})
                  \cup If(s # "REVOKED", {"revoke"}))
CustomerButtons(r, s) ==
    {"detail"} \cup If(isSuper(r), {"delete"})
        \cup If(canWrite(r), {"edit", "renew"} \cup
                 (IF s = "SUSPENDED" THEN {"reactivate"} ELSE {"suspend"}))
PlanButtons(r) == If(canWrite(r), {"edit", "delete"})
UserButtons == {"edit"}
DeviceButtons(r, s) ==
    If(canWrite(r), {"delete"} \cup If(s = "BLOCKED", {"unblock"})
        \cup If(s = "ACTIVE", {"block"}) \cup If(s # "REVOKED", {"revoke"}))
SessionButtons(r, s) == If(canWrite(r) /\ s = "ACTIVE", {"revoke"})

Buttons(p, r, s) ==
    CASE p = "codigos" -> CodeButtons(r, s)
      [] p = "clientes" -> CustomerButtons(r, s)
      [] p = "planes" -> PlanButtons(r)
      [] p = "usuarios" -> UserButtons
      [] p = "dispositivos" -> DeviceButtons(r, s)
      [] OTHER -> SessionButtons(r, s)

\* The button over the list.
HeaderButtons(p, r) ==
    CASE p = "codigos" -> If(canWrite(r), {"generate"})
      [] p \in {"clientes", "planes"} -> If(canWrite(r), {"create"})
      [] p = "usuarios" -> {"create"}
      [] OTHER -> {}

-----------------------------------------------------------------------------
(* Forms: what they are filled with when they open, and whether an empty     *)
(* field keeps the submit button disabled.  One field of a row is modelled:  *)
(* a plan, a limit, a name, a role.                                          *)

TextOf(row) == IF row = Gone THEN Blank ELSE row.text
Form(text, needed) == [text |-> text, needed |-> needed]

GenerateForm == Form(Blank, TRUE)
LimitForm(row) == Form(TextOf(row), FALSE)
CustomerForm(row) == Form(TextOf(row), FALSE)
RenewForm(row) == Form(TextOf(row), TRUE)
PlanForm(row) == Form(TextOf(row), TRUE)
CreateUserForm == Form(Blank, TRUE)
EditUserForm(row) == Form(TextOf(row), FALSE)

FormMutant(p, a, row) == Form("x", TRUE)
FormOf(p, a, row) ==
    CASE a = "generate" -> GenerateForm
      [] a = "limit" -> LimitForm(row)
      [] a = "renew" -> RenewForm(row)
      [] a \in {"create", "edit"} /\ p = "clientes" -> CustomerForm(row)
      [] a \in {"create", "edit"} /\ p = "planes" -> PlanForm(row)
      [] a = "create" /\ p = "usuarios" -> CreateUserForm
      [] OTHER -> EditUserForm(row)

IsForm(a) == a \in {"generate", "limit", "create", "edit", "renew"}
Seed(p, a, row) == IF IsForm(a) THEN FormOf(p, a, row).text ELSE Blank
Valid(p, a, text) == IsForm(a) /\ FormOf(p, a, Gone).needed => text # Blank

-----------------------------------------------------------------------------
(* Confirmations.  Reactivation alone acts at once; the others are modals.   *)

CodeConfirms == {"suspend", "revoke"}
CustomerConfirms == {"suspend", "delete"}
PlanConfirms == {"delete"}
DeviceConfirms == {"block", "unblock", "revoke", "delete"}
SessionConfirms == {"revoke"}

Confirms(p) ==
    CASE p = "codigos" -> CodeConfirms
      [] p = "clientes" -> CustomerConfirms
      [] p = "planes" -> PlanConfirms
      [] p = "dispositivos" -> DeviceConfirms
      [] p = "sesiones" -> SessionConfirms
      [] OTHER -> {}
IsDirect(a) == a = "reactivate"

-----------------------------------------------------------------------------
(* The mutations of a page: the dialogs that a success closes.  One form     *)
(* creates and edits customers, and plans.                                   *)

CodeCloses(a) == {a} \ {"reactivate"}
CustomerCloses(a) == IF a \in {"create", "edit"} THEN {"create", "edit"} ELSE {a} \ {"reactivate"}
PlanCloses(a) == IF a \in {"create", "edit"} THEN {"create", "edit"} ELSE {a}
UserCloses(a) == {a}
DeviceCloses(a) == {a}
SessionCloses(a) == {a}

Closes(p, a) ==
    CASE p = "codigos" -> CodeCloses(a)
      [] p = "clientes" -> CustomerCloses(a)
      [] p = "planes" -> PlanCloses(a)
      [] p = "usuarios" -> UserCloses(a)
      [] p = "dispositivos" -> DeviceCloses(a)
      [] OTHER -> SessionCloses(a)

\* The mutations whose isPending disables the button that sends a: a form that
\* creates and edits waits for both.
BusyWith(p, a) ==
    IF p \in {"clientes", "planes"} /\ a \in {"create", "edit"} THEN {"create", "edit"} ELSE {a}

-----------------------------------------------------------------------------
(* Filters: "typed" is searched after 300 ms, "instant" at once; a select (of *)
(* status or plan) works at once; "clear" resets all.                        *)

CodeFilters == {"typed", "select", "clear"}
CustomerFilters == {"typed", "select", "clear"}
DeviceFilters == {"typed", "select", "clear"}
PlanFilters == {"instant", "select"}
SessionFilters == {"select"}

FiltersOf(p) ==
    CASE p = "codigos" -> CodeFilters
      [] p = "clientes" -> CustomerFilters
      [] p = "dispositivos" -> DeviceFilters
      [] p = "planes" -> PlanFilters
      [] p = "sesiones" -> SessionFilters
      [] OTHER -> {}

\* The page of plans has all plans and filters by itself.
FiltersItself(p) == p = "planes"

Passes(f, r, row) == (f.select => row.status = "ACTIVE") /\ (f.search => r \in Hits)

\* What the lists of the services make of the query.
CodesListed(f, r, row) == Passes(f, r, row)
CustomersListed(f, r, row) == Passes(f, r, row)
DevicesListed(f, r, row) == Passes(f, r, row)
SessionsListed(f, r, row) == Passes([f EXCEPT !.search = FALSE], r, row)
PlansListed(f, r, row) == TRUE
UsersListed(f, r, row) == TRUE

ListedByService(p, f, r, row) ==
    CASE p = "codigos" -> CodesListed(f, r, row)
      [] p = "clientes" -> CustomersListed(f, r, row)
      [] p = "dispositivos" -> DevicesListed(f, r, row)
      [] p = "sesiones" -> SessionsListed(f, r, row)
      [] p = "planes" -> PlansListed(f, r, row)
      [] OTHER -> UsersListed(f, r, row)

-----------------------------------------------------------------------------
(* What the backend grants: @Roles of the controllers and the refusals of    *)
(* the services that depend on role, status and text alone.  Others depend   *)
(* on what the page does not show (a plan in use, the last super admin, ...). *)

Satisfies(r, least) == \/ least = "OPERATOR" \/ r = "SUPER_ADMIN"
                       \/ least = "ADMIN" /\ r = "ADMIN"

CodeGrants(r, a, s) ==
    /\ a # "detail" => Satisfies(r, "ADMIN")
    /\ a = "suspend" => s \in {"PENDING", "ACTIVE", "SUSPENDED"}
    /\ a = "reactivate" => s = "SUSPENDED"
CustomerGrants(r, a, text) ==
    /\ a # "detail" => Satisfies(r, IF a = "delete" THEN "SUPER_ADMIN" ELSE "ADMIN")
    /\ a \in {"create", "edit", "renew"} => text # Blank     \* requireActivePlan("")
PlanGrants(r) == Satisfies(r, "ADMIN")
UserGrants(r) == Satisfies(r, "SUPER_ADMIN")
DeviceGrants(r, a, s) == Satisfies(r, "ADMIN") /\ (a = "unblock" => s # "REVOKED")
SessionGrants(r) == Satisfies(r, "ADMIN")

Granted(p, r, a, s, text) ==
    CASE p = "codigos" -> CodeGrants(r, a, s)
      [] p = "clientes" -> CustomerGrants(r, a, text)
      [] p = "planes" -> PlanGrants(r)
      [] p = "usuarios" -> UserGrants(r)
      [] p = "dispositivos" -> DeviceGrants(r, a, s)
      [] OTHER -> SessionGrants(r)

\* The statuses a row may have after a granted request.
StatusAfter(p, a, s) ==
    CASE a = "suspend" -> {"SUSPENDED"}
      [] a = "reactivate" -> IF p = "codigos" THEN {"PENDING", "EXPIRED", "ACTIVE"} ELSE {"ACTIVE"}
      [] a = "revoke" -> IF p = "sesiones" /\ s # "ACTIVE" THEN {s} ELSE {"REVOKED"}
      [] a = "block" -> {"BLOCKED"}
      [] a \in {"unblock", "renew"} -> {"ACTIVE"}
      [] OTHER -> {s}
=============================================================================
