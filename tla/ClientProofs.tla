---------------------------- MODULE ClientProofs ----------------------------
(***************************************************************************)
(* What the admin panel and the app promise, for any number of rows, tabs,  *)
(* channels, filters, films and requests: the parts of Clients, each with a *)
(* specification of its own, and then all of them together.                *)
(***************************************************************************)
EXTENDS Clients, Folding

-----------------------------------------------------------------------------
(* The pages of the panel.  Dialogs and mutations under way are told apart by *)
(* their kind, and there is one of a kind: that is what lets an answer find   *)
(* its dialog.                                                               *)

PanelPagesSpec == PanelPagesInit /\ [][PanelPagesNext]_PanelPagesVars

Pages == NavItems("SUPER_ADMIN")
Dialog == [kind : HeaderActions \cup RowActions \cup {"none"}, row : Rows \cup {Gone},
           text : AnyText, seen : AnyText, touched : BOOLEAN]

\* A button some administrator has on some row of the page.
RowAction(p, a) == \E r \in PanelRoles, s \in Statuses(p) : a \in Buttons(p, r, s)

\* What a dialog, or what it sent, asks of a row: something the page offers, and in
\* a form a text that was typed, or that the row showed.
Fits(p, d) ==
    d.row # Gone =>
        /\ RowAction(p, d.kind)
        /\ IsForm(d.kind) => d.text \in Texts(p) /\ (d.touched \/ d.text = d.seen)

OneOfAKind == \A m, n \in sent : m.kind = n.kind => m = n

PagesInv ==
    /\ PanelPagesTypeOK
    /\ table \in [Rows -> PageRow(page) \cup {Gone}]
    /\ list \notin {Loading, Failed} =>
          DOMAIN list \subseteq Rows /\ \A r \in DOMAIN list : list[r] \in PageRow(page)
    /\ dialog \in Dialog /\ (dialog.kind = "none" => dialog = NoDialog)
    /\ Fits(page, dialog) /\ \A m \in sent : Fits(page, m)
    /\ OneOfAKind
    /\ AnswersFindTheirDialog
    /\ result => dialog.kind # "generate"

\* A granted request leaves a row with a status of its page.
LEMMA StatusesStay ==
    ASSUME NEW p \in Pages, NEW a, RowAction(p, a), NEW s \in Statuses(p)
    PROVE  StatusAfter(p, a, s) \subseteq Statuses(p)
<1>1. PICK r \in PanelRoles, t \in Statuses(p) : a \in Buttons(p, r, t)
  BY DEF RowAction
<1>2. CASE p = "codigos"
  BY <1>1, <1>2 DEF Statuses, StatusAfter, Buttons, CodeButtons, If
<1>3. CASE p = "clientes"
  BY <1>1, <1>3 DEF Statuses, StatusAfter, Buttons, CustomerButtons, If
<1>4. CASE p = "dispositivos"
  BY <1>1, <1>4 DEF Statuses, StatusAfter, Buttons, DeviceButtons, If
<1>5. CASE p = "sesiones"
  BY <1>1, <1>5 DEF Statuses, StatusAfter, Buttons, SessionButtons, If
<1>6. CASE p = "planes"
  BY <1>1, <1>6 DEF Statuses, StatusAfter, Buttons, PlanButtons, If
<1>7. CASE p = "usuarios"
  BY <1>1, <1>7 DEF Statuses, StatusAfter, Buttons, UserButtons, If
<1> QED
  BY <1>2, <1>3, <1>4, <1>5, <1>6, <1>7 DEF Pages, NavItems, If, isSuper

\* A form opened for a row shows what the row shows.
LEMMA FormsShowTheRow ==
    ASSUME NEW p \in Pages, NEW a, RowAction(p, a), IsForm(a), NEW row \in PageRow(p)
    PROVE  Seed(p, a, row) = row.text
<1>1. PICK r \in PanelRoles, t \in Statuses(p) : a \in Buttons(p, r, t)
  BY DEF RowAction
<1>2. a \in {"limit", "edit", "renew"}
  BY <1>1 DEF IsForm, Pages, NavItems, If, isSuper, Buttons, CodeButtons, CustomerButtons,
              PlanButtons, UserButtons, DeviceButtons, SessionButtons
<1>3. row # Gone
  BY GoneIsNoRow DEF Pages
<1> QED
  BY <1>2, <1>3 DEF Seed, FormOf, LimitForm, CustomerForm, RenewForm, PlanForm,
                    EditUserForm, Form, TextOf, IsForm

\* A renewal is not sent without a plan.
LEMMA RenewalsNeedAPlan ==
    ASSUME NEW p, NEW a, NEW text, a = "renew", Valid(p, a, text)
    PROVE  text # Blank
<1>1. FormOf(p, a, Gone).needed /\ IsForm(a)
  BY DEF FormOf, GenerateForm, LimitForm, CustomerForm, RenewForm, PlanForm, CreateUserForm,
         EditUserForm, Form, IsForm
<1> QED
  BY <1>1 DEF Valid

\* Confirmations are neither forms nor direct, and their answers close no other.
LEMMA ConfirmsAreTheirOwn ==
    ASSUME NEW p, NEW a \in Confirms(p), NEW b
    PROVE  /\ a \notin {"none", "generate", "create", "edit", "limit", "renew", "detail"}
           /\ BusyWith(p, a) = {a}
           /\ a \in Closes(p, b) => a = b
BY DEF Confirms, CodeConfirms, CustomerConfirms, PlanConfirms, DeviceConfirms,
       SessionConfirms, BusyWith, Closes, CodeCloses, CustomerCloses, PlanCloses, UserCloses,
       DeviceCloses, SessionCloses

\* Any mutation's answer closes its own dialog, and what it waits for includes itself.
LEMMA KindsKnowThemselves ==
    ASSUME NEW p, NEW a
    PROVE  a \in BusyWith(p, a) /\ (a # "reactivate" => a \in Closes(p, a))
BY DEF BusyWith, Closes, CodeCloses, CustomerCloses, PlanCloses, UserCloses, DeviceCloses,
       SessionCloses

\* Every text is one a dialog can hold; every page shows rows with statuses and texts.
LEMMA TextsAreTexts == \A p : Texts(p) \subseteq AnyText
BY DEF Texts, AnyText

\* No dialog is a dialog that fits every page.
LEMMA NoDialogIsOne ==
    NoDialog \in Dialog /\ NoDialog.kind = "none" /\ NoDialog.row = Gone
<1>1. Blank \in AnyText
  BY DEF AnyText
<1>2. NoDialog \in Dialog
  BY <1>1 DEF NoDialog, Dialog
<1>3. NoDialog.kind = "none" /\ NoDialog.row = Gone
  BY DEF NoDialog
<1> QED
  BY <1>2, <1>3

\* The initial states are ordinary ones.
LEMMA PagesStart == PanelPagesInit => PagesInv
<1> SUFFICES ASSUME PanelPagesInit
             PROVE  PagesInv
  OBVIOUS
<1> USE PanelPagesAssumption DEF PanelPagesInit
<1>1. page \in Pages
  BY DEF Pages, NavItems, If, isSuper
<1>2. "ACTIVE" \in Statuses(page) /\ "x" \in Texts(page)
  BY DEF Statuses, Texts
<1>3. table \in [Rows -> PageRow(page)]
  <2>1. PICK other \in Texts(page) \ {"x"} :
           table = [r \in Rows |-> [status |-> "ACTIVE", text |-> IF r \in Hits THEN "x" ELSE other]]
    BY DEF Fill
  <2> QED
    BY <1>2, <2>1 DEF PageRow
<1>4. dialog \in Dialog /\ dialog.row = Gone /\ dialog.kind = "none"
  BY NoDialogIsOne
<1>5. Listed = {}
  BY DEF Listed
<1>6. PanelPagesTypeOK
  <2>1. filter \in [typed : BOOLEAN, search : BOOLEAN, select : BOOLEAN]
    BY DEF NoFilter
  <2>2. moves \in 0..MaxMoves /\ dialog.row \in Rows \cup {Gone}
    BY <1>4
  <2> QED
    BY <1>1, <1>3, <1>5, <2>1, <2>2 DEF PanelPagesTypeOK, Pages
<1> QED
  BY <1>3, <1>4, <1>6 DEF PagesInv, Fits, OneOfAKind, AnswersFindTheirDialog

\* A step that leaves the rows, the dialog, the mutations and the new codes alone, and
\* lists rows of the page, keeps the invariant.
LEMMA ListsMove ==
    ASSUME PagesInv, UNCHANGED <<page, dialog, sent, result>>,
           role' \in PanelRoles, realRole' \in PanelRoles,
           table' \in [Rows -> PageRow(page) \cup {Gone}],
           filter' \in [typed : BOOLEAN, search : BOOLEAN, select : BOOLEAN],
           list' \notin {Loading, Failed} =>
              DOMAIN list' \subseteq Rows /\ \A r \in DOMAIN list' : list'[r] \in PageRow(page),
           moves' \in 0..MaxMoves
    PROVE  PagesInv'
<1>1. PanelPagesTypeOK'
  <2>1. \A r \in Listed' : list'[r] \in PageRow(page)
    BY DEF Listed
  <2>2. \A m \in sent' : m \in Mutation
    BY DEF PagesInv, PanelPagesTypeOK
  <2> QED
    BY <2>1, <2>2 DEF PagesInv, PanelPagesTypeOK
<1>2. (dialog \in Dialog)' /\ Fits(page, dialog)' /\ (\A m \in sent : Fits(page, m))'
  BY DEF PagesInv, Fits
<1>3. OneOfAKind' /\ AnswersFindTheirDialog'
  BY DEF PagesInv, OneOfAKind, AnswersFindTheirDialog
<1> QED
  BY <1>1, <1>2, <1>3 DEF PagesInv

\* A step of the dialog alone: the dialog opened fits the page, and the answers awaited
\* still find theirs.
LEMMA DialogMoves ==
    ASSUME PagesInv, UNCHANGED <<page, role, realRole, table, filter, list, sent, result, moves>>,
           dialog' \in Dialog, dialog'.kind = "none" => dialog' = NoDialog, Fits(page, dialog)',
           AnswersFindTheirDialog', result' => dialog'.kind # "generate"
    PROVE  PagesInv'
<1>1. PanelPagesTypeOK'
  <2>1. Listed' = Listed
    BY DEF Listed
  <2>2. dialog'.row \in Rows \cup {Gone}
    BY DEF Dialog
  <2> QED
    BY <2>1, <2>2 DEF PagesInv, PanelPagesTypeOK
<1>2. OneOfAKind' /\ (\A m \in sent : Fits(page, m))'
  BY DEF PagesInv, OneOfAKind, Fits
<1> QED
  BY <1>1, <1>2 DEF PagesInv

\* What a page sends was asked for on it, and waits for an answer as the only one of
\* its kind.
LEMMA MutationsAreSent ==
    ASSUME PagesInv, NEW a \in HeaderActions \cup RowActions, NEW r \in Rows \cup {Gone}, NEW d \in Dialog,
           Posts(a, r, d),
           a \in Confirms(page) => dialog.kind = a /\ dialog.row = r,
           result => a # "generate",
           r # Gone => /\ RowAction(page, a)
                       /\ IsForm(a) => d.text \in Texts(page) /\ (d.touched \/ d.text = d.seen)
    PROVE  PagesInv'
<1> DEFINE new == [kind |-> a, row |-> r, text |-> d.text, seen |-> d.seen,
                   touched |-> d.touched, answer |-> "none"]
<1>1. /\ sent' = sent \cup {new} /\ moves' = moves + 1 /\ moves < MaxMoves
      /\ UNCHANGED <<page, role, realRole, table, filter, list, dialog, result>>
      /\ \A m \in sent : m.kind # a
  BY KindsKnowThemselves DEF Posts, Moves, Busy
<1>2. new \in Mutation /\ new.kind = a /\ new.row = r
  BY DEF Mutation, Dialog
<1>3. Fits(page, new)
  BY DEF Fits
<1> HIDE DEF new
<1>4. PanelPagesTypeOK'
  <2>1. Listed' = Listed
    BY <1>1 DEF Listed
  <2>2. moves' \in 0..MaxMoves
    BY <1>1, PanelPagesAssumption DEF PagesInv, PanelPagesTypeOK
  <2>3. \A m \in sent' : m \in Mutation
    BY <1>1, <1>2 DEF PagesInv, PanelPagesTypeOK
  <2> QED
    BY <1>1, <2>1, <2>2, <2>3 DEF PagesInv, PanelPagesTypeOK
<1>5. (\A m \in sent : Fits(page, m))' /\ Fits(page, dialog)'
  BY <1>1, <1>3 DEF PagesInv, Fits
<1>6. OneOfAKind' /\ AnswersFindTheirDialog'
  BY <1>1, <1>2 DEF PagesInv, OneOfAKind, AnswersFindTheirDialog
<1> QED
  BY <1>1, <1>4, <1>5, <1>6 DEF PagesInv

\* The answer takes the place of the question, and a row gets what its page can show.
LEMMA MutationsAreAnswered ==
    ASSUME PagesInv, NEW m \in sent, Execute(m)
    PROVE  PagesInv'
<1>0. /\ PanelPagesTypeOK /\ m \in Mutation /\ m.answer = "none" /\ page \in Pages
      /\ Fits(page, m) /\ table \in [Rows -> PageRow(page) \cup {Gone}]
      /\ UNCHANGED <<page, role, realRole, filter, list, dialog, result, moves>>
  BY DEF PagesInv, PanelPagesTypeOK, Execute, Pages
<1>1. PICK answer \in {"ok", "refused"} : sent' = (sent \ {m}) \cup {[m EXCEPT !.answer = answer]}
  BY DEF Execute
<1> DEFINE n == [m EXCEPT !.answer = answer]
<1>2. n \in Mutation /\ n.kind = m.kind /\ n.row = m.row /\ n.text = m.text /\ n.seen = m.seen
        /\ n.touched = m.touched
  BY <1>0 DEF Mutation
<1>3. sent' = (sent \ {m}) \cup {n}
  BY <1>1
<1> HIDE DEF n
<1>4. table' \in [Rows -> PageRow(page) \cup {Gone}]
  <2>1. CASE UNCHANGED table
    BY <1>0, <2>1
  <2>2. CASE ~UNCHANGED table
    <3> DEFINE row == table[m.row]
    <3>1. /\ m.row # Gone /\ row # Gone
          /\ \E s \in StatusAfter(page, m.kind, row.status) :
                table' = [table EXCEPT ![m.row] =
                             IF m.kind = "delete" THEN Gone
                             ELSE [status |-> s,
                                   text |-> IF IsForm(m.kind) THEN m.text ELSE row.text]]
      BY <2>2 DEF Execute
    <3>2. m.row \in Rows /\ row \in PageRow(page) /\ row.status \in Statuses(page)
          /\ row.text \in Texts(page)
      BY <1>0, <3>1 DEF Mutation, PageRow
    <3>3. StatusAfter(page, m.kind, row.status) \subseteq Statuses(page)
      BY <1>0, <3>1, <3>2, StatusesStay DEF Fits
    <3>4. IsForm(m.kind) => m.text \in Texts(page)
      BY <1>0, <3>1 DEF Fits
    <3> HIDE DEF row
    <3> DEFINE text == IF IsForm(m.kind) THEN m.text ELSE row.text
    <3>5. PICK s \in Statuses(page) :
              table' = [table EXCEPT ![m.row] = IF m.kind = "delete" THEN Gone
                                                ELSE [status |-> s, text |-> text]]
      BY <3>1, <3>3
    <3>6. text \in Texts(page)
      BY <3>2, <3>4
    <3> HIDE DEF text
    <3>7. [status |-> s, text |-> text] \in PageRow(page)
      BY <3>6 DEF PageRow
    <3> QED
      BY <1>0, <3>2, <3>5, <3>7
  <2> QED
    BY <2>1, <2>2
<1>5. PanelPagesTypeOK'
  <2>1. Listed' = Listed
    BY <1>0 DEF Listed
  <2>2. \A x \in sent' : x \in Mutation
    BY <1>0, <1>2, <1>3 DEF PanelPagesTypeOK
  <2>3. \A r \in Rows : table'[r] \in PageRow(page) \cup {Gone}
    BY <1>4
  <2> QED
    BY <1>0, <2>1, <2>2, <2>3 DEF PanelPagesTypeOK
<1>6. (\A x \in sent : Fits(page, x))' /\ Fits(page, dialog)'
  BY <1>0, <1>2, <1>3 DEF PagesInv, Fits
<1>7. OneOfAKind' /\ AnswersFindTheirDialog'
  BY <1>0, <1>2, <1>3 DEF PagesInv, OneOfAKind, AnswersFindTheirDialog
<1> QED
  BY <1>0, <1>4, <1>5, <1>6, <1>7 DEF PagesInv

\* An answer that is read closes its own dialog, or one that creates where it edited,
\* and no confirmation of something else.
LEMMA AnswersAreRead ==
    ASSUME PagesInv, NEW m \in sent, Settles(m)
    PROVE  PagesInv'
<1>0. /\ PanelPagesTypeOK /\ m \in Mutation /\ m.answer # "none" /\ sent' = sent \ {m}
      /\ UNCHANGED <<page, role, realRole, table, filter, list, moves>>
      /\ dialog' = IF m.answer = "ok" /\ dialog.kind \in Closes(page, m.kind) THEN NoDialog
                   ELSE dialog
      /\ result' = (result \/ (m.answer = "ok" /\ m.kind = "generate"))
  BY DEF PagesInv, PanelPagesTypeOK, Settles
<1>1. NoDialog \in Dialog /\ NoDialog.kind = "none" /\ NoDialog.row = Gone
  BY NoDialogIsOne
<1>2. dialog' \in Dialog /\ Fits(page, dialog)'
  BY <1>0, <1>1 DEF PagesInv, Fits
<1>3. OneOfAKind' /\ (\A x \in sent : Fits(page, x))'
  BY <1>0 DEF PagesInv, OneOfAKind, Fits
<1>4. AnswersFindTheirDialog'
  <2> SUFFICES ASSUME NEW x \in sent'
               PROVE  /\ x.kind \in Confirms(page) => dialog'.kind = x.kind /\ dialog'.row = x.row
                      /\ result' => x.kind # "generate"
    BY <1>0 DEF AnswersFindTheirDialog
  <2>1. x \in sent /\ x.kind # m.kind
    BY <1>0 DEF PagesInv, OneOfAKind
  <2>2. ASSUME x.kind \in Confirms(page)
        PROVE  dialog' = dialog
    <3>1. dialog.kind = x.kind
      BY <2>1, <2>2 DEF PagesInv, AnswersFindTheirDialog
    <3>2. x.kind \notin Closes(page, m.kind)
      BY <2>1, <2>2, ConfirmsAreTheirOwn
    <3> QED
      BY <1>0, <3>1, <3>2
  <2> QED
    BY <1>0, <2>1, <2>2 DEF PagesInv, AnswersFindTheirDialog
<1>5. result' => dialog'.kind # "generate"
  <2>1. m.kind = "generate" => m.kind \in Closes(page, m.kind)
    BY KindsKnowThemselves
  <2> QED
    BY <1>0, <1>1, <2>1 DEF PagesInv
<1>6. PanelPagesTypeOK'
  <2>1. Listed' = Listed
    BY <1>0 DEF Listed
  <2>2. dialog'.row \in Rows \cup {Gone} /\ result' \in BOOLEAN
    BY <1>0, <1>1 DEF PanelPagesTypeOK
  <2> QED
    BY <1>0, <2>1, <2>2 DEF PanelPagesTypeOK
<1> QED
  BY <1>0, <1>2, <1>3, <1>4, <1>5, <1>6 DEF PagesInv

\* A dialog opens where none is: no confirmation awaits an answer, and no codes are shown.
LEMMA DialogsOpen ==
    ASSUME PagesInv, NEW a \in HeaderActions \cup RowActions, NEW r \in Rows \cup {Gone}, NEW row,
           Opens(a, r, row),
           r = Gone => row = Gone,
           r # Gone => RowAction(page, a) /\ row \in PageRow(page)
    PROVE  PagesInv'
<1>0. page \in Pages /\ ~result /\ dialog = NoDialog
      /\ UNCHANGED <<page, role, realRole, table, filter, list, sent, result, moves>>
  BY DEF PagesInv, PanelPagesTypeOK, Pages, Opens, Covered
<1> DEFINE text == Seed(page, a, row)
           seen == IF IsForm(a) /\ row # Gone THEN row.text ELSE Blank
<1>1. dialog' = [kind |-> a, row |-> r, touched |-> FALSE, text |-> text, seen |-> seen]
  BY DEF Opens
<1>2. Blank \in AnyText
  BY DEF AnyText
<1>3. /\ text \in AnyText /\ seen \in AnyText
      /\ r # Gone /\ IsForm(a) => text \in Texts(page) /\ text = seen
  <2>1. CASE r = Gone
    <3>1. seen = Blank /\ text = Blank
      BY <2>1 DEF Seed, FormOf, GenerateForm, LimitForm, CustomerForm, RenewForm, PlanForm,
                  CreateUserForm, EditUserForm, Form, TextOf
    <3> QED
      BY <1>2, <2>1, <3>1
  <2>2. CASE r # Gone
    <3>1. row # Gone /\ row.text \in Texts(page)
      BY <1>0, <2>2, GoneIsNoRow DEF Pages, PageRow
    <3>2. IsForm(a) => text = row.text /\ seen = row.text
      BY <1>0, <2>2, <3>1, FormsShowTheRow
    <3>3. ~IsForm(a) => text = Blank /\ seen = Blank
      BY DEF Seed
    <3> HIDE DEF text, seen
    <3> QED
      BY <1>2, <3>1, <3>2, <3>3, TextsAreTexts
  <2> QED
    BY <2>1, <2>2
<1> HIDE DEF text, seen
<1>4. dialog' \in Dialog /\ dialog'.kind = a /\ dialog'.row = r /\ dialog'.text = text
      /\ dialog'.seen = seen
  BY <1>1, <1>3 DEF Dialog
<1>5. Fits(page, dialog)'
  BY <1>0, <1>3, <1>4 DEF Fits
<1>6. AnswersFindTheirDialog'
  <2>1. \A m \in sent : m.kind \notin Confirms(page)
    BY <1>0, NoDialogIsOne, ConfirmsAreTheirOwn DEF PagesInv, AnswersFindTheirDialog
  <2> QED
    BY <1>0, <2>1 DEF AnswersFindTheirDialog
<1>7. a # "none"
  BY DEF HeaderActions, RowActions
<1> QED
  BY <1>0, <1>4, <1>5, <1>6, <1>7, DialogMoves

\* A dialog is closed by hand only while nothing is awaited in it that was confirmed.
LEMMA DialogsClose ==
    ASSUME PagesInv, Close
    PROVE  PagesInv'
<1>0. /\ dialog' = NoDialog /\ MayCancel(dialog.kind)
      /\ UNCHANGED <<page, role, realRole, table, filter, list, sent, result, moves>>
  BY DEF Close
<1>1. \A m \in sent : m.kind \notin Confirms(page)
  <2> SUFFICES ASSUME NEW m \in sent, m.kind \in Confirms(page)
               PROVE  FALSE
    OBVIOUS
  <2>1. dialog.kind = m.kind
    BY DEF PagesInv, AnswersFindTheirDialog
  <2>2. ~Busy(m.kind)
    BY <1>0, <2>1 DEF MayCancel
  <2> QED
    BY <2>2, KindsKnowThemselves DEF Busy
<1>2. AnswersFindTheirDialog'
  BY <1>0, <1>1 DEF PagesInv, AnswersFindTheirDialog
<1>3. dialog' \in Dialog /\ Fits(page, dialog)' /\ dialog'.kind # "generate"
  BY <1>0, NoDialogIsOne DEF Fits
<1> QED
  BY <1>0, <1>2, <1>3, DialogMoves

\* Typing changes the text of a form.
LEMMA FormsAreFilled ==
    ASSUME PagesInv, NEW text, Type(text)
    PROVE  PagesInv'
<1>0. /\ IsForm(dialog.kind) /\ text \in Texts(page)
      /\ UNCHANGED <<page, role, realRole, table, filter, list, sent, result, moves>>
      /\ dialog' = [dialog EXCEPT !.text = text, !.touched = TRUE]
      /\ dialog \in Dialog /\ text \in AnyText
  BY TextsAreTexts DEF Type, PagesInv
<1>1. dialog' \in Dialog /\ dialog'.kind = dialog.kind /\ dialog'.row = dialog.row
      /\ dialog'.text = text /\ dialog'.touched = TRUE
  BY <1>0 DEF Dialog
<1>2. /\ Fits(page, dialog)' /\ dialog'.kind # "none"
      /\ result' => dialog'.kind # "generate"
  BY <1>0, <1>1 DEF PagesInv, Fits, IsForm
<1>3. AnswersFindTheirDialog'
  BY <1>0, <1>1 DEF PagesInv, AnswersFindTheirDialog
<1> QED
  BY <1>0, <1>1, <1>2, <1>3, DialogMoves

\* What is on the screen are rows of the page.
LEMMA ListedAreRows ==
    ASSUME PagesInv, NEW r \in Listed
    PROVE  r \in Rows /\ list[r] \in PageRow(page) /\ list[r].status \in Statuses(page)
<1>1. r \in Rows /\ list[r] \in PageRow(page)
  BY DEF Listed, PagesInv
<1> QED
  BY <1>1 DEF PageRow

\* Another page starts without a dialog, a list or anything awaited.
LEMMA PagesAreLeft ==
    ASSUME PagesInv, NEW p \in Pages, Navigate(p)
    PROVE  PagesInv'
<1>0. /\ page' = p /\ table' \in Fill(p) /\ filter' = NoFilter /\ list' = Loading /\ sent' = {}
      /\ UNCHANGED <<role, realRole, dialog, result>> /\ dialog = NoDialog /\ ~result
      /\ moves < MaxMoves /\ moves' = moves + 1
  BY DEF Navigate, Moves, Covered
<1>1. "ACTIVE" \in Statuses(p) /\ "x" \in Texts(p)
  BY DEF Statuses, Texts
<1>2. table' \in [Rows -> PageRow(p)]
  <2>1. PICK other \in Texts(p) \ {"x"} :
           table' = [r \in Rows |-> [status |-> "ACTIVE",
                                     text |-> IF r \in Hits THEN "x" ELSE other]]
    BY <1>0 DEF Fill
  <2> QED
    BY <1>1, <2>1 DEF PageRow
<1>3. PanelPagesTypeOK'
  <2>1. filter' \in [typed : BOOLEAN, search : BOOLEAN, select : BOOLEAN] /\ Listed' = {}
    BY <1>0 DEF NoFilter, Listed
  <2>2. moves' \in 0..MaxMoves
    BY <1>0, PanelPagesAssumption DEF PagesInv, PanelPagesTypeOK
  <2> QED
    BY <1>0, <1>2, <2>1, <2>2, NoDialogIsOne DEF PagesInv, PanelPagesTypeOK, Pages
<1> QED
  BY <1>0, <1>2, <1>3, NoDialogIsOne
     DEF PagesInv, Fits, OneOfAKind, AnswersFindTheirDialog

\* What other administrators do to a row leaves a row of the page, or none.
LEMMA OthersWriteRows ==
    ASSUME PagesInv, NEW r \in Rows, OthersWrite(r)
    PROVE  PagesInv'
<1>0. table \in [Rows -> PageRow(page) \cup {Gone}]
  BY DEF PagesInv
<1>1. table' \in [Rows -> PageRow(page) \cup {Gone}]
  <2>1. CASE table' = [table EXCEPT ![r] = Gone]
    BY <1>0, <2>1
  <2>2. ASSUME table[r] # Gone, NEW s \in Statuses(page), table' = [table EXCEPT ![r].status = s]
        PROVE  table' \in [Rows -> PageRow(page) \cup {Gone}]
    <3> DEFINE row == [table[r] EXCEPT !.status = s]
    <3>1. row \in PageRow(page)
      BY <1>0, <2>2 DEF PageRow
    <3>2. table' = [table EXCEPT ![r] = row]
      BY <2>2
    <3> HIDE DEF row
    <3> QED
      BY <1>0, <3>1, <3>2
  <2>3. ASSUME table[r] # Gone, NEW text \in Texts(page), table' = [table EXCEPT ![r].text = text]
        PROVE  table' \in [Rows -> PageRow(page) \cup {Gone}]
    <3> DEFINE row == [table[r] EXCEPT !.text = text]
    <3>1. row \in PageRow(page)
      BY <1>0, <2>3 DEF PageRow
    <3>2. table' = [table EXCEPT ![r] = row]
      BY <2>3
    <3> HIDE DEF row
    <3> QED
      BY <1>0, <3>1, <3>2
  <2> QED
    BY <2>1, <2>2, <2>3 DEF OthersWrite
<1>2. moves' \in 0..MaxMoves
  BY PanelPagesAssumption DEF OthersWrite, Moves, PagesInv, PanelPagesTypeOK
<1>3. role' \in PanelRoles /\ realRole' \in PanelRoles
      /\ filter' \in [typed : BOOLEAN, search : BOOLEAN, select : BOOLEAN]
      /\ UNCHANGED <<page, dialog, sent, result, list>>
  BY DEF OthersWrite, PagesInv, PanelPagesTypeOK
<1> QED
  BY <1>1, <1>2, <1>3, ListsMove DEF PagesInv

\* Roles, filters and what the queries answer.
LEMMA ListsChange ==
    ASSUME PagesInv,
           \/ \E r \in PanelRoles : RoleChanges(r)
           \/ IdentityRefreshed \/ Select \/ TypeSearch \/ ClearFilters \/ SearchSettles
           \/ Fetch \/ FetchFails
    PROVE  PagesInv'
<1>0. /\ role \in PanelRoles /\ realRole \in PanelRoles
      /\ filter \in [typed : BOOLEAN, search : BOOLEAN, select : BOOLEAN]
      /\ table \in [Rows -> PageRow(page) \cup {Gone}] /\ moves \in 0..MaxMoves
      /\ list \notin {Loading, Failed} =>
            DOMAIN list \subseteq Rows /\ \A r \in DOMAIN list : list[r] \in PageRow(page)
  BY DEF PagesInv, PanelPagesTypeOK
<1>1. Moves => moves' \in 0..MaxMoves
  BY <1>0, PanelPagesAssumption DEF Moves
<1>2. ASSUME NEW f \in [typed : BOOLEAN, search : BOOLEAN, select : BOOLEAN], Asks(f)
      PROVE  PagesInv'
  <2>1. /\ UNCHANGED <<page, dialog, sent, result, role, realRole, table>> /\ filter' = f
        /\ list' \in {list, Loading} /\ Moves
    BY <1>2 DEF Asks
  <2> QED
    BY <1>0, <1>1, <2>1, ListsMove
<1>3. CASE Select
  <2>1. [filter EXCEPT !.select = ~@] \in [typed : BOOLEAN, search : BOOLEAN, select : BOOLEAN]
    BY <1>0
  <2> QED
    BY <1>2, <1>3, <2>1 DEF Select
<1>4. CASE TypeSearch
  <2>1. [filter EXCEPT !.typed = ~@] \in [typed : BOOLEAN, search : BOOLEAN, select : BOOLEAN]
    BY <1>0
  <2>2. [filter EXCEPT !.typed = ~@, !.search = ~@]
            \in [typed : BOOLEAN, search : BOOLEAN, select : BOOLEAN]
    BY <1>0
  <2> QED
    BY <1>2, <1>4, <2>1, <2>2 DEF TypeSearch
<1>5. CASE ClearFilters
  <2>1. NoFilter \in [typed : BOOLEAN, search : BOOLEAN, select : BOOLEAN]
    BY DEF NoFilter
  <2> QED
    BY <1>2, <1>5, <2>1 DEF ClearFilters
<1>6. CASE SearchSettles
  <2>1. [filter EXCEPT !.search = filter.typed]
            \in [typed : BOOLEAN, search : BOOLEAN, select : BOOLEAN]
    BY <1>0
  <2> QED
    BY <1>0, <1>6, <2>1, ListsMove DEF SearchSettles
<1>7. CASE Fetch
  <2>1. list' = [r \in Matching(filter) |-> table[r]]
        /\ UNCHANGED <<page, role, realRole, table, filter, dialog, sent, result, moves>>
    BY <1>7 DEF Fetch
  <2>2. Matching(filter) \subseteq Rows /\ \A r \in Matching(filter) : table[r] \in PageRow(page)
    BY <1>0 DEF Matching
  <2> QED
    BY <1>0, <2>1, <2>2, ListsMove
<1>8. CASE FetchFails
  <2>1. /\ list' \in {list, Failed} /\ Moves
        /\ UNCHANGED <<page, role, realRole, table, filter, dialog, sent, result>>
    BY <1>8 DEF FetchFails
  <2> QED
    BY <1>0, <1>1, <2>1, ListsMove
<1>9. CASE IdentityRefreshed
  BY <1>0, <1>9, ListsMove DEF IdentityRefreshed
<1>10. CASE \E r \in PanelRoles : RoleChanges(r)
  BY <1>0, <1>1, <1>10, ListsMove DEF RoleChanges
<1> QED
  BY <1>3, <1>4, <1>5, <1>6, <1>7, <1>8, <1>9, <1>10

\* The invariant is inductive.
LEMMA PagesInductive == PagesInv /\ [PanelPagesNext]_PanelPagesVars => PagesInv'
<1> SUFFICES ASSUME PagesInv, [PanelPagesNext]_PanelPagesVars
             PROVE  PagesInv'
  OBVIOUS
<1>1. ASSUME NEW p \in Pages, Navigate(p)
      PROVE  PagesInv'
  BY <1>1, PagesAreLeft
<1>2. CASE \/ \E r \in PanelRoles : RoleChanges(r)
           \/ IdentityRefreshed \/ Select \/ TypeSearch \/ ClearFilters \/ SearchSettles
           \/ Fetch \/ FetchFails
  BY <1>2, ListsChange
<1>3. CASE Close
  BY <1>3, DialogsClose
<1>4. CASE Submit
  <2>1. /\ dialog \in Dialog /\ dialog.kind # "none" /\ dialog.row \in Rows \cup {Gone}
        /\ Fits(page, dialog) /\ Posts(dialog.kind, dialog.row, dialog)
        /\ result => dialog.kind # "generate"
    BY <1>4 DEF PagesInv, Submit, Dialog
  <2>2. dialog.kind \in HeaderActions \cup RowActions
    BY <2>1 DEF Dialog
  <2> QED
    BY <2>1, <2>2, MutationsAreSent DEF Fits
<1>5. CASE CloseResult
  <2>1. result' = FALSE
        /\ UNCHANGED <<page, role, realRole, table, filter, list, dialog, sent, moves>>
    BY <1>5 DEF CloseResult
  <2>2. Listed' = Listed
    BY <2>1 DEF Listed
  <2>3. PanelPagesTypeOK'
    BY <2>1, <2>2 DEF PagesInv, PanelPagesTypeOK
  <2> QED
    BY <2>1, <2>3 DEF PagesInv, Fits, OneOfAKind, AnswersFindTheirDialog
<1>6. ASSUME NEW r \in Rows, OthersWrite(r)
      PROVE  PagesInv'
  BY <1>6, OthersWriteRows
<1>7. ASSUME NEW r \in Rows, Reactivate(r)
      PROVE  PagesInv'
  <2>1. /\ r \in Listed /\ "reactivate" \in Buttons(page, role, list[r].status)
        /\ Posts("reactivate", r, NoDialog)
    BY <1>7 DEF Reactivate
  <2>2. RowAction(page, "reactivate")
    BY <2>1, ListedAreRows DEF RowAction, PagesInv, PanelPagesTypeOK
  <2>3. "reactivate" \in HeaderActions \cup RowActions /\ ~IsForm("reactivate")
        /\ "reactivate" \notin Confirms(page)
    BY DEF RowActions, IsForm, Confirms, CodeConfirms, CustomerConfirms, PlanConfirms,
           DeviceConfirms, SessionConfirms
  <2> QED
    BY <2>1, <2>2, <2>3, NoDialogIsOne, MutationsAreSent
<1>8. ASSUME NEW a \in HeaderActions, OpenHeader(a)
      PROVE  PagesInv'
  BY <1>8, DialogsOpen DEF OpenHeader
<1>9. ASSUME NEW r \in Rows, NEW a \in RowActions, OpenRow(a, r)
      PROVE  PagesInv'
  <2>1. r \in Listed /\ a \in Buttons(page, role, list[r].status) /\ Opens(a, r, list[r])
    BY <1>9 DEF OpenRow
  <2>2. RowAction(page, a) /\ list[r] \in PageRow(page) /\ r # Gone
    BY <2>1, ListedAreRows, PanelPagesAssumption DEF RowAction, PagesInv, PanelPagesTypeOK
  <2> QED
    BY <2>1, <2>2, DialogsOpen
<1>10. ASSUME NEW text \in AnyText, Type(text)
       PROVE  PagesInv'
  BY <1>10, FormsAreFilled
<1>11. ASSUME NEW m \in sent, Execute(m) \/ Settles(m)
       PROVE  PagesInv'
  BY <1>11, MutationsAreAnswered, AnswersAreRead
<1>12. CASE UNCHANGED PanelPagesVars
  <2>1. Listed' = Listed
    BY <1>12 DEF PanelPagesVars, Listed
  <2>2. PanelPagesTypeOK'
    BY <1>12, <2>1 DEF PanelPagesVars, PagesInv, PanelPagesTypeOK
  <2> QED
    BY <1>12, <2>2 DEF PanelPagesVars, PagesInv, Fits, OneOfAKind, AnswersFindTheirDialog
<1> QED
  BY <1>1, <1>2, <1>3, <1>4, <1>5, <1>6, <1>7, <1>8, <1>9, <1>10, <1>11, <1>12
     DEF PanelPagesNext, Pages

\* A page's behaviour keeps the invariant.
LEMMA PagesAlways == PanelPagesSpec => []PagesInv
BY PagesStart, PagesInductive, PTL DEF PanelPagesSpec

\* On every page of the panel, for any rows and any number of requests under way: the
\* answer to a confirmation finds it open, for the row it was given for, and new codes
\* are not overtaken by the next ones before they were read.
THEOREM AnswersComeHome == PanelPagesSpec => []AnswersFindTheirDialog
<1>1. PagesInv => AnswersFindTheirDialog
  BY DEF PagesInv
<1> QED
  BY <1>1, PagesAlways, PTL

\* Every page offers what the backend grants, but for the two known refusals: the rows
\* it shows, whatever others did to them, are rows of its table.
THEOREM OffersAreGranted == PanelPagesSpec => []OfferedIsAllowed
<1>1. ASSUME PagesInv
      PROVE  OfferedIsAllowed
  <2> SUFFICES ASSUME role = realRole, page \in NavItems(role), NEW text \in Texts(page)
               PROVE  /\ \A a \in HeaderButtons(page, role) :
                             Valid(page, a, text) => Accepts(a, Blank, text)
                      /\ \A r \in {q \in Listed : list[q] = table[q]} :
                             \A a \in Buttons(page, role, table[r].status) :
                                Valid(page, a, text) => Accepts(a, table[r].status, text)
    BY DEF OfferedIsAllowed
  <2>0. role \in PanelRoles /\ page \in Pages
    BY <1>1 DEF PagesInv, PanelPagesTypeOK, Pages
  <2>1. ASSUME NEW a \in HeaderButtons(page, role)
        PROVE  Accepts(a, Blank, text)
    BY <2>0, <2>1 DEF HeaderButtons, Accepts, Granted, KnownRefusal, CodeGrants, CustomerGrants,
              PlanGrants, UserGrants, Satisfies, NavItems, If, canWrite, isSuper, PanelRoles
  <2>2. ASSUME NEW s \in Statuses(page), NEW a \in Buttons(page, role, s), Valid(page, a, text)
        PROVE  Accepts(a, s, text)
    <3> USE <2>2 DEF Accepts, Granted, KnownRefusal, Satisfies, Buttons, If, canWrite, isSuper,
                     Statuses, PanelRoles
    <3>1. CASE page = "codigos"
      BY <2>0, <3>1 DEF CodeButtons, CodeGrants
    <3>2. CASE page = "clientes"
      <4>1. a = "renew" => text # Blank
        BY <2>2, RenewalsNeedAPlan
      <4> QED
        BY <2>0, <3>2, <4>1 DEF CustomerButtons, CustomerGrants
    <3>3. CASE page = "planes"
      BY <2>0, <3>3 DEF PlanButtons, PlanGrants
    <3>4. CASE page = "usuarios"
      BY <2>0, <3>4 DEF UserGrants, NavItems
    <3>5. CASE page = "dispositivos"
      BY <2>0, <3>5 DEF DeviceButtons, DeviceGrants
    <3>6. CASE page = "sesiones"
      BY <2>0, <3>6 DEF SessionButtons, SessionGrants
    <3> QED
      BY <2>0, <3>1, <3>2, <3>3, <3>4, <3>5, <3>6 DEF Pages, NavItems
  <2>3. \A r \in {q \in Listed : list[q] = table[q]} : table[r].status \in Statuses(page)
    BY <1>1, ListedAreRows
  <2> QED
    BY <2>1, <2>2, <2>3
<1> QED
  BY <1>1, PagesAlways, PTL

\* A step that writes a text into a row that others leave alone is the backend's answer
\* to a form, which held what was typed or what the row showed: for any rows, dialogs
\* and requests under way.
THEOREM EditsTouchTheirRow == PanelPagesSpec => EditTouchesItsRow
<1> DEFINE Touched == \A r \in Rows :
              \/ page' # page \/ moves' # moves \/ Gone \in {table[r], table'[r]}
              \/ table'[r].text = table[r].text
              \/ \E m \in sent \ sent' : m.row = r /\ (m.touched \/ m.text = m.seen)
<1>1. PagesInv /\ [PanelPagesNext]_PanelPagesVars => [Touched]_PanelPagesVars
  <2> SUFFICES ASSUME PagesInv, PanelPagesNext
               PROVE  Touched
    OBVIOUS
  <2>1. ASSUME NEW m \in sent, Execute(m)
        PROVE  Touched
    <3> SUFFICES ASSUME NEW r \in Rows, Gone \notin {table[r], table'[r]},
                        table'[r].text # table[r].text
                 PROVE  m \in sent \ sent' /\ m.row = r /\ (m.touched \/ m.text = m.seen)
      OBVIOUS
    <3>0. /\ table \in [Rows -> PageRow(page) \cup {Gone}] /\ m \in Mutation /\ Fits(page, m)
          /\ m.answer = "none"
      BY <2>1 DEF PagesInv, PanelPagesTypeOK, Execute
    <3>1. /\ m.row # Gone /\ table[m.row] # Gone
          /\ \E s \in StatusAfter(page, m.kind, table[m.row].status) :
                table' = [table EXCEPT ![m.row] =
                             IF m.kind = "delete" THEN Gone
                             ELSE [status |-> s, text |-> IF IsForm(m.kind) THEN m.text
                                                          ELSE table[m.row].text]]
      BY <2>1 DEF Execute
    <3>2. m.row = r /\ IsForm(m.kind)
      <4>1. PICK s : table' = [table EXCEPT ![m.row] =
                             IF m.kind = "delete" THEN Gone
                             ELSE [status |-> s, text |-> IF IsForm(m.kind) THEN m.text
                                                          ELSE table[m.row].text]]
        BY <3>1
      <4>2. m.row = r
        BY <3>0, <4>1
      <4> DEFINE text == IF IsForm(m.kind) THEN m.text ELSE table[m.row].text
      <4>3. table' = [table EXCEPT ![m.row] = IF m.kind = "delete" THEN Gone
                                              ELSE [status |-> s, text |-> text]]
        BY <4>1
      <4> HIDE DEF text
      <4>4. table'[r].text = text
        BY <3>0, <4>2, <4>3
      <4>5. IsForm(m.kind)
        BY <4>2, <4>4 DEF text
      <4> QED
        BY <4>2, <4>5
    <3>3. m.touched \/ m.text = m.seen
      BY <3>0, <3>1, <3>2 DEF Fits
    <3>4. m \notin sent'
      <4>1. PICK answer \in {"ok", "refused"} :
               sent' = (sent \ {m}) \cup {[m EXCEPT !.answer = answer]}
        BY <2>1 DEF Execute
      <4>2. [m EXCEPT !.answer = answer].answer = answer
        BY <3>0 DEF Mutation
      <4> DEFINE n == [m EXCEPT !.answer = answer]
      <4>3. n # m /\ sent' = (sent \ {m}) \cup {n}
        BY <3>0, <4>1, <4>2
      <4> HIDE DEF n
      <4> QED
        BY <4>3
    <3> QED
      BY <3>2, <3>3, <3>4
  <2>2. ASSUME NEW p \in Pages, Navigate(p)
        PROVE  moves' # moves
    BY <2>2 DEF Navigate, Moves, PagesInv, PanelPagesTypeOK
  <2>3. ASSUME NEW r \in Rows, OthersWrite(r)
        PROVE  moves' # moves
    BY <2>3 DEF OthersWrite, Moves, PagesInv, PanelPagesTypeOK
  <2>4. CASE UNCHANGED table
    BY <2>4
  <2>5. /\ \A f : Asks(f) => UNCHANGED table
        /\ Select \/ TypeSearch \/ ClearFilters => \E f : Asks(f)
    BY DEF Asks, Select, TypeSearch, ClearFilters
  <2>6. CASE \/ IdentityRefreshed \/ Select \/ TypeSearch \/ ClearFilters \/ SearchSettles
             \/ Fetch \/ FetchFails \/ Close \/ CloseResult
             \/ \E r \in PanelRoles : RoleChanges(r)
    BY <2>5, <2>6 DEF IdentityRefreshed, SearchSettles, Fetch, FetchFails, Close, CloseResult,
                      RoleChanges
  <2>7. CASE \/ Submit
             \/ \E r \in Rows : Reactivate(r)
             \/ \E m \in sent : Settles(m)
    BY <2>7 DEF Submit, Reactivate, Posts, Settles
  <2>8. CASE \/ \E a \in HeaderActions : OpenHeader(a)
             \/ \E r \in Rows, a \in RowActions : OpenRow(a, r)
             \/ \E text \in AnyText : Type(text)
    <3>1. \A a, r, row : Opens(a, r, row) => UNCHANGED table
      BY DEF Opens
    <3>2. \A text : Type(text) => UNCHANGED table
      BY DEF Type
    <3> QED
      BY <2>4, <2>8, <3>1, <3>2 DEF OpenHeader, OpenRow
  <2> QED
    BY <2>1, <2>2, <2>3, <2>4, <2>6, <2>7, <2>8 DEF PanelPagesNext, Pages
<1>2. PanelPagesSpec => [][Touched]_PanelPagesVars
  BY <1>1, PagesAlways, PTL DEF PanelPagesSpec
<1> QED
  BY <1>2 DEF EditTouchesItsRow

-----------------------------------------------------------------------------
(* Favourites.  What makes the stars right in the end is what a read and a    *)
(* request know while they are under way: a read holds the rows of every      *)
(* channel that no request or write of others touched since, and the one      *)
(* request for a channel asks for what its star shows.                       *)

FavouritesSpec == FavouritesInit /\ [][FavouritesNext]_FavouritesVars

WaitsFor(c, i) == toggles[i].step # "none" /\ toggles[i].channel = c

\* A read that was answered holds the rows as they still are.
ReadsAreFresh ==
    \A i \in StarSlots : reads[i].step = "read" =>
        \A c \in Starred \ reads[i].touched :
            /\ \A j \in StarSlots : ~WaitsFor(c, j)
            /\ c \in reads[i].data <=> c \in stored

\* The request for a channel, the only one, asks for, and has written, what is shown.
StarsAreAsked ==
    \A c \in Starred \ uncertain : \A i \in StarSlots : WaitsFor(c, i) =>
        /\ \A j \in StarSlots : WaitsFor(c, j) => i = j
        /\ toggles[i].step = "asked" => (toggles[i].kind = "add" <=> c \in hearts)
        /\ toggles[i].step = "done" => (c \in hearts <=> c \in stored)

\* A channel nothing is asked about is shown right, or will be read, or an error shows.
StarsSettle ==
    \A c \in Starred \ uncertain :
        \/ \E i \in StarSlots : WaitsFor(c, i)
        \/ heartsError
        \/ \E i \in StarSlots : ~FreeRead(i)
        \/ c \in hearts <=> c \in stored

HeartsInv == FavouritesTypeOK /\ ReadsAreFresh /\ StarsAreAsked /\ StarsSettle

\* An idle request is a request, an idle read a read.
LEMMA NoStarIsOne ==
    /\ NoToggle \in Toggle /\ NoToggle.step = "none"
    /\ NoRead \in Read /\ NoRead.step = "none"
BY FavouritesAssumption DEF NoToggle, Toggle, NoRead, Read

\* Nothing is awaited for a channel that is not waiting.
LEMMA WaitingIsWaitedFor ==
    \A c : c \in Waiting <=> \E i \in StarSlots : WaitsFor(c, i)
BY DEF Waiting, WaitsFor

\* A read is asked for in the place of an idle one, or lands, or fails: a read that is
\* not answered says nothing of the rows.
LEMMA ReadsGo ==
    ASSUME HeartsInv, NEW i \in StarSlots, NEW x \in Read, reads' = [reads EXCEPT ![i] = x]
    PROVE  /\ reads' \in [StarSlots -> Read] /\ reads'[i] = x
           /\ \A j \in StarSlots \ {i} : reads'[j] = reads[j]
BY DEF HeartsInv, FavouritesTypeOK

\* As ReadsGo, for requests.
LEMMA TogglesGo ==
    ASSUME HeartsInv, NEW i \in StarSlots, NEW x \in Toggle, toggles' = [toggles EXCEPT ![i] = x]
    PROVE  /\ toggles' \in [StarSlots -> Toggle] /\ toggles'[i] = x
           /\ \A j \in StarSlots \ {i} : toggles'[j] = toggles[j]
BY DEF HeartsInv, FavouritesTypeOK

\* Touching a channel marks it in the reads that were answered.
LEMMA TouchesMark ==
    ASSUME HeartsInv, NEW c \in Starred
    PROVE  /\ Touches(c) \in [StarSlots -> Read]
           /\ \A i \in StarSlots :
                 /\ Touches(c)[i].step = reads[i].step /\ Touches(c)[i].data = reads[i].data
                 /\ reads[i].step = "read" => Touches(c)[i].touched = reads[i].touched \cup {c}
<1>1. ASSUME NEW i \in StarSlots
      PROVE  /\ Touches(c)[i] \in Read
             /\ Touches(c)[i].step = reads[i].step /\ Touches(c)[i].data = reads[i].data
             /\ reads[i].step = "read" => Touches(c)[i].touched = reads[i].touched \cup {c}
  <2>1. reads[i] \in Read
    BY DEF HeartsInv, FavouritesTypeOK
  <2> DEFINE x == [reads[i] EXCEPT !.touched = @ \cup {c}]
  <2>2. x \in Read /\ x.step = reads[i].step /\ x.data = reads[i].data
        /\ x.touched = reads[i].touched \cup {c}
    BY <2>1 DEF Read
  <2>3. Touches(c)[i] = IF reads[i].step = "read" THEN x ELSE reads[i]
    BY DEF Touches
  <2> HIDE DEF x
  <2> QED
    BY <2>1, <2>2, <2>3
<1>2. Touches(c) = [i \in StarSlots |-> Touches(c)[i]]
  BY DEF Touches
<1> QED
  BY <1>1, <1>2

\* The screen starts by reading.
LEMMA HeartsStart == FavouritesInit => HeartsInv
<1> SUFFICES ASSUME FavouritesInit
             PROVE  HeartsInv
  OBVIOUS
<1>1. PICK i \in StarSlots : reads = [[j \in StarSlots |-> NoRead] EXCEPT ![i].step = "asked"]
  BY DEF FavouritesInit
<1> DEFINE x == [NoRead EXCEPT !.step = "asked"]
<1>2. x \in Read /\ x.step = "asked"
  BY NoStarIsOne DEF Read
<1>3. reads = [[j \in StarSlots |-> NoRead] EXCEPT ![i] = x]
  BY <1>1
<1> HIDE DEF x
<1>4. /\ reads \in [StarSlots -> Read] /\ reads[i].step = "asked"
      /\ \A j \in StarSlots : reads[j].step # "read"
  BY <1>2, <1>3, NoStarIsOne
<1>5. FavouritesTypeOK
  <2>1. /\ stored \subseteq Starred /\ hearts = {} /\ heartsError = FALSE /\ uncertain = {}
        /\ stars = 0 /\ toggles = [j \in StarSlots |-> NoToggle]
    BY DEF FavouritesInit
  <2>2. toggles \in [StarSlots -> Toggle]
    BY <2>1, NoStarIsOne
  <2>3. heartsError \in BOOLEAN
    BY <2>1
  <2>4. stars \in 0..MaxStars
    BY <2>1, FavouritesAssumption
  <2> QED
    BY <1>4, <2>1, <2>2, <2>3, <2>4 DEF FavouritesTypeOK
<1>6. \A c, j : j \in StarSlots => ~WaitsFor(c, j)
  BY NoStarIsOne DEF FavouritesInit, WaitsFor
<1> QED
  BY <1>4, <1>5, <1>6 DEF HeartsInv, ReadsAreFresh, StarsAreAsked, StarsSettle, FreeRead

\* The steps of reads.
LEMMA ReadsInductive ==
    ASSUME HeartsInv,
           \/ \E i \in StarSlots : ReadFavourites(i) \/ ReadLands(i) \/ ReadFails(i)
           \/ Retry
    PROVE  HeartsInv'
<1>0. /\ stored \subseteq Starred /\ hearts \subseteq Starred /\ uncertain \subseteq Starred
      /\ reads \in [StarSlots -> Read] /\ toggles \in [StarSlots -> Toggle]
      /\ heartsError \in BOOLEAN /\ stars \in 0..MaxStars /\ FavouritesTypeOK
      /\ ReadsAreFresh /\ StarsAreAsked /\ StarsSettle
  BY DEF HeartsInv, FavouritesTypeOK
<1>1. Star => stars' \in 0..MaxStars
  BY <1>0, FavouritesAssumption DEF Star
<1>2. ASSUME NEW i \in StarSlots, ReadFavourites(i)
      PROVE  HeartsInv'
  <2> DEFINE x == [step |-> "read", data |-> stored, touched |-> Waiting]
  <2>1. Waiting \subseteq Starred
    BY <1>0 DEF Waiting, Toggle
  <2>2. /\ x \in Read /\ x.step = "read" /\ x.data = stored /\ x.touched = Waiting
        /\ reads' = [reads EXCEPT ![i] = x] /\ reads[i].step = "asked"
        /\ UNCHANGED <<stored, hearts, heartsError, toggles, uncertain, stars>>
    BY <1>0, <1>2, <2>1 DEF ReadFavourites, Read
  <2> HIDE DEF x
  <2>3. /\ reads' \in [StarSlots -> Read] /\ reads'[i] = x
        /\ \A j \in StarSlots \ {i} : reads'[j] = reads[j]
    BY <2>2, ReadsGo
  <2>4. ReadsAreFresh'
    BY <1>0, <2>2, <2>3, WaitingIsWaitedFor DEF ReadsAreFresh, WaitsFor
  <2>5. StarsAreAsked' /\ StarsSettle'
    BY <1>0, <2>2, <2>3 DEF StarsAreAsked, StarsSettle, WaitsFor, FreeRead
  <2> QED
    BY <1>0, <2>2, <2>3, <2>4, <2>5 DEF HeartsInv, FavouritesTypeOK
<1>3. ASSUME NEW i \in StarSlots, ReadLands(i)
      PROVE  HeartsInv'
  <2>1. /\ reads' = [reads EXCEPT ![i] = NoRead] /\ reads[i].step = "read"
        /\ hearts' = reads[i].data /\ heartsError' = FALSE /\ uncertain' = reads[i].touched
        /\ UNCHANGED <<stored, toggles, stars>> /\ reads[i] \in Read
    BY <1>0, <1>3 DEF ReadLands
  <2>2. /\ reads' \in [StarSlots -> Read] /\ reads'[i] = NoRead
        /\ \A j \in StarSlots \ {i} : reads'[j] = reads[j]
    BY <2>1, NoStarIsOne, ReadsGo
  <2>3. \A c \in Starred \ uncertain' :
            (\A j \in StarSlots : ~WaitsFor(c, j)) /\ (c \in hearts' <=> c \in stored)
    BY <1>0, <2>1 DEF ReadsAreFresh
  <2>4. ReadsAreFresh'
    BY <1>0, <2>1, <2>2, NoStarIsOne DEF ReadsAreFresh, WaitsFor
  <2>5. StarsAreAsked' /\ StarsSettle'
    BY <2>1, <2>3 DEF StarsAreAsked, StarsSettle, WaitsFor
  <2>6. hearts' \subseteq Starred /\ uncertain' \subseteq Starred
    BY <2>1 DEF Read
  <2> QED
    BY <1>0, <2>1, <2>2, <2>4, <2>5, <2>6 DEF HeartsInv, FavouritesTypeOK
<1>4. ASSUME NEW i \in StarSlots, ReadFails(i)
      PROVE  HeartsInv'
  <2>1. /\ reads' = [reads EXCEPT ![i] = NoRead] /\ heartsError' = TRUE /\ Star
        /\ UNCHANGED <<stored, hearts, toggles, uncertain>>
    BY <1>4 DEF ReadFails
  <2>2. /\ reads' \in [StarSlots -> Read] /\ reads'[i] = NoRead
        /\ \A j \in StarSlots \ {i} : reads'[j] = reads[j]
    BY <2>1, NoStarIsOne, ReadsGo
  <2>4. ReadsAreFresh'
    BY <1>0, <2>1, <2>2, NoStarIsOne DEF ReadsAreFresh, WaitsFor
  <2>5. StarsAreAsked' /\ StarsSettle'
    BY <1>0, <2>1 DEF StarsAreAsked, StarsSettle, WaitsFor
  <2> QED
    BY <1>0, <1>1, <2>1, <2>2, <2>4, <2>5 DEF HeartsInv, FavouritesTypeOK
<1>5. CASE Retry
  <2>1. PICK i \in StarSlots : FreeRead(i) /\ reads' = [reads EXCEPT ![i].step = "asked"]
    BY <1>5 DEF Retry
  <2> DEFINE x == [reads[i] EXCEPT !.step = "asked"]
  <2>2. x \in Read /\ x.step = "asked" /\ reads' = [reads EXCEPT ![i] = x]
    BY <1>0, <2>1 DEF Read
  <2>3. UNCHANGED <<stored, hearts, heartsError, toggles, uncertain, stars>>
    BY <1>5 DEF Retry
  <2> HIDE DEF x
  <2>4. /\ reads' \in [StarSlots -> Read] /\ reads'[i] = x
        /\ \A j \in StarSlots \ {i} : reads'[j] = reads[j]
    BY <2>2, ReadsGo
  <2>5. ReadsAreFresh'
    BY <1>0, <2>2, <2>3, <2>4 DEF ReadsAreFresh, WaitsFor
  <2>6. StarsAreAsked' /\ StarsSettle'
    BY <1>0, <2>2, <2>3, <2>4 DEF StarsAreAsked, StarsSettle, WaitsFor, FreeRead
  <2> QED
    BY <1>0, <2>3, <2>4, <2>5, <2>6 DEF HeartsInv, FavouritesTypeOK
<1> QED
  BY <1>2, <1>3, <1>4, <1>5

\* The steps of stars, and of the others who write the rows.
LEMMA StarsInductive ==
    ASSUME HeartsInv,
           \/ \E i \in StarSlots : ToggleArrives(i) \/ ToggleLands(i)
           \/ \E c \in Starred : TapStar(c) \/ OthersStar(c)
    PROVE  HeartsInv'
<1>0. /\ stored \subseteq Starred /\ hearts \subseteq Starred /\ uncertain \subseteq Starred
      /\ reads \in [StarSlots -> Read] /\ toggles \in [StarSlots -> Toggle]
      /\ heartsError \in BOOLEAN /\ stars \in 0..MaxStars
      /\ ReadsAreFresh /\ StarsAreAsked /\ StarsSettle
  BY DEF HeartsInv, FavouritesTypeOK
<1>1. Star => stars' \in 0..MaxStars
  BY <1>0, FavouritesAssumption DEF Star
<1>2. ASSUME NEW c \in Starred, TapStar(c)
      PROVE  HeartsInv'
  <2>1. PICK i \in StarSlots : FreeToggle(i) /\ toggles' = [toggles EXCEPT ![i] =
           [step |-> "asked", kind |-> IF c \in hearts THEN "remove" ELSE "add", channel |-> c]]
    BY <1>2 DEF TapStar
  <2> DEFINE kind == IF c \in hearts THEN "remove" ELSE "add"
  <2>2. kind \in {"add", "remove"} /\ (kind = "add" <=> c \notin hearts)
    OBVIOUS
  <2>3. toggles' = [toggles EXCEPT ![i] = [step |-> "asked", kind |-> kind, channel |-> c]]
    BY <2>1
  <2> HIDE DEF kind
  <2> DEFINE x == [step |-> "asked", kind |-> kind, channel |-> c]
  <2>4. x \in Toggle /\ x.step = "asked" /\ x.kind = kind /\ x.channel = c
        /\ toggles' = [toggles EXCEPT ![i] = x] /\ toggles[i].step = "none"
    BY <2>1, <2>2, <2>3 DEF Toggle, FreeToggle
  <2> HIDE DEF x
  <2>5. /\ toggles' \in [StarSlots -> Toggle] /\ toggles'[i] = x
        /\ \A j \in StarSlots \ {i} : toggles'[j] = toggles[j]
    BY <2>4, TogglesGo
  <2>6. /\ hearts' = IF c \in hearts THEN hearts \ {c} ELSE hearts \cup {c}
        /\ uncertain' = IF c \in Waiting THEN uncertain \cup {c} ELSE uncertain
        /\ reads' = Touches(c) /\ Star /\ UNCHANGED <<stored, heartsError>>
    BY <1>2 DEF TapStar
  <2>7. ReadsAreFresh'
    BY <1>0, <2>4, <2>5, <2>6, TouchesMark DEF ReadsAreFresh, WaitsFor
  <2>8. StarsAreAsked'
    BY <1>0, <2>2, <2>4, <2>5, <2>6, WaitingIsWaitedFor DEF StarsAreAsked, WaitsFor
  <2>9. StarsSettle'
    BY <1>0, <2>4, <2>5, <2>6, TouchesMark DEF StarsSettle, WaitsFor, FreeRead
  <2>10. reads' \in [StarSlots -> Read]
    BY <2>6, TouchesMark
  <2>11. hearts' \subseteq Starred /\ uncertain' \subseteq Starred
    BY <1>0, <2>6
  <2>12. FavouritesTypeOK'
    BY <1>0, <1>1, <2>5, <2>6, <2>10, <2>11 DEF FavouritesTypeOK
  <2> QED
    BY <2>7, <2>8, <2>9, <2>12 DEF HeartsInv
<1>3. ASSUME NEW c \in Starred, OthersStar(c)
      PROVE  HeartsInv'
  <2>1. /\ uncertain' = uncertain \cup {c} /\ reads' = Touches(c) /\ Star
        /\ UNCHANGED <<hearts, heartsError, toggles>>
        /\ stored' \in {stored \cup {c}, stored \ {c}}
    BY <1>3 DEF OthersStar, Write
  <2>2. ReadsAreFresh'
    BY <1>0, <2>1, TouchesMark DEF ReadsAreFresh, WaitsFor
  <2>3. StarsAreAsked' /\ StarsSettle'
    BY <1>0, <2>1, TouchesMark DEF StarsAreAsked, StarsSettle, WaitsFor, FreeRead
  <2>4. FavouritesTypeOK'
    BY <1>0, <1>1, <2>1, TouchesMark DEF FavouritesTypeOK
  <2> QED
    BY <2>2, <2>3, <2>4 DEF HeartsInv
<1>4. ASSUME NEW i \in StarSlots, ToggleArrives(i)
      PROVE  HeartsInv'
  <2> DEFINE c == toggles[i].channel
  <2>1. PICK step \in {"done", "lost"} :
           /\ toggles' = [toggles EXCEPT ![i].step = step]
           /\ step = "done" => /\ Write(toggles[i].kind, c)
                               /\ UNCHANGED stars
           /\ step = "lost" => /\ Write(toggles[i].kind, c) \/ UNCHANGED stored
                               /\ Star
    BY <1>4 DEF ToggleArrives
  <2> DEFINE x == [toggles[i] EXCEPT !.step = step]
  <2>2. /\ x \in Toggle /\ x.step = step /\ x.kind = toggles[i].kind /\ x.channel = c
        /\ toggles' = [toggles EXCEPT ![i] = x] /\ c \in Starred
    BY <1>0, <2>1 DEF Toggle
  <2> HIDE DEF x
  <2>3. /\ toggles[i].step = "asked" /\ UNCHANGED <<hearts, heartsError, reads, uncertain>>
    BY <1>4 DEF ToggleArrives
  <2>4. /\ toggles' \in [StarSlots -> Toggle] /\ toggles'[i] = x
        /\ \A j \in StarSlots \ {i} : toggles'[j] = toggles[j]
    BY <2>2, TogglesGo
  <2>5. \A d, j : j \in StarSlots => (WaitsFor(d, j)' <=> WaitsFor(d, j))
    BY <2>2, <2>3, <2>4 DEF WaitsFor
  <2>6. /\ \A d \in Starred \ {c} : d \in stored' <=> d \in stored
        /\ step = "done" => (c \in stored' <=> toggles[i].kind = "add")
        /\ stored' \subseteq Starred /\ stars' \in 0..MaxStars
    BY <1>0, <1>1, <2>1, <2>2 DEF Write, Toggle
  <2>7. WaitsFor(c, i)
    BY <2>3 DEF WaitsFor
  <2>8. ReadsAreFresh'
    BY <1>0, <2>3, <2>5, <2>6, <2>7 DEF ReadsAreFresh
  <2>9. StarsAreAsked'
    <3> SUFFICES ASSUME NEW d \in Starred \ uncertain, NEW j \in StarSlots, WaitsFor(d, j)'
                 PROVE  /\ \A k \in StarSlots : WaitsFor(d, k)' => j = k
                        /\ toggles'[j].step = "asked" =>
                               (toggles'[j].kind = "add" <=> d \in hearts)
                        /\ toggles'[j].step = "done" => (d \in hearts <=> d \in stored')
      BY <2>3 DEF StarsAreAsked
    <3>1. WaitsFor(d, j) /\ \A k \in StarSlots : WaitsFor(d, k)' => j = k
      BY <1>0, <2>5 DEF StarsAreAsked
    <3>2. CASE j = i
      <4>1. d = c
        BY <3>1, <3>2 DEF WaitsFor
      <4> QED
        BY <1>0, <2>1, <2>2, <2>3, <2>4, <2>6, <3>1, <3>2, <4>1 DEF StarsAreAsked
    <3>3. CASE j # i
      <4>1. d # c
        BY <1>0, <2>7, <3>1, <3>3 DEF StarsAreAsked
      <4> QED
        BY <1>0, <2>4, <2>6, <3>1, <3>3, <4>1 DEF StarsAreAsked
    <3> QED
      BY <3>2, <3>3
  <2>10. StarsSettle'
    BY <1>0, <2>3, <2>5, <2>6, <2>7 DEF StarsSettle, FreeRead
  <2>11. FavouritesTypeOK'
    BY <1>0, <2>3, <2>4, <2>6 DEF FavouritesTypeOK
  <2> QED
    BY <2>8, <2>9, <2>10, <2>11 DEF HeartsInv
<1>5. ASSUME NEW i \in StarSlots, ToggleLands(i)
      PROVE  HeartsInv'
  <2>1. /\ toggles' = [toggles EXCEPT ![i] = NoToggle] /\ toggles[i].step \in {"done", "lost"}
        /\ UNCHANGED <<stored, hearts, heartsError, uncertain, stars>>
    BY <1>5 DEF ToggleLands
  <2>2. /\ toggles' \in [StarSlots -> Toggle] /\ toggles'[i] = NoToggle
        /\ \A j \in StarSlots \ {i} : toggles'[j] = toggles[j]
    BY <2>1, NoStarIsOne, TogglesGo
  <2>3. \A d, j : j \in StarSlots => (WaitsFor(d, j)' <=> WaitsFor(d, j) /\ j # i)
    BY <2>2, NoStarIsOne DEF WaitsFor
  <2>4. /\ reads' \in [StarSlots -> Read]
        /\ \A j \in StarSlots : reads'[j] = reads[j] \/ reads'[j].step = "asked"
        /\ toggles[i].step = "lost" => \E j \in StarSlots : reads'[j].step = "asked"
    <3>1. CASE toggles[i].step = "lost"
      <4>1. PICK j \in StarSlots : FreeRead(j) /\ reads' = [reads EXCEPT ![j].step = "asked"]
        BY <1>5, <3>1 DEF ToggleLands, Reloads
      <4> DEFINE x == [reads[j] EXCEPT !.step = "asked"]
      <4>2. x \in Read /\ x.step = "asked" /\ reads' = [reads EXCEPT ![j] = x]
        BY <1>0, <4>1 DEF Read
      <4> HIDE DEF x
      <4> QED
        BY <4>2, ReadsGo
    <3>2. CASE toggles[i].step # "lost"
      BY <1>0, <1>5, <3>2 DEF ToggleLands
    <3> QED
      BY <3>1, <3>2
  <2>5. ReadsAreFresh'
    BY <1>0, <2>1, <2>3, <2>4 DEF ReadsAreFresh
  <2>6. StarsAreAsked'
    BY <1>0, <2>1, <2>2, <2>3 DEF StarsAreAsked
  <2>7. StarsSettle'
    <3> SUFFICES ASSUME NEW d \in Starred \ uncertain, \A j \in StarSlots : ~WaitsFor(d, j)',
                        ~heartsError, \A j \in StarSlots : reads'[j].step = "none"
                 PROVE  d \in hearts <=> d \in stored
      BY <2>1 DEF StarsSettle, FreeRead
    <3>1. (\A j \in StarSlots : reads[j].step = "none") /\ toggles[i].step = "done"
      BY <1>0, <2>1, <2>4
    <3>2. CASE WaitsFor(d, i)
      BY <1>0, <3>1, <3>2 DEF StarsAreAsked
    <3>3. CASE ~WaitsFor(d, i)
      BY <1>0, <2>3, <3>1, <3>3 DEF StarsSettle, FreeRead
    <3> QED
      BY <3>2, <3>3
  <2>8. FavouritesTypeOK'
    BY <1>0, <2>1, <2>2, <2>4 DEF FavouritesTypeOK
  <2> QED
    BY <2>5, <2>6, <2>7, <2>8 DEF HeartsInv
<1> QED
  BY <1>2, <1>3, <1>4, <1>5

\* The stars of a screen keep the invariant.
LEMMA HeartsAlways == FavouritesSpec => []HeartsInv
<1>1. HeartsInv /\ [FavouritesNext]_FavouritesVars => HeartsInv'
  <2> SUFFICES ASSUME HeartsInv, [FavouritesNext]_FavouritesVars
               PROVE  HeartsInv'
    OBVIOUS
  <2>1. CASE UNCHANGED FavouritesVars
    BY <2>1 DEF FavouritesVars, HeartsInv, FavouritesTypeOK, ReadsAreFresh, StarsAreAsked,
                StarsSettle, WaitsFor, FreeRead
  <2>2. CASE FavouritesNext
    BY <2>2, ReadsInductive, StarsInductive DEF FavouritesNext
  <2> QED
    BY <2>1, <2>2
<1> QED
  BY <1>1, HeartsStart, PTL DEF FavouritesSpec

\* Once all is answered and no error shows, the stars of a screen are the customer's rows,
\* but for channels others wrote or two requests met: for any channels and any number of
\* requests and reads, in any order of their answers.
THEOREM StarsAreRows == FavouritesSpec => []HeartsAreStored
<1>1. HeartsInv => HeartsAreStored
  BY DEF HeartsInv, StarsSettle, HeartsAreStored, WaitsFor, FreeRead, FreeToggle
<1> QED
  BY <1>1, HeartsAlways, PTL

-----------------------------------------------------------------------------
(* The search of films.  Only the last search made has an answer that counts. *)

MoviesSpec == MoviesInit /\ [][SearchNext \/ WatchNext]_MoviesVars

SearchInv ==
    /\ \A a \in asks : a \in [of : Search, alive : BOOLEAN]
    /\ \A a \in asks : a.alive => a.of = search
    /\ (\A a \in asks : ~a.alive) => results = search

SearchTyped ==
    /\ query \in Search /\ search \in Search /\ results \in Search
    /\ searches \in 0..MaxSearches

\* Answers of earlier searches are told to no one.
LEMMA SearchesDie ==
    ASSUME SearchInv, NEW a \in asks
    PROVE  StillAlive(a) \in [of : Search, alive : BOOLEAN] /\ ~StillAlive(a).alive
BY DEF SearchInv, StillAlive

\* A new search is the only one alive.
LEMMA SearchesStart ==
    ASSUME SearchInv, NEW s \in Search, SearchFor(s)
    PROVE  SearchInv'
<1> DEFINE old == {StillAlive(a) : a \in asks}
           new == [of |-> s, alive |-> TRUE]
<1>1. \A a \in old : a \in [of : Search, alive : BOOLEAN] /\ ~a.alive
  BY SearchesDie
<1>2. new \in [of : Search, alive : BOOLEAN] /\ new.alive /\ new.of = s
  OBVIOUS
<1>3. search' = s
  BY DEF SearchFor
<1>4. CASE s.term = NoTerm
  <2>1. results' = s /\ asks' = old
    BY <1>4 DEF SearchFor
  <2> HIDE DEF old
  <2> QED
    BY <1>1, <1>3, <2>1 DEF SearchInv
<1>5. CASE s.term # NoTerm
  <2>1. asks' = old \cup {new}
    BY <1>5 DEF SearchFor
  <2> HIDE DEF old, new
  <2> QED
    BY <1>1, <1>2, <1>3, <2>1 DEF SearchInv
<1> QED
  BY <1>4, <1>5

LEMMA SearchesAlways == MoviesSpec => [](SearchInv /\ SearchTyped)
<1> DEFINE Inv == SearchInv /\ SearchTyped
<1> USE DEF SearchTyped
<1>1. MoviesInit => Inv
  <2>1. Nothing \in Search /\ 0 \in 0..MaxSearches
    BY MoviesAssumption DEF Nothing, Search
  <2> QED
    BY <2>1 DEF MoviesInit, SearchInv
<1>2. Inv /\ [SearchNext \/ WatchNext]_MoviesVars => Inv'
  <2> SUFFICES ASSUME Inv, [SearchNext \/ WatchNext]_MoviesVars
               PROVE  Inv'
    OBVIOUS
  <2>1. CASE WatchNext \/ UNCHANGED MoviesVars
    <3>1. UNCHANGED <<query, search, results, asks, searches>>
      BY <2>1 DEF MoviesVars, WatchNext, OpenFilm, ProgressRead, StreamArrives, CloseFilm, Plays,
                  SaveReads, SaveWrites, SearchVars
    <3> QED
      BY <3>1 DEF SearchInv
  <2>2. ASSUME NEW term \in Terms, TypeFilm(term)
        PROVE  Inv'
    <3>1. [query EXCEPT !.term = term] \in Search
      BY DEF Search
    <3>2. searches' \in 0..MaxSearches
      BY <2>2, MoviesAssumption DEF TypeFilm
    <3> QED
      BY <2>2, <3>1, <3>2 DEF TypeFilm, SearchInv
  <2>3. ASSUME NEW l \in Languages, PickLanguage(l)
        PROVE  Inv'
    <3> DEFINE s == [search EXCEPT !.language = l]
    <3>1. s \in Search /\ [query EXCEPT !.language = l] \in Search
      BY DEF Search
    <3>2. SearchFor(s) /\ query' = [query EXCEPT !.language = l]
      BY <2>3 DEF PickLanguage
    <3>3. searches' \in 0..MaxSearches
      BY <2>3, MoviesAssumption DEF PickLanguage
    <3> HIDE DEF s
    <3>4. search' \in Search /\ results' \in Search
      BY <3>1, <3>2 DEF SearchFor
    <3> QED
      BY <3>1, <3>2, <3>3, <3>4, SearchesStart
  <2>4. CASE SearchDebounced
    <3> DEFINE s == [search EXCEPT !.term = query.term]
    <3>1. s \in Search
      BY DEF Search
    <3>2. SearchFor(s) /\ query' = query /\ searches' = searches
      BY <2>4 DEF SearchDebounced
    <3> HIDE DEF s
    <3>3. search' \in Search /\ results' \in Search
      BY <3>1, <3>2 DEF SearchFor
    <3> QED
      BY <3>1, <3>2, <3>3, SearchesStart
  <2>5. ASSUME NEW a \in asks, ResultsArrive(a)
        PROVE  Inv'
    <3>1. /\ asks' = asks \ {a} /\ results' = IF a.alive THEN a.of ELSE results
          /\ UNCHANGED <<query, search, searches>>
      BY <2>5 DEF ResultsArrive
    <3> QED
      BY <3>1 DEF SearchInv
  <2> QED
    BY <2>1, <2>2, <2>3, <2>4, <2>5 DEF SearchNext
<1> HIDE DEF SearchTyped
<1> QED
  BY <1>1, <1>2, PTL DEF MoviesSpec

\* However slow answers overtake each other, the films on the screen answer the search
\* that is made, for any terms and languages.
THEOREM ResultsAnswerTheSearch == MoviesSpec => []ResultsBelong
<1>1. SearchInv => ResultsBelong
  BY DEF SearchInv, ResultsBelong
<1> QED
  BY <1>1, SearchesAlways, PTL

-----------------------------------------------------------------------------
(* The positions of films.  As long as no two saves overlap, the stored list   *)
(* is the beginning of the list the viewer would tell, or was before the save *)
(* under way.                                                                 *)

\* As much of a list as is kept.
Newest(marks) == SubSeq(marks, 1, IF Len(marks) < MAX_PROGRESS THEN Len(marks) ELSE MAX_PROGRESS)

EachOnce(marks) == \A m, n \in DOMAIN marks : marks[m].film = marks[n].film => m = n

\* The filter after each film of the list.
LEMMA WithoutTurns ==
    ASSUME NEW f, NEW marks \in Seq(Mark)
    PROVE  \E kept : /\ kept[0] = <<>>
                     /\ \A k \in 1..Len(marks) : kept[k] = Spared(f, kept[k - 1], marks[k])
                     /\ Without(marks, f) = kept[Len(marks)]
<1> DEFINE n == Len(marks)
           X == Seq(Mark)
           empty == <<>>
           step == [p \in X \X (1..n) |-> Spared(f, p[1], marks[p[2]])]
<1>1. n \in Nat /\ DOMAIN marks = 1..n
  OBVIOUS
<1>2. step \in [X \X (1..n) -> X]
  <2> SUFFICES ASSUME NEW p \in X \X (1..n)
               PROVE  Spared(f, p[1], marks[p[2]]) \in X
    OBVIOUS
  <2>1. p[1] \in X /\ marks[p[2]] \in Mark
    OBVIOUS
  <2> QED
    BY <2>1 DEF Spared
<1>3. PICK iter \in [SUBSET (1..n) -> X] : Iterates(iter, n, empty, step)
  <2>1. empty \in X
    OBVIOUS
  <2>2. n \in Nat
    BY <1>1
  <2> HIDE DEF X, n, step, empty
  <2> QED
    BY <1>2, <2>1, <2>2, FoldExists
<1>4. \A s \in SUBSET (1..n) : s # {} =>
          step[<<iter[s \ {Max(s)}], Max(s)>>] = Spared(f, iter[s \ {Max(s)}], marks[Max(s)])
  <2> SUFFICES ASSUME NEW s \in SUBSET (1..n), s # {}
               PROVE  <<iter[s \ {Max(s)}], Max(s)>> \in X \X (1..n)
    OBVIOUS
  <2>1. Max(s) \in 1..n
    BY <1>1, Greatest
  <2> HIDE DEF X, n
  <2> QED
    BY <2>1
<1> DEFINE Folds(g) == g = [s \in SUBSET DOMAIN marks |->
                            IF s = {} THEN <<>>
                            ELSE Spared(f, g[s \ {Max(s)}], marks[Max(s)])]
           folded == CHOOSE g : Folds(g)
<1>5. Folds(iter)
  <2> HIDE DEF step, X
  <2> QED
    BY <1>1, <1>3, <1>4 DEF Iterates
<1>6. Folds(folded)
  BY <1>5
<1>7. Without(marks, f) = folded[1..n]
  <2>1. Without(marks, f) = folded[DOMAIN marks]
    BY DEF Without, FoldLeft, MapThenFoldSet
  <2> QED
    BY <1>1, <2>1
<1> DEFINE kept == [k \in 0..n |-> folded[1..k]]
<1> HIDE DEF folded
<1>8. kept[0] = <<>>
  BY <1>1, <1>6, InitialSegments
<1>9. \A k \in 1..n : kept[k] = Spared(f, kept[k - 1], marks[k])
  <2> SUFFICES ASSUME NEW k \in 1..n
               PROVE  folded[1..k] = Spared(f, folded[1..(k - 1)], marks[k])
    OBVIOUS
  <2>1. 1..k \in SUBSET DOMAIN marks
    BY <1>1
  <2>2. 1..k # {} /\ Max(1..k) = k /\ (1..k) \ {Max(1..k)} = 1..(k - 1)
    BY <1>1, InitialSegments
  <2> QED
    BY <1>6, <2>1, <2>2
<1> QED
  <2>1. kept[n] = folded[1..n]
    BY <1>1
  <2> HIDE DEF kept
  <2> QED
    BY <1>7, <1>8, <1>9, <2>1

\* What is left of the first k films of a list.
Spares(marks, f, k, kept) ==
    /\ kept \in Seq(Mark) /\ EachOnce(kept)
    /\ \A m \in DOMAIN kept : kept[m].film # f /\ \E i \in 1..k : kept[m] = marks[i]
    /\ k <= Len(kept) + 1
    /\ (\A i \in 1..k : marks[i].film # f) => Len(kept) = k

\* The film that is left out is there once.
LEMMA TurnSpares ==
    ASSUME NEW marks \in Seq(Mark), EachOnce(marks), NEW f, NEW k \in 1..Len(marks),
           NEW kept, Spares(marks, f, k - 1, kept)
    PROVE  Spares(marks, f, k, Spared(f, kept, marks[k]))
<1>1. /\ k \in Nat /\ marks[k] \in Mark /\ k \in 1..k
      /\ \A i \in 1..(k - 1) : i \in 1..k /\ i \in DOMAIN marks /\ i # k
      /\ \A i \in 1..k : i \in 1..(k - 1) \/ i = k
      /\ DOMAIN marks = 1..Len(marks)
  OBVIOUS
<1>2. kept \in Seq(Mark) /\ EachOnce(kept) /\ Len(kept) \in Nat
  BY DEF Spares
<1>3. CASE marks[k].film = f
  <2>1. Spared(f, kept, marks[k]) = kept
    BY <1>3 DEF Spared
  <2>2. \A i \in 1..(k - 1) : marks[i].film # f
    BY <1>1, <1>3 DEF EachOnce
  <2>3. Len(kept) = k - 1
    BY <2>2 DEF Spares
  <2>4. \A m \in DOMAIN kept : kept[m].film # f /\ \E i \in 1..k : kept[m] = marks[i]
    BY <1>1 DEF Spares
  <2>5. k <= Len(kept) + 1
    BY <1>1, <2>3
  <2>6. ~ \A i \in 1..k : marks[i].film # f
    BY <1>1, <1>3
  <2> QED
    BY <1>2, <2>1, <2>4, <2>5, <2>6 DEF Spares
<1>4. CASE marks[k].film # f
  <2> DEFINE next == Append(kept, marks[k])
             l == Len(kept) + 1
  <2>1. Spared(f, kept, marks[k]) = next
    BY <1>4 DEF Spared
  <2>2. /\ next \in Seq(Mark) /\ DOMAIN next = DOMAIN kept \cup {l} /\ l \notin DOMAIN kept
        /\ next[l] = marks[k] /\ \A m \in DOMAIN kept : next[m] = kept[m]
        /\ Len(next) = l
    BY <1>1, <1>2
  <2> HIDE DEF next
  <2>3. \A m \in DOMAIN kept : kept[m].film # marks[k].film
    BY <1>1 DEF Spares, EachOnce
  <2>4. EachOnce(next)
    <3> HIDE DEF l
    <3> QED
      BY <1>2, <2>2, <2>3 DEF EachOnce
  <2>5. \A m \in DOMAIN next : next[m].film # f /\ \E i \in 1..k : next[m] = marks[i]
    <3> HIDE DEF l
    <3> QED
      BY <1>1, <1>4, <2>2 DEF Spares
  <2>6. k <= Len(next) + 1
    BY <1>1, <1>2, <2>2 DEF Spares
  <2>7. (\A i \in 1..k : marks[i].film # f) => Len(next) = k
    BY <1>1, <1>2, <2>2 DEF Spares
  <2> QED
    BY <2>1, <2>2, <2>4, <2>5, <2>6, <2>7 DEF Spares
<1> QED
  BY <1>3, <1>4

\* a is the beginning of b.
Starts(a, b) == Len(a) <= Len(b) /\ \A i \in 1..Len(a) : a[i] = b[i]

\* The film gone from a list, and from any beginning of it.
LEMMA WithoutBeginnings ==
    ASSUME NEW marks \in Seq(Mark), EachOnce(marks), NEW f, NEW k \in 0..Len(marks)
    PROVE  /\ Spares(marks, f, k, Without(SubSeq(marks, 1, k), f))
           /\ Spares(marks, f, Len(marks), Without(marks, f))
           /\ Starts(Without(SubSeq(marks, 1, k), f), Without(marks, f))
<1> DEFINE n == Len(marks)
           cut == SubSeq(marks, 1, k)
<1>1. n \in Nat /\ k \in Nat /\ k <= n
  OBVIOUS
<1>2. PICK kept : /\ kept[0] = <<>>
                  /\ \A j \in 1..n : kept[j] = Spared(f, kept[j - 1], marks[j])
                  /\ Without(marks, f) = kept[n]
  BY WithoutTurns
<1>3. /\ cut \in Seq(Mark) /\ Len(cut) = k /\ \A j \in 1..k : cut[j] = marks[j]
  BY <1>1
<1> HIDE DEF n, cut
<1>4. PICK left : /\ left[0] = <<>>
                  /\ \A j \in 1..k : left[j] = Spared(f, left[j - 1], cut[j])
                  /\ Without(cut, f) = left[k]
  BY <1>3, WithoutTurns
<1>5. left[k] = kept[k]
  <2> DEFINE S == {j \in 0..k : left[j] = kept[j]}
  <2>1. 0 \in S
    BY <1>1, <1>2, <1>4
  <2>2. ASSUME NEW j \in 0..(k - 1), j \in S
        PROVE  j + 1 \in S
    <3> DEFINE i == j + 1
    <3>1. i \in 1..k /\ i \in 1..n /\ i \in 0..k /\ j = i - 1
      BY <1>1
    <3>2. left[j] = kept[j]
      BY <2>2
    <3> HIDE DEF i, S
    <3>3. left[i] = kept[i]
      BY <1>2, <1>3, <1>4, <3>1, <3>2
    <3> QED
      BY <3>1, <3>3 DEF i, S
  <2>3. \A j \in 0..k : j \in S
    <3> HIDE DEF S
    <3> QED
      BY <1>1, <2>1, <2>2, Induction
  <2> QED
    BY <1>1, <2>3
<1>6. \A j \in 0..n : Spares(marks, f, j, kept[j])
  <2> DEFINE S == {j \in 0..n : Spares(marks, f, j, kept[j])}
  <2>1. 0 \in S
    <3>1. kept[0] \in Seq(Mark) /\ DOMAIN kept[0] = {} /\ Len(kept[0]) = 0
      BY <1>2
    <3> QED
      BY <1>1, <3>1 DEF Spares, EachOnce
  <2>2. ASSUME NEW j \in 0..(n - 1), j \in S
        PROVE  j + 1 \in S
    <3> DEFINE i == j + 1
    <3>1. i \in 1..n /\ i \in 0..n /\ j = i - 1
      BY <1>1
    <3>2. Spares(marks, f, i - 1, kept[i - 1])
      BY <2>2, <3>1
    <3> HIDE DEF i
    <3>3. Spares(marks, f, i, kept[i])
      <4>1. i \in 1..Len(marks)
        BY <3>1 DEF n
      <4>2. Spares(marks, f, i, Spared(f, kept[i - 1], marks[i]))
        BY <3>2, <4>1, TurnSpares
      <4> QED
        BY <1>2, <3>1, <4>2
    <3> QED
      BY <3>1, <3>3 DEF i
  <2>3. \A j \in 0..n : j \in S
    <3> HIDE DEF S
    <3> QED
      BY <1>1, <2>1, <2>2, Induction
  <2> QED
    BY <2>3
<1>7. \A j \in 1..n : Starts(kept[j - 1], kept[j])
  <2> SUFFICES ASSUME NEW j \in 1..n PROVE Starts(kept[j - 1], kept[j])
    OBVIOUS
  <2>1. kept[j - 1] \in Seq(Mark) /\ kept[j] = Spared(f, kept[j - 1], marks[j])
    BY <1>1, <1>2, <1>6 DEF Spares
  <2> QED
    BY <2>1 DEF Spared, Starts
<1>8. Starts(kept[k], kept[n])
  <2> DEFINE S == {j \in 0..(n - k) : Starts(kept[k], kept[k + j])}
  <2>1. 0 \in S
    <3>1. kept[k] \in Seq(Mark)
      BY <1>1, <1>6 DEF Spares
    <3> QED
      BY <1>1, <3>1 DEF Starts
  <2>2. ASSUME NEW j \in 0..((n - k) - 1), j \in S
        PROVE  j + 1 \in S
    <3> DEFINE i == k + (j + 1)
    <3>1. i \in 1..n /\ i - 1 = k + j /\ i - 1 \in 0..n /\ i \in 0..n /\ j + 1 \in 0..(n - k)
      BY <1>1
    <3>2. Starts(kept[k], kept[i - 1]) 
      BY <2>2, <3>1
    <3> HIDE DEF i
    <3>3. Starts(kept[i - 1], kept[i])
      BY <1>7, <3>1
    <3>4. kept[k] \in Seq(Mark) /\ kept[i - 1] \in Seq(Mark) /\ kept[i] \in Seq(Mark)
      BY <1>1, <1>6, <3>1 DEF Spares
    <3>5. Starts(kept[k], kept[i])
      BY <3>2, <3>3, <3>4 DEF Starts
    <3> QED
      BY <3>1, <3>5 DEF i
  <2>3. n - k \in Nat
    BY <1>1
  <2>4. \A j \in 0..(n - k) : j \in S
    <3> DEFINE d == n - k
    <3> HIDE DEF S
    <3>1. \A j \in 0..(d - 1) : j \in S => j + 1 \in S
      BY <2>2
    <3> HIDE DEF d
    <3>2. d \in Nat
      BY <2>3 DEF d
    <3>3. \A j \in 0..d : j \in S
      BY <2>1, <3>1, <3>2, Induction
    <3> QED
      BY <3>3 DEF d
  <2>5. n - k \in 0..(n - k) /\ k + (n - k) = n
    BY <1>1
  <2> QED
    BY <2>4, <2>5
<1> QED
  <2>1. k \in 0..n /\ n \in 0..n
    BY <1>1
  <2> QED
    BY <1>2, <1>4, <1>5, <1>6, <1>8, <2>1 DEF n, cut

\* Keeping the newest, of a list or of its beginning.
LEMMA NewestKeeps ==
    ASSUME NEW marks \in Seq(Mark)
    PROVE  /\ Newest(marks) \in Seq(Mark) /\ Len(Newest(marks)) <= MAX_PROGRESS
           /\ Len(Newest(marks)) <= Len(marks)
           /\ \A i \in 1..Len(Newest(marks)) : Newest(marks)[i] = marks[i]
           /\ Len(marks) <= MAX_PROGRESS => Newest(marks) = marks
           /\ Len(marks) > MAX_PROGRESS => Len(Newest(marks)) = MAX_PROGRESS
<1> DEFINE k == IF Len(marks) < MAX_PROGRESS THEN Len(marks) ELSE MAX_PROGRESS
<1>1. k \in Nat /\ k <= Len(marks) /\ k <= MAX_PROGRESS /\ MAX_PROGRESS \in Nat
      /\ (Len(marks) <= MAX_PROGRESS => k = Len(marks))
      /\ (Len(marks) > MAX_PROGRESS => k = MAX_PROGRESS)
  BY MoviesAssumption
<1>2. Newest(marks) = SubSeq(marks, 1, k)
  BY DEF Newest
<1> HIDE DEF k
<1>3. Newest(marks) \in Seq(Mark) /\ Len(Newest(marks)) = k /\ \A i \in 1..k : Newest(marks)[i] = marks[i]
  BY <1>1, <1>2
<1>4. k = Len(marks) => Newest(marks) = marks
  BY <1>2
<1> QED
  BY <1>1, <1>3, <1>4

\* Beginnings that are long enough have the same newest.
LEMMA NewestOfBeginnings ==
    ASSUME NEW a \in Seq(Mark), NEW b \in Seq(Mark), Starts(a, b),
           a = b \/ Len(a) >= MAX_PROGRESS
    PROVE  Newest(a) = Newest(b)
<1>1. CASE a = b
  BY <1>1
<1>2. CASE Len(a) >= MAX_PROGRESS
  <2>1. MAX_PROGRESS \in Nat /\ Len(a) \in Nat /\ Len(b) \in Nat /\ Len(a) <= Len(b)
    BY MoviesAssumption DEF Starts
  <2>2. Newest(a) = SubSeq(a, 1, MAX_PROGRESS) /\ Newest(b) = SubSeq(b, 1, MAX_PROGRESS)
    BY <1>2, <2>1 DEF Newest
  <2>3. /\ SubSeq(a, 1, MAX_PROGRESS) = [i \in 1..MAX_PROGRESS |-> a[i]]
        /\ SubSeq(b, 1, MAX_PROGRESS) = [i \in 1..MAX_PROGRESS |-> b[i]]
    BY <1>2, <2>1
  <2>4. \A i \in 1..MAX_PROGRESS : a[i] = b[i]
    BY <1>2, <2>1 DEF Starts
  <2> QED
    BY <2>2, <2>3, <2>4
<1> QED
  BY <1>1, <1>2

\* A mark in front of a list.
LEMMA InFront ==
    ASSUME NEW M, NEW marks \in Seq(M), NEW item \in M
    PROVE  /\ <<item>> \o marks \in Seq(M) /\ Len(<<item>> \o marks) = Len(marks) + 1
           /\ (<<item>> \o marks)[1] = item
           /\ \A i \in 2..(Len(marks) + 1) : (<<item>> \o marks)[i] = marks[i - 1]
<1>1. Len(marks) \in Nat /\ <<item>> \in Seq(M) /\ Len(<<item>>) = 1
  OBVIOUS
<1>2. <<item>> \o marks \in Seq(M)
  BY <1>1
<1>3. Len(<<item>> \o marks) = Len(marks) + 1
  BY <1>1
<1>4. (<<item>> \o marks)[1] = item
  BY <1>1
<1>5. ASSUME NEW i \in 2..(Len(marks) + 1) PROVE (<<item>> \o marks)[i] = marks[i - 1]
  BY <1>1
<1> QED
  BY <1>2, <1>3, <1>4, <1>5

\* The film goes to the front of the list.
Moved(marks, item) == <<item>> \o Without(marks, item.film)

LEMMA MovedIsAList ==
    ASSUME NEW marks \in Seq(Mark), EachOnce(marks), NEW item \in Mark
    PROVE  Moved(marks, item) \in Seq(Mark) /\ EachOnce(Moved(marks, item))
<1> DEFINE kept == Without(marks, item.film)
<1>1. kept \in Seq(Mark) /\ EachOnce(kept) /\ \A m \in DOMAIN kept : kept[m].film # item.film
  <2>1. Len(marks) \in 0..Len(marks)
    OBVIOUS
  <2>2. Spares(marks, item.film, Len(marks), kept)
    BY <2>1, WithoutBeginnings
  <2> QED
    BY <2>2 DEF Spares
<1> HIDE DEF kept
<1> DEFINE all == <<item>> \o kept
<1>2. /\ all \in Seq(Mark) /\ Len(all) = Len(kept) + 1 /\ all[1] = item
      /\ \A i \in 2..(Len(kept) + 1) : all[i] = kept[i - 1]
  BY <1>1, InFront
<1>3. Moved(marks, item) = all
  BY DEF Moved, kept
<1> HIDE DEF all
<1>4. /\ all \in Seq(Mark) /\ all[1] = item
      /\ \A i \in DOMAIN all : i # 1 => i - 1 \in DOMAIN kept /\ all[i] = kept[i - 1]
      /\ DOMAIN all \subseteq Int
  <2>1. DOMAIN all = 1..(Len(kept) + 1) /\ DOMAIN kept = 1..Len(kept) /\ Len(kept) \in Nat
    BY <1>1, <1>2
  <2>2. \A i \in DOMAIN all : i # 1 => i \in 2..(Len(kept) + 1) /\ i - 1 \in DOMAIN kept
    BY <2>1
  <2> QED
    BY <1>2, <2>1, <2>2
<1>5. ASSUME NEW m \in DOMAIN all, NEW n \in DOMAIN all, all[m].film = all[n].film
      PROVE  m = n
  <2>1. CASE m = 1 \/ n = 1
    BY <1>1, <1>4, <1>5, <2>1
  <2>2. CASE m # 1 /\ n # 1
    <3>1. m - 1 = n - 1
      BY <1>1, <1>4, <1>5, <2>2 DEF EachOnce
    <3> QED
      BY <1>4, <3>1
  <2> QED
    BY <2>1, <2>2
<1> QED
  BY <1>3, <1>4, <1>5 DEF EachOnce

\* It comes to the same whether the list was cut before or not.
LEMMA MovedWithinTheNewest ==
    ASSUME NEW marks \in Seq(Mark), EachOnce(marks), NEW item \in Mark
    PROVE  Newest(Moved(Newest(marks), item)) = Newest(Moved(marks, item))
<1> DEFINE f == item.film
           n == Len(marks)
<1>1. MAX_PROGRESS \in Nat \ {0} /\ n \in Nat
  BY MoviesAssumption
<1>2. CASE n <= MAX_PROGRESS
  <2>1. Newest(marks) = marks
    BY <1>2, NewestKeeps
  <2> QED
    BY <2>1
<1>3. CASE n > MAX_PROGRESS
  <2> DEFINE a == Without(Newest(marks), f)
             b == Without(marks, f)
  <2>1. Newest(marks) = SubSeq(marks, 1, MAX_PROGRESS) /\ MAX_PROGRESS \in 0..Len(marks)
    BY <1>1, <1>3 DEF Newest
  <2>2. Spares(marks, f, MAX_PROGRESS, a) /\ Spares(marks, f, Len(marks), b) /\ Starts(a, b)
    BY <2>1, WithoutBeginnings
  <2>3. a \in Seq(Mark) /\ b \in Seq(Mark) /\ MAX_PROGRESS <= Len(a) + 1
    BY <2>2 DEF Spares
  <2> DEFINE x == <<item>> \o a
             y == <<item>> \o b
  <2>4. Moved(Newest(marks), item) = x /\ Moved(marks, item) = y
    BY DEF Moved
  <2> HIDE DEF a, b
  <2>5. /\ x \in Seq(Mark) /\ Len(x) = Len(a) + 1 /\ x[1] = item
        /\ \A i \in 2..(Len(a) + 1) : x[i] = a[i - 1]
    BY <2>3, InFront
  <2>6. /\ y \in Seq(Mark) /\ Len(y) = Len(b) + 1 /\ y[1] = item
        /\ \A i \in 2..(Len(b) + 1) : y[i] = b[i - 1]
    BY <2>3, InFront
  <2> HIDE DEF x, y
  <2>7. Starts(x, y)
    <3>1. Len(a) \in Nat /\ Len(b) \in Nat /\ Len(a) <= Len(b)
      BY <2>2, <2>3 DEF Starts
    <3>2. ASSUME NEW i \in 1..(Len(a) + 1) PROVE x[i] = y[i]
      <4>1. CASE i = 1
        BY <2>5, <2>6, <4>1
      <4>2. CASE i # 1
        <5>1. i \in 2..(Len(a) + 1) /\ i \in 2..(Len(b) + 1) /\ i - 1 \in 1..Len(a)
          BY <3>1, <4>2
        <5> QED
          BY <2>2, <2>5, <2>6, <5>1 DEF Starts
      <4> QED
        BY <4>1, <4>2
    <3> QED
      BY <2>5, <2>6, <3>1, <3>2 DEF Starts
  <2>8. Len(x) >= MAX_PROGRESS
    BY <1>1, <2>3, <2>5
  <2>9. Newest(x) = Newest(y)
    BY <2>5, <2>6, <2>7, <2>8, NewestOfBeginnings
  <2> QED
    BY <2>4, <2>9
<1> QED
  BY <1>1, <1>2, <1>3

\* What saveProgress writes.
LEMMA NextListIsNewest ==
    ASSUME NEW marks \in Seq(Mark), EachOnce(marks), NEW item \in Mark
    PROVE  NextList(marks, item) = Newest(Moved(marks, item))
<1> DEFINE all == Moved(marks, item)
<1>1. all \in Seq(Mark)
  BY MovedIsAList
<1>2. NextList(marks, item) = IF Len(all) > MAX_PROGRESS THEN SubSeq(all, 1, MAX_PROGRESS) ELSE all
  BY DEF NextList, Moved
<1> HIDE DEF all
<1>3. MAX_PROGRESS \in Nat /\ Len(all) \in Nat
  BY <1>1, MoviesAssumption
<1>4. NextList(marks, item) = Newest(all)
  <2>1. CASE Len(all) > MAX_PROGRESS
    BY <1>2, <1>3, <2>1 DEF Newest
  <2>2. CASE ~(Len(all) > MAX_PROGRESS)
    BY <1>1, <1>2, <1>3, <2>2, NewestKeeps
  <2> QED
    BY <2>1, <2>2
<1> QED
  BY <1>4 DEF all

\* The mark of a film in a list is one of its marks, or none, and it is that of the
\* whole list when the film is among the newest.
LEMMA MarkOfFirst ==
    ASSUME NEW marks \in Seq(Mark), NEW f
    PROVE  /\ MarkOf(marks, f) \in 0..LENGTH
           /\ \/ MarkOf(Newest(marks), f) = MarkOf(marks, f)
              \/ MarkOf(Newest(marks), f) = 0
<1> DEFINE found(l) == {i \in DOMAIN l : l[i].film = f}
           cut == Newest(marks)
<1>1. LENGTH \in Nat
  BY MoviesAssumption
<1>2. \A l \in Seq(Mark) : found(l) # {} => Min(found(l)) \in found(l) /\ \A k \in found(l) : Min(found(l)) <= k
  <2> SUFFICES ASSUME NEW l \in Seq(Mark), found(l) # {}
               PROVE  Min(found(l)) \in found(l) /\ \A k \in found(l) : Min(found(l)) <= k
    OBVIOUS
  <2>1. found(l) \in SUBSET Nat
    OBVIOUS
  <2> HIDE DEF found
  <2> QED
    BY <2>1, Least
<1>3. \A l : MarkOf(l, f) = IF found(l) = {} THEN 0 ELSE l[Min(found(l))].at
  BY DEF MarkOf
<1>4. MarkOf(marks, f) \in 0..LENGTH
  <2>1. CASE found(marks) = {}
    <3>1. MarkOf(marks, f) = 0
      BY <1>3, <2>1
    <3> QED
      BY <1>1, <3>1
  <2>2. CASE found(marks) # {}
    <3> DEFINE i == Min(found(marks))
    <3>1. i \in DOMAIN marks
      BY <1>2, <2>2
    <3>2. MarkOf(marks, f) = marks[i].at
      BY <1>3, <2>2
    <3> HIDE DEF i
    <3>3. marks[i] \in Mark
      BY <3>1
    <3> QED
      BY <3>2, <3>3 DEF Mark
  <2> QED
    BY <2>1, <2>2
<1>5. /\ cut \in Seq(Mark) /\ DOMAIN cut \subseteq DOMAIN marks /\ DOMAIN marks \subseteq Int
      /\ \A i \in DOMAIN cut : cut[i] = marks[i] /\ \A j \in DOMAIN marks : j <= i => j \in DOMAIN cut
  <2>1. cut \in Seq(Mark) /\ Len(cut) <= Len(marks) /\ \A i \in 1..Len(cut) : cut[i] = marks[i]
    BY NewestKeeps
  <2> HIDE DEF cut
  <2> QED
    BY <2>1
<1> HIDE DEF cut
<1>6. ASSUME found(cut) # {}
      PROVE  MarkOf(cut, f) = MarkOf(marks, f)
  <2> DEFINE i == Min(found(cut))
             j == Min(found(marks))
  <2>1. i \in found(cut) /\ \A k \in found(cut) : i <= k
    BY <1>2, <1>5, <1>6
  <2>2. i \in found(marks)
    <3> HIDE DEF i
    <3> QED
      BY <1>5, <2>1
  <2>3. j \in found(marks) /\ \A k \in found(marks) : j <= k
    BY <1>2, <2>2
  <2> HIDE DEF i, j
  <2>4. j \in found(cut)
    BY <1>5, <2>1, <2>2, <2>3
  <2>5. i = j
    <3>1. i <= j /\ j <= i /\ i \in Int /\ j \in Int
      BY <1>5, <2>1, <2>2, <2>3, <2>4
    <3> QED
      BY <3>1
  <2>6. cut[i] = marks[j]
    BY <1>5, <2>1, <2>5
  <2>7. MarkOf(cut, f) = cut[i].at /\ MarkOf(marks, f) = marks[j].at
    BY <1>3, <1>6, <2>2 DEF i, j
  <2> QED
    BY <2>6, <2>7
<1>7. found(cut) = {} => MarkOf(cut, f) = 0
  BY <1>3
<1> QED
  BY <1>4, <1>6, <1>7 DEF cut

\* Of a list with each film once, the newest are each there once.
LEMMA NewestOnce ==
    ASSUME NEW marks \in Seq(Mark), EachOnce(marks)
    PROVE  EachOnce(Newest(marks))
<1> DEFINE cut == Newest(marks)
<1>1. cut \in Seq(Mark) /\ Len(cut) <= Len(marks) /\ \A i \in 1..Len(cut) : cut[i] = marks[i]
  BY NewestKeeps
<1> HIDE DEF cut
<1>2. \A i \in DOMAIN cut : i \in DOMAIN marks /\ cut[i] = marks[i]
  BY <1>1
<1>3. EachOnce(cut)
  BY <1>2 DEF EachOnce
<1> QED
  BY <1>3 DEF cut

\* A save is taken out of those under way.
LEMMA OneSaveLess ==
    ASSUME NEW S, NEW marks \in Seq(S), NEW v \in DOMAIN marks
    PROVE  /\ RemoveAt(marks, v) \in Seq(S) /\ Len(RemoveAt(marks, v)) = Len(marks) - 1
           /\ \A i \in DOMAIN RemoveAt(marks, v) : \E j \in DOMAIN marks : RemoveAt(marks, v)[i] = marks[j]
<1> DEFINE a == SubSeq(marks, 1, v - 1)
           b == SubSeq(marks, v + 1, Len(marks))
<1>1. v \in 1..Len(marks) /\ Len(marks) \in Nat /\ DOMAIN marks = 1..Len(marks)
  OBVIOUS
<1>2. /\ a \in Seq(S) /\ Len(a) = v - 1 /\ \A i \in 1..(v - 1) : a[i] = marks[i]
  BY <1>1
<1>3. /\ b \in Seq(S) /\ Len(b) = Len(marks) - v /\ \A i \in 1..(Len(marks) - v) : b[i] = marks[v + i]
  BY <1>1
<1>4. RemoveAt(marks, v) = a \o b
  BY DEF RemoveAt
<1> HIDE DEF a, b
<1>5. a \o b \in Seq(S) /\ Len(a \o b) = Len(marks) - 1
  <2>1. a \in Seq(S) /\ b \in Seq(S)
    BY <1>2, <1>3
  <2>2. a \o b \in Seq(S) /\ Len(a \o b) = Len(a) + Len(b)
    BY <2>1
  <2> QED
    BY <1>1, <1>2, <1>3, <2>2
<1>6. ASSUME NEW i \in 1..(Len(marks) - 1)
      PROVE  \E j \in DOMAIN marks : (a \o b)[i] = marks[j]
  <2>1. CASE i < v
    <3>1. i \in 1..(v - 1) /\ (a \o b)[i] = a[i] /\ i \in DOMAIN marks
      BY <1>1, <1>2, <1>3, <2>1
    <3> QED
      BY <1>2, <3>1
  <2>2. CASE ~(i < v)
    <3> DEFINE k == i - (v - 1)
    <3>1. k \in 1..(Len(marks) - v) /\ v + k \in DOMAIN marks
      BY <1>1, <2>2
    <3>2. (a \o b)[i] = b[k]
      BY <1>1, <1>2, <1>3, <2>2
    <3> HIDE DEF k
    <3> QED
      BY <1>3, <3>1, <3>2
  <2> QED
    BY <2>1, <2>2
<1>7. DOMAIN (a \o b) = 1..(Len(marks) - 1)
  BY <1>5
<1> QED
  BY <1>4, <1>5, <1>6, <1>7

\* As long as saves did not overlap there is at most one, and the stored list is what
\* the viewer would tell, or told before the film of the save was left.
Told ==
    /\ saves = <<>> => progress = Newest(recent)
    /\ saves # <<>> =>
          /\ Len(saves) = 1
          /\ saves[1].read => saves[1].list = progress
          /\ \E before \in Seq(Mark) : /\ EachOnce(before) /\ progress = Newest(before)
                                       /\ recent = Moved(before, saves[1].item)

WatchInv ==
    /\ progress \in Seq(Mark) /\ Len(progress) <= MAX_PROGRESS /\ EachOnce(progress)
    /\ watching \in Watch
    /\ saves \in Seq(Save) /\ \A v \in DOMAIN saves : EachOnce(saves[v].list)
    /\ recent \in Seq(Mark) /\ EachOnce(recent)
    /\ clobbered \in BOOLEAN /\ visits \in 0..MaxVisits
    /\ watching.calm => /\ watching.open /\ saves = <<>>
                        /\ watching.startAt = MarkOf(progress, watching.film)
    /\ ~clobbered => Told

\* No film is watched.
LEMMA NoWatchIsOne == NoWatch \in Watch /\ ~NoWatch.calm /\ ~NoWatch.open
<1>1. (CHOOSE f \in Films : TRUE) \in Films /\ 0 \in 0..LENGTH
  BY MoviesAssumption
<1> QED
  BY <1>1 DEF NoWatch, Watch

LEMMA WatchStarts == MoviesInit => WatchInv
<1> SUFFICES ASSUME MoviesInit PROVE WatchInv
  OBVIOUS
<1>1. /\ progress = <<>> /\ recent = <<>> /\ saves = <<>> /\ watching = NoWatch
      /\ clobbered = FALSE /\ visits = 0
  BY DEF MoviesInit
<1>2. MAX_PROGRESS \in Nat \ {0} /\ 0 \in 0..MaxVisits
  BY MoviesAssumption
<1>3. Newest(<<>>) = <<>>
  BY <1>2 DEF Newest
<1>4. Told
  BY <1>1, <1>3 DEF Told
<1>5. progress \in Seq(Mark) /\ recent \in Seq(Mark) /\ saves \in Seq(Save)
  BY <1>1
<1>6. /\ Len(progress) <= MAX_PROGRESS /\ EachOnce(progress) /\ EachOnce(recent)
      /\ \A v \in DOMAIN saves : EachOnce(saves[v].list)
  BY <1>1, <1>2 DEF EachOnce
<1> QED
  BY <1>1, <1>2, <1>4, <1>5, <1>6, NoWatchIsOne DEF WatchInv

\* A screen that changes while nothing else does.
LEMMA ScreenKeepsWatch ==
    ASSUME WatchInv, watching' \in Watch, visits' \in 0..MaxVisits,
           UNCHANGED <<progress, saves, recent, clobbered>>,
           watching'.calm => /\ watching'.open /\ saves = <<>>
                             /\ watching'.startAt = MarkOf(progress, watching'.film)
    PROVE  WatchInv'
<1>1. Told => Told'
  BY DEF Told
<1>2. \A l : EachOnce(l)' = EachOnce(l)
  BY DEF EachOnce
<1> QED
  BY <1>1 DEF WatchInv

\* The player opens, reads, gets its stream, plays.
LEMMA PlayerKeepsWatch ==
    ASSUME WatchInv, (\E f \in Films : OpenFilm(f)) \/ ProgressRead \/ StreamArrives
                     \/ (\E p \in 0..LENGTH : Plays(p))
    PROVE  WatchInv'
<1>1. watching \in Watch /\ visits \in 0..MaxVisits /\ progress \in Seq(Mark)
  BY DEF WatchInv
<1>2. ASSUME NEW f \in Films, OpenFilm(f) PROVE WatchInv'
  <2>1. /\ watching' = [NoWatch EXCEPT !.film = f, !.open = TRUE]
        /\ UNCHANGED <<progress, saves, recent, clobbered>> /\ visits' = visits + 1 /\ visits < MaxVisits
    BY <1>2 DEF OpenFilm
  <2>2. watching' \in Watch /\ ~watching'.calm
    BY <2>1, NoWatchIsOne DEF Watch
  <2>3. visits' \in 0..MaxVisits
    BY <1>1, <2>1, MoviesAssumption
  <2> QED
    BY <2>1, <2>2, <2>3, ScreenKeepsWatch
<1>3. CASE ProgressRead
  <2> DEFINE quiet == saves = <<>>
             mark == MarkOf(progress, watching.film)
  <2>1. quiet \in BOOLEAN /\ mark \in 0..LENGTH
    BY <1>1, MarkOfFirst
  <2>2. /\ watching' = [watching EXCEPT !.read = TRUE, !.calm = quiet, !.startAt = mark]
        /\ watching.open
        /\ UNCHANGED <<progress, saves, recent, clobbered, visits>>
    BY <1>3 DEF ProgressRead
  <2>3. /\ watching' \in Watch /\ watching'.calm = quiet /\ watching'.open
        /\ watching'.startAt = mark /\ watching'.film = watching.film
    <3> HIDE DEF quiet, mark
    <3> QED
      BY <1>1, <2>1, <2>2 DEF Watch
  <2> QED
    BY <1>1, <2>2, <2>3, ScreenKeepsWatch
<1>4. CASE StreamArrives
  <2>1. /\ \/ watching' = [watching EXCEPT !.url = TRUE, !.from = watching.startAt]
           \/ watching' = [watching EXCEPT !.failed = TRUE]
        /\ UNCHANGED <<progress, saves, recent, clobbered, visits>>
    BY <1>4 DEF StreamArrives
  <2>2. /\ watching' \in Watch /\ watching'.calm = watching.calm /\ watching'.open = watching.open
        /\ watching'.startAt = watching.startAt /\ watching'.film = watching.film
    BY <1>1, <2>1 DEF Watch
  <2> QED
    BY <1>1, <2>1, <2>2, ScreenKeepsWatch DEF WatchInv
<1>5. ASSUME NEW p \in 0..LENGTH, Plays(p) PROVE WatchInv'
  <2>1. /\ watching' = [watching EXCEPT !.at = p, !.timed = TRUE]
        /\ UNCHANGED <<progress, saves, recent, clobbered, visits>>
    BY <1>5 DEF Plays
  <2>2. /\ watching' \in Watch /\ watching'.calm = watching.calm /\ watching'.open = watching.open
        /\ watching'.startAt = watching.startAt /\ watching'.film = watching.film
    BY <1>1, <2>1 DEF Watch
  <2> QED
    BY <1>1, <2>1, <2>2, ScreenKeepsWatch DEF WatchInv
<1> QED
  BY <1>2, <1>3, <1>4, <1>5

\* The player is left: the viewer would tell of the film first.
LEMMA ClosingKeepsWatch ==
    ASSUME WatchInv, CloseFilm
    PROVE  WatchInv'
<1> DEFINE item == [film |-> watching.film, at |-> watching.at]
           save == [item |-> item, list |-> <<>>, read |-> FALSE]
<1>1. watching \in Watch /\ recent \in Seq(Mark) /\ EachOnce(recent) /\ saves \in Seq(Save)
      /\ visits \in 0..MaxVisits
  BY DEF WatchInv
<1>2. watching' = NoWatch /\ UNCHANGED <<progress, visits>>
  BY DEF CloseFilm
<1>3. CASE Keeps(watching.at) /\ watching.timed
  <2>1. /\ saves' = Append(saves, save)
        /\ clobbered' = (clobbered \/ saves # <<>>)
        /\ recent' = Moved(recent, item)
    BY <1>3 DEF CloseFilm, Moved
  <2>2. item \in Mark
    BY <1>1 DEF Watch, Mark
  <2>3. save \in Save /\ EachOnce(save.list) /\ save.item = item /\ ~save.read
    <3> DEFINE empty == <<>>
    <3>1. empty \in Seq(Mark) /\ EachOnce(empty)
      BY DEF EachOnce
    <3>2. save = [item |-> item, list |-> empty, read |-> FALSE]
      OBVIOUS
    <3> HIDE DEF empty, item, save
    <3> QED
      BY <2>2, <3>1, <3>2 DEF Save
  <2> HIDE DEF item, save
  <2>4. recent' \in Seq(Mark) /\ EachOnce(recent')
    BY <1>1, <2>1, <2>2, MovedIsAList
  <2>5. /\ saves' \in Seq(Save) /\ Len(saves') = Len(saves) + 1 /\ saves'[Len(saves) + 1] = save
        /\ \A v \in DOMAIN saves' : (v \in DOMAIN saves /\ saves'[v] = saves[v]) \/ saves'[v] = save
    BY <1>1, <2>1, <2>3
  <2>6. \A v \in DOMAIN saves' : EachOnce(saves'[v].list)
    BY <2>3, <2>5 DEF WatchInv
  <2>7. clobbered' \in BOOLEAN
    BY <2>1 DEF WatchInv
  <2>8. ASSUME ~clobbered' PROVE Told'
    <3>1. ~clobbered /\ saves = <<>>
      BY <2>1, <2>8
    <3>2. progress = Newest(recent)
      BY <3>1 DEF WatchInv, Told
    <3>3. Len(saves') = 1 /\ saves'[1] = save /\ saves' # <<>>
      BY <2>1, <2>5, <3>1
    <3>4. progress' = Newest(recent) /\ recent' = Moved(recent, saves'[1].item) /\ ~saves'[1].read
      BY <1>2, <2>1, <2>3, <3>2, <3>3
    <3> QED
      BY <1>1, <3>3, <3>4 DEF Told
  <2> QED
    BY <1>1, <1>2, <2>4, <2>5, <2>6, <2>7, <2>8, NoWatchIsOne DEF WatchInv
<1>4. CASE ~(Keeps(watching.at) /\ watching.timed)
  <2>1. UNCHANGED <<saves, clobbered, recent>>
    BY <1>4 DEF CloseFilm
  <2> QED
    BY <1>1, <1>2, <2>1, NoWatchIsOne, ScreenKeepsWatch
<1> QED
  BY <1>3, <1>4

\* A save reads the list and writes it back.
LEMMA SavingKeepsWatch ==
    ASSUME WatchInv, NEW v \in DOMAIN saves, SaveReads(v) \/ SaveWrites(v)
    PROVE  WatchInv'
<1>1. /\ saves \in Seq(Save) /\ saves[v] \in Save /\ EachOnce(saves[v].list)
      /\ progress \in Seq(Mark) /\ EachOnce(progress) /\ Len(progress) <= MAX_PROGRESS
      /\ saves # <<>> /\ ~watching.calm
  BY DEF WatchInv
<1>2. ~clobbered => v = 1 /\ Len(saves) = 1
  BY <1>1 DEF WatchInv, Told
<1>3. CASE SaveReads(v)
  <2> DEFINE save == [saves[v] EXCEPT !.read = TRUE, !.list = progress]
  <2>1. saves' = [saves EXCEPT ![v] = save]
        /\ UNCHANGED <<progress, watching, recent, clobbered, visits>>
    BY <1>1, <1>3 DEF SaveReads
  <2>2. save \in Save /\ save.item = saves[v].item /\ save.list = progress
    BY <1>1 DEF Save
  <2> HIDE DEF save
  <2>3. /\ saves' \in Seq(Save) /\ DOMAIN saves' = DOMAIN saves /\ Len(saves') = Len(saves)
        /\ saves'[v] = save /\ \A w \in DOMAIN saves : w # v => saves'[w] = saves[w]
    BY <1>1, <2>1, <2>2
  <2>4. \A w \in DOMAIN saves' : EachOnce(saves'[w].list)
    BY <1>1, <2>2, <2>3 DEF WatchInv
  <2>5. ASSUME ~clobbered PROVE Told'
    <3>1. PICK before \in Seq(Mark) : /\ EachOnce(before) /\ progress = Newest(before)
                                      /\ recent = Moved(before, saves[1].item)
      BY <1>1, <2>5 DEF WatchInv, Told
    <3>2. Len(saves') = 1 /\ saves'[1].list = progress' /\ saves'[1].item = saves[1].item
          /\ saves' # <<>>
      BY <1>2, <2>1, <2>2, <2>3, <2>5
    <3> QED
      BY <2>1, <3>1, <3>2 DEF Told
  <2> QED
    BY <1>1, <2>1, <2>3, <2>4, <2>5 DEF WatchInv
<1>4. CASE SaveWrites(v)
  <2>1. /\ saves[v].read /\ progress' = NextList(saves[v].list, saves[v].item)
        /\ saves' = RemoveAt(saves, v)
        /\ UNCHANGED <<watching, recent, clobbered, visits>>
    BY <1>4 DEF SaveWrites
  <2>2. saves[v].list \in Seq(Mark) /\ saves[v].item \in Mark
    BY <1>1 DEF Save
  <2>3. /\ Moved(saves[v].list, saves[v].item) \in Seq(Mark)
        /\ EachOnce(Moved(saves[v].list, saves[v].item))
        /\ progress' = Newest(Moved(saves[v].list, saves[v].item))
    BY <1>1, <2>1, <2>2, MovedIsAList, NextListIsNewest
  <2>4. progress' \in Seq(Mark) /\ Len(progress') <= MAX_PROGRESS /\ EachOnce(progress')
    BY <2>3, NewestKeeps, NewestOnce
  <2>5. /\ saves' \in Seq(Save) /\ Len(saves') = Len(saves) - 1
        /\ \A w \in DOMAIN saves' : EachOnce(saves'[w].list)
    <3>1. /\ saves' \in Seq(Save) /\ Len(saves') = Len(saves) - 1
          /\ \A i \in DOMAIN saves' : \E j \in DOMAIN saves : saves'[i] = saves[j]
      BY <1>1, <2>1, OneSaveLess
    <3> QED
      BY <3>1 DEF WatchInv
  <2>6. ASSUME ~clobbered PROVE Told'
    <3>1. PICK before \in Seq(Mark) : /\ EachOnce(before) /\ progress = Newest(before)
                                      /\ recent = Moved(before, saves[1].item)
      BY <1>1, <2>6 DEF WatchInv, Told
    <3>2. v = 1 /\ saves[1].list = progress
      BY <1>1, <1>2, <2>1, <2>6 DEF WatchInv, Told
    <3>3. progress' = Newest(Moved(before, saves[1].item))
      BY <2>2, <2>3, <3>1, <3>2, MovedWithinTheNewest
    <3>4. progress' = Newest(recent')
      BY <2>1, <3>1, <3>3
    <3>5. saves' = <<>>
      <4>1. Len(saves') = 0
        BY <1>2, <2>5, <2>6
      <4> QED
        BY <2>5, <4>1
    <3> QED
      BY <3>4, <3>5 DEF Told
  <2> QED
    BY <1>1, <2>1, <2>4, <2>5, <2>6 DEF WatchInv
<1> QED
  BY <1>3, <1>4

\* The search leaves the positions alone.
LEMMA WatchInductive == WatchInv /\ [SearchNext \/ WatchNext]_MoviesVars => WatchInv'
<1> SUFFICES ASSUME WatchInv, [SearchNext \/ WatchNext]_MoviesVars PROVE WatchInv'
  OBVIOUS
<1>1. CASE SearchNext \/ UNCHANGED MoviesVars
  <2>1. UNCHANGED <<progress, watching, saves, recent, clobbered, visits>>
    BY <1>1 DEF SearchNext, TypeFilm, PickLanguage, SearchDebounced, ResultsArrive, MoviesVars, WatchVars
  <2>2. watching' \in Watch /\ visits' \in 0..MaxVisits
    BY <2>1 DEF WatchInv
  <2> QED
    BY <2>1, <2>2, ScreenKeepsWatch DEF WatchInv
<1>2. CASE WatchNext
  BY <1>2, PlayerKeepsWatch, ClosingKeepsWatch, SavingKeepsWatch DEF WatchNext
<1> QED
  BY <1>1, <1>2

\* Unless two saves overlapped, what is stored is the beginning of what the viewer would
\* tell, and a film goes on where it was left, for any number of films and visits and
\* however many positions are kept.
THEOREM FilmsResume == MoviesSpec => []ResumesWhereLeft
<1>1. WatchInv => ResumesWhereLeft
  <2> SUFFICES ASSUME WatchInv, ~clobbered PROVE
          /\ saves = <<>> => progress = Newest(recent)
          /\ watching.calm /\ watching.startAt = watching.from =>
                \/ watching.from = MarkOf(recent, watching.film)
                \/ watching.from = 0 /\ MarkOf(progress, watching.film) = 0
    BY DEF ResumesWhereLeft, Newest
  <2>1. saves = <<>> => progress = Newest(recent)
    BY DEF WatchInv, Told
  <2>2. ASSUME watching.calm, watching.startAt = watching.from
        PROVE  \/ watching.from = MarkOf(recent, watching.film)
               \/ watching.from = 0 /\ MarkOf(progress, watching.film) = 0
    <3>1. watching.from = MarkOf(progress, watching.film) /\ progress = Newest(recent)
      BY <2>1, <2>2 DEF WatchInv
    <3>2. recent \in Seq(Mark)
      BY DEF WatchInv
    <3> QED
      BY <3>1, <3>2, MarkOfFirst
  <2> QED
    BY <2>1, <2>2
<1> QED
  BY <1>1, WatchStarts, WatchInductive, PTL DEF MoviesSpec

\* The state of the films is of its type: in particular no more positions are ever
\* stored than MAX_PROGRESS.
THEOREM MoviesAreTyped == MoviesSpec => []MoviesTypeOK
<1>1. SearchInv /\ SearchTyped /\ WatchInv => MoviesTypeOK
  <2> SUFFICES ASSUME SearchInv, SearchTyped, WatchInv PROVE MoviesTypeOK
    OBVIOUS
  <2>1. \A a \in asks : a.of \in Search /\ a.alive \in BOOLEAN
    BY DEF SearchInv
  <2>2. \A v \in DOMAIN saves : saves[v].item \in Mark /\ saves[v].list \in Seq(Mark)
    <3>1. \A v \in DOMAIN saves : saves[v] \in Save
      BY DEF WatchInv
    <3> QED
      BY <3>1 DEF Save
  <2> QED
    BY <2>1, <2>2 DEF MoviesTypeOK, SearchTyped, WatchInv
<1> QED
  BY <1>1, SearchesAlways, WatchStarts, WatchInductive, PTL DEF MoviesSpec

-----------------------------------------------------------------------------
(* The channel lists.  A call that met no other of another kind, or filter, is *)
(* alone, and was made with the filter and the page number as they still are. *)

MobileListsSpec == MobileListsInit /\ [][MobileListsNext]_MobileListsVars

Mores == {"more", "more2"}

\* A call that met no other is the only one.
UnmetIsAlone ==
    \A k \in Kinds : Going(k) /\ ~call[k].met => \A j \in Kinds \ {k} : ~Going(j)

\* What such a call asks for is what the list needs.
AsksForTheNext ==
    /\ Going("first") => call["first"].of = [filter |-> wanted, page |-> 1]
    /\ Going("pull") /\ ~call["pull"].met => call["pull"].of = [filter |-> wanted, page |-> 1]
    /\ \A k \in Mores : Going(k) /\ ~call[k].met =>
          call[k].of = [filter |-> wanted, page |-> at + 1]

\* More is asked for once at a time, under a list that has pages left.
MoreIsLeft ==
    /\ items = <<>> => totalPages = 1
    /\ at <= totalPages
    /\ ~(Going("more") /\ Going("more2"))
    /\ \A k \in Mores : Going(k) => at < LastPage /\ items # <<>>

ListsInv ==
    /\ MobileListsTypeOK /\ UnmetIsAlone /\ AsksForTheNext /\ MoreIsLeft /\ PagesInOrder

\* No call is a call, of no step.
LEMMA NoCallIsOne ==
    ASSUME wanted \in Filters
    PROVE  NoCall \in Call /\ NoCall.step = "none"
<1>1. [filter |-> CHOOSE f \in Filters : TRUE, page |-> 1] \in Piece
  BY MobileListsAssumption DEF Piece
<1> QED
  BY <1>1 DEF NoCall, Call

\* A call that starts where none of its kind, or only a first load, is under way meets
\* all that are.
LEMMA CallsMeet ==
    ASSUME MobileListsTypeOK, NEW k \in Kinds, NEW c \in Piece, NEW step \in {"cache", "asked"},
           k \in Mores => ~LoadingMore,
           call' = WithCall(k, c, step)
    PROVE  /\ call' \in [Kinds -> Call] /\ call'[k].step = step /\ call'[k].of = c
           /\ ~call'[k].met => \A j \in Kinds \ {k} : ~Going(j)
           /\ \A j \in Kinds \ {k} : /\ call'[j].step = call[j].step
                                     /\ call'[j].of = call[j].of
                                     /\ Going(j) => call'[j].met
<1>0. call \in [Kinds -> Call] /\ wanted \in Filters
  BY DEF MobileListsTypeOK
<1>1. \A j \in Kinds \ {k} : Going(j) => {j, k} # {"more", "more2"}
  BY DEF Mores, LoadingMore
<1> DEFINE met == \E i \in Kinds \ {k} : Going(i) /\ {i, k} # {"more", "more2"}
           new == [NoCall EXCEPT !.step = step, !.of = c, !.met = met]
           Met(j) == [call[j] EXCEPT !.met = TRUE]
<1>2. met \in BOOLEAN /\ (~met => \A j \in Kinds \ {k} : ~Going(j))
  BY <1>1
<1>3. call' = [j \in Kinds |-> IF j = k THEN new
                               ELSE IF Going(j) /\ {j, k} # {"more", "more2"} THEN Met(j)
                               ELSE call[j]]
  BY DEF WithCall
<1> HIDE DEF met
<1>4. new \in Call /\ new.step = step /\ new.of = c /\ new.met = met
  BY <1>0, <1>2, NoCallIsOne DEF Call
<1>5. \A j \in Kinds : /\ Met(j) \in Call /\ Met(j).met = TRUE /\ Met(j).step = call[j].step
                       /\ Met(j).of = call[j].of
  BY <1>0 DEF Call
<1> HIDE DEF new, Met
<1> QED
  BY <1>0, <1>1, <1>2, <1>3, <1>4, <1>5

\* Such a start keeps what is said of calls.
LEMMA StartsKeepCalls ==
    ASSUME ListsInv, NEW k \in Kinds, NEW c \in Piece, NEW step \in {"cache", "asked"},
           k \in Mores => ~LoadingMore, call' = WithCall(k, c, step),
           wanted' \in Filters, k = "first" \/ wanted' = wanted, at' = at,
           c = [filter |-> wanted', page |-> IF k \in Mores THEN at + 1 ELSE 1]
    PROVE  UnmetIsAlone' /\ AsksForTheNext'
<1>0. /\ MobileListsTypeOK /\ UnmetIsAlone /\ AsksForTheNext
      /\ "first" \in Kinds /\ "pull" \in Kinds /\ Mores \subseteq Kinds
      /\ "first" \notin Mores /\ "pull" \notin Mores
  BY DEF ListsInv, Kinds, Mores
<1>1. /\ call' \in [Kinds -> Call] /\ call'[k].step = step /\ call'[k].of = c
      /\ ~call'[k].met => \A j \in Kinds \ {k} : ~Going(j)
      /\ \A j \in Kinds \ {k} : /\ call'[j].step = call[j].step
                                /\ call'[j].of = call[j].of
                                /\ Going(j) => call'[j].met
  BY <1>0, CallsMeet
<1>2. UnmetIsAlone'
  BY <1>1 DEF UnmetIsAlone, Going
<1>3. AsksForTheNext'
  BY <1>0, <1>1 DEF AsksForTheNext, Going
<1> QED
  BY <1>2, <1>3

\* A call that ends takes nothing else with it.
LEMMA CallsEnd ==
    ASSUME MobileListsTypeOK, NEW k \in Kinds, call' = WithoutCall(k)
    PROVE  /\ call' \in [Kinds -> Call] /\ ~Going(k)'
           /\ \A j \in Kinds \ {k} : call'[j] = call[j]
BY NoCallIsOne DEF MobileListsTypeOK, WithoutCall, Going

\* Page 1, of the first load or of a pull, takes the place of what is shown.
LEMMA PageOneReplaces ==
    ASSUME ListsInv, NEW k \in {"first", "pull"}, Going(k), Replaces(k), loading' \in BOOLEAN
    PROVE  ListsInv'
<1> USE MobileListsAssumption
<1> DEFINE c == call[k]
<1>0. /\ MobileListsTypeOK /\ UnmetIsAlone /\ AsksForTheNext /\ MoreIsLeft
      /\ call \in [Kinds -> Call] /\ c \in Call /\ c.of \in Piece /\ c.met \in BOOLEAN
      /\ k \in Kinds /\ Mores \subseteq Kinds /\ "first" \in Kinds /\ "pull" \in Kinds
      /\ "first" \notin Mores /\ "pull" \notin Mores
  BY DEF ListsInv, MobileListsTypeOK, Kinds, Call, Mores
<1>1. /\ items' = <<c.of>> /\ at' = 1 /\ totalPages' = LastPage /\ error' = FALSE
      /\ offline' = FALSE /\ cached' \subseteq Filters /\ muddled' = c.met
      /\ call' = WithoutCall(k) /\ UNCHANGED <<wanted, taps>>
  BY <1>0 DEF Replaces, NoTap, MobileListsTypeOK, Piece
<1>2. /\ call' \in [Kinds -> Call] /\ ~Going(k)'
      /\ \A j \in Kinds \ {k} : call'[j] = call[j]
  BY <1>0, <1>1, CallsEnd
<1>3. ~c.met => c.of = [filter |-> wanted, page |-> 1]
  BY <1>0 DEF AsksForTheNext
<1> HIDE DEF c
<1>4. items' \in Seq(Piece) /\ Len(items') = 1 /\ items'[1] = c.of /\ items' # <<>>
      /\ DOMAIN items' = {1}
  BY <1>0, <1>1
<1>5. MobileListsTypeOK'
  <2>1. error' \in BOOLEAN /\ offline' \in BOOLEAN
    BY <1>1
  <2>2. muddled' \in BOOLEAN
    BY <1>0, <1>1
  <2>3. at' \in 1..(LastPage + 1) /\ totalPages' \in 1..LastPage
    BY <1>1
  <2> QED
    BY <1>0, <1>1, <1>2, <1>4, <2>1, <2>2, <2>3 DEF MobileListsTypeOK
<1>6. UnmetIsAlone'
  BY <1>0, <1>2 DEF UnmetIsAlone, Going
<1>7. AsksForTheNext'
  <2>1. \A j \in Mores : Going(j)' => call[j].met /\ call'[j] = call[j]
    BY <1>0, <1>2 DEF UnmetIsAlone, Going
  <2> QED
    BY <1>0, <1>1, <1>2, <2>1 DEF AsksForTheNext, Going
<1>8. MoreIsLeft'
  <2>1. \A j \in Mores : Going(j)' => at < LastPage
    BY <1>0, <1>2 DEF MoreIsLeft, Going
  <2>2. at \in Nat /\ at >= 1
    BY <1>0 DEF MobileListsTypeOK
  <2> QED
    BY <1>0, <1>1, <1>2, <1>4, <2>1, <2>2 DEF MoreIsLeft, Going, Mores
<1>9. PagesInOrder'
  BY <1>1, <1>3, <1>4 DEF PagesInOrder
<1> QED
  BY <1>5, <1>6, <1>7, <1>8, <1>9 DEF ListsInv

\* The steps of the filter and the first load.
LEMMA FirstLoadsInductive ==
    ASSUME ListsInv,
           \/ \E f \in Filters : ChangeFilter(f)
           \/ ReadCache \/ FirstArrives \/ FirstFails
    PROVE  ListsInv'
<1> USE MobileListsAssumption
<1>0. /\ MobileListsTypeOK /\ UnmetIsAlone /\ AsksForTheNext /\ MoreIsLeft
      /\ call \in [Kinds -> Call] /\ "first" \in Kinds /\ "pull" \in Kinds /\ Mores \subseteq Kinds
      /\ "first" \notin Mores /\ "pull" \notin Mores /\ taps \in 0..MaxTaps
  BY DEF ListsInv, MobileListsTypeOK, Kinds, Mores
<1>1. Tap => taps' \in 0..MaxTaps
  BY <1>0 DEF Tap
<1>2. ASSUME NEW f \in Filters, ChangeFilter(f)
      PROVE  ListsInv'
  <2> DEFINE c == [filter |-> f, page |-> 1]
             step == IF canCache(f) THEN "cache" ELSE "asked"
  <2>1. c \in Piece /\ step \in {"cache", "asked"}
    BY DEF Piece
  <2>2. /\ call' = WithCall("first", c, step) /\ wanted' = f /\ Tap
        /\ UNCHANGED <<items, at, totalPages, loading, error, offline, cached, muddled>>
    BY <1>2 DEF ChangeFilter
  <2>3. c = [filter |-> wanted', page |-> IF "first" \in Mores THEN at + 1 ELSE 1]
    BY <1>0, <2>2
  <2> HIDE DEF c, step
  <2>4. /\ call' \in [Kinds -> Call] /\ call'["first"].step = step
        /\ \A j \in Kinds \ {"first"} : call'[j].step = call[j].step
    BY <1>0, <2>1, <2>2, CallsMeet
  <2>5. UnmetIsAlone' /\ AsksForTheNext'
    BY <1>0, <2>1, <2>2, <2>3, StartsKeepCalls
  <2>6. MobileListsTypeOK'
    BY <1>0, <1>1, <2>2, <2>4 DEF MobileListsTypeOK
  <2>7. MoreIsLeft'
    BY <1>0, <2>2, <2>4 DEF MoreIsLeft, Going, Mores
  <2>8. PagesInOrder'
    BY <2>1, <2>4 DEF PagesInOrder, Going
  <2> QED
    BY <2>5, <2>6, <2>7, <2>8 DEF ListsInv
<1>3. CASE ReadCache
  <2> DEFINE c == call["first"]
  <2>1. c \in Call /\ c.step = "cache" /\ c.of \in Piece
    BY <1>0, <1>3 DEF ReadCache, Call
  <2>2. PICK fromCache \in BOOLEAN :
           /\ call' = [call EXCEPT !["first"] =
                          [c EXCEPT !.step = "asked", !.fromCache = fromCache]]
           /\ \/ items' = <<c.of>> /\ loading' = FALSE /\ muddled' = TRUE
              \/ UNCHANGED <<items, loading, muddled>>
           /\ UNCHANGED <<taps, wanted, at, totalPages, error, offline, cached>>
    <3>1. c.fromCache \in BOOLEAN /\ c = [c EXCEPT !.fromCache = c.fromCache]
      BY <2>1 DEF Call
    <3>2. [c EXCEPT !.step = "asked"] = [c EXCEPT !.step = "asked", !.fromCache = c.fromCache]
      BY <2>1 DEF Call
    <3>3. CASE c.of.filter \in cached
      <4>1. call' = [call EXCEPT !["first"] = [c EXCEPT !.step = "asked", !.fromCache = TRUE]]
        BY <1>0, <1>3, <3>3 DEF ReadCache
      <4> QED
        BY <1>3, <3>3, <4>1 DEF ReadCache, NoTap
    <3>4. CASE c.of.filter \notin cached
      <4>1. call' = [call EXCEPT !["first"] = [c EXCEPT !.step = "asked"]]
        BY <1>0, <1>3, <3>4 DEF ReadCache
      <4> QED
        BY <1>3, <3>1, <3>2, <3>4, <4>1 DEF ReadCache, NoTap
    <3> QED
      BY <3>3, <3>4
  <2> DEFINE n == [c EXCEPT !.step = "asked", !.fromCache = fromCache]
  <2>3. n \in Call /\ n.step = "asked" /\ n.of = c.of /\ n.met = c.met
    BY <2>1 DEF Call
  <2>4. call' = [call EXCEPT !["first"] = n]
    BY <2>2
  <2> HIDE DEF n
  <2>5. /\ call' \in [Kinds -> Call] /\ call'["first"] = n
        /\ \A j \in Kinds \ {"first"} : call'[j] = call[j]
    BY <1>0, <2>3, <2>4
  <2>6. UnmetIsAlone' /\ AsksForTheNext'
    BY <1>0, <2>1, <2>2, <2>3, <2>5 DEF UnmetIsAlone, AsksForTheNext, Going
  <2>7. /\ items' \in Seq(Piece) /\ (items' = <<>> => items = <<>>)
        /\ loading' \in BOOLEAN /\ muddled' \in BOOLEAN
    <3>1. CASE items' = <<c.of>> /\ loading' = FALSE /\ muddled' = TRUE
      <4>1. items' \in Seq(Piece) /\ items' # <<>>
        BY <2>1, <3>1
      <4>2. loading' \in BOOLEAN /\ muddled' \in BOOLEAN
        BY <3>1
      <4> QED
        BY <4>1, <4>2
    <3>2. CASE UNCHANGED <<items, loading, muddled>>
      BY <1>0, <3>2 DEF MobileListsTypeOK
    <3> QED
      BY <2>2, <3>1, <3>2
  <2>8. MobileListsTypeOK'
    BY <1>0, <2>2, <2>5, <2>7 DEF MobileListsTypeOK
  <2>9. MoreIsLeft'
    BY <1>0, <2>2, <2>5, <2>7 DEF MoreIsLeft, Going, Mores
  <2>10. PagesInOrder'
    BY <2>3, <2>5 DEF PagesInOrder, Going
  <2> QED
    BY <2>6, <2>8, <2>9, <2>10 DEF ListsInv
<1>4. CASE FirstArrives
  <2>1. Going("first") /\ Replaces("first") /\ loading' \in BOOLEAN
    BY <1>4 DEF FirstArrives, Going
  <2> QED
    BY <2>1, PageOneReplaces
<1>5. CASE FirstFails
  <2>1. /\ muddled' = TRUE /\ call' = WithoutCall("first") /\ loading' \in BOOLEAN
        /\ offline' \in BOOLEAN /\ error' \in BOOLEAN /\ Tap
        /\ UNCHANGED <<wanted, items, at, totalPages, cached>>
    BY <1>5 DEF FirstFails
  <2>2. /\ call' \in [Kinds -> Call] /\ ~Going("first")'
        /\ \A j \in Kinds \ {"first"} : call'[j] = call[j]
    BY <1>0, <2>1, CallsEnd
  <2>3. UnmetIsAlone' /\ AsksForTheNext'
    BY <1>0, <2>1, <2>2 DEF UnmetIsAlone, AsksForTheNext, Going
  <2>4. MobileListsTypeOK'
    BY <1>0, <1>1, <2>1, <2>2 DEF MobileListsTypeOK
  <2>5. MoreIsLeft'
    BY <1>0, <2>1, <2>2 DEF MoreIsLeft, Going, Mores
  <2> QED
    BY <2>1, <2>3, <2>4, <2>5 DEF ListsInv, PagesInOrder
<1> QED
  BY <1>2, <1>3, <1>4, <1>5

\* The steps of further pages, and of the pull.
LEMMA MoreInductive ==
    ASSUME ListsInv,
           \/ \E k \in Kinds : loadMore(k) \/ MoreArrives(k) \/ MoreFails(k)
           \/ refresh \/ RefreshArrives \/ RefreshFails
    PROVE  ListsInv'
<1> USE MobileListsAssumption
<1>0. /\ MobileListsTypeOK /\ UnmetIsAlone /\ AsksForTheNext /\ MoreIsLeft
      /\ call \in [Kinds -> Call] /\ "first" \in Kinds /\ "pull" \in Kinds /\ Mores \subseteq Kinds
      /\ "first" \notin Mores /\ "pull" \notin Mores /\ taps \in 0..MaxTaps
      /\ at \in Nat \ {0} /\ at <= totalPages /\ totalPages <= LastPage /\ totalPages \in Nat
  BY DEF ListsInv, MobileListsTypeOK, MoreIsLeft, Kinds, Mores
<1>1. Tap => taps' \in 0..MaxTaps
  BY <1>0 DEF Tap
<1>2. ASSUME NEW k \in Kinds, loadMore(k)
      PROVE  ListsInv'
  <2> DEFINE c == buildUrl(at + 1)
  <2>1. /\ k \in Mores /\ ~LoadingMore /\ at < totalPages /\ call' = WithCall(k, c, "asked")
        /\ UNCHANGED <<wanted, items, at, totalPages, loading, error, offline, cached, muddled,
                       taps>>
    BY <1>2 DEF loadMore, Mores, NotLoadingMore, NoTap
  <2>2. c \in Piece /\ c = [filter |-> wanted, page |-> at + 1]
    BY <1>0, <2>1 DEF buildUrl, Piece, MobileListsTypeOK
  <2> HIDE DEF c
  <2>3. /\ call' \in [Kinds -> Call] /\ call'[k].step = "asked"
        /\ \A j \in Kinds \ {k} : call'[j].step = call[j].step
    BY <1>0, <2>1, <2>2, CallsMeet
  <2>4. UnmetIsAlone' /\ AsksForTheNext'
    <3>1. c = [filter |-> wanted', page |-> IF k \in Mores THEN at + 1 ELSE 1]
      BY <2>1, <2>2
    <3>2. wanted' \in Filters /\ wanted' = wanted /\ at' = at
      BY <1>0, <2>1 DEF MobileListsTypeOK
    <3> QED
      BY <2>1, <2>2, <3>1, <3>2, StartsKeepCalls
  <2>5. MobileListsTypeOK'
    BY <1>0, <2>1, <2>3 DEF MobileListsTypeOK
  <2>6. items # <<>> /\ at < LastPage
    BY <1>0, <2>1 DEF MoreIsLeft
  <2>7. MoreIsLeft'
    <3>1. ~(Going("more") /\ Going("more2"))'
      BY <2>1, <2>3 DEF LoadingMore, Going, Mores, Kinds
    <3> QED
      BY <1>0, <2>1, <2>6, <3>1 DEF MoreIsLeft
  <2>8. PagesInOrder'
    <3>1. Going("first")' <=> Going("first")
      BY <1>0, <2>1, <2>3 DEF Going
    <3> QED
      BY <2>1, <3>1 DEF ListsInv, PagesInOrder
  <2> QED
    BY <2>4, <2>5, <2>7, <2>8 DEF ListsInv
<1>3. ASSUME NEW k \in Kinds, MoreArrives(k)
      PROVE  ListsInv'
  <2> DEFINE c == call[k]
  <2>1. /\ k \in Mores /\ Going(k) /\ items' = Append(items, c.of) /\ at' = at + 1
        /\ totalPages' = LastPage /\ offline' = FALSE /\ muddled' = (muddled \/ c.met)
        /\ call' = WithoutCall(k) /\ UNCHANGED <<wanted, loading, error, cached, taps>>
    BY <1>3 DEF MoreArrives, Mores, NoTap
  <2>2. c.of \in Piece /\ c.met \in BOOLEAN /\ muddled \in BOOLEAN
    BY <1>0 DEF Call, MobileListsTypeOK
  <2>3. ~c.met => c.of = [filter |-> wanted, page |-> at + 1] /\ ~Going("first")
    BY <1>0, <2>1 DEF AsksForTheNext, UnmetIsAlone
  <2> HIDE DEF c
  <2>4. /\ call' \in [Kinds -> Call] /\ ~Going(k)'
        /\ \A j \in Kinds \ {k} : call'[j] = call[j]
    BY <1>0, <2>1, CallsEnd
  <2>5. /\ items \in Seq(Piece) /\ items # <<>> /\ at < LastPage
        /\ \A j \in Mores : ~Going(j)'
    <3>1. \A j \in Mores : ~Going(j)'
      BY <1>0, <2>1, <2>4 DEF MoreIsLeft, Going, Mores, Kinds
    <3> QED
      BY <1>0, <2>1, <3>1 DEF MoreIsLeft, MobileListsTypeOK
  <2>6. /\ items' \in Seq(Piece) /\ Len(items') = Len(items) + 1 /\ items' # <<>>
        /\ \A i \in 1..Len(items) : items'[i] = items[i]
        /\ items'[Len(items) + 1] = c.of
    BY <2>1, <2>2, <2>5
  <2>7. MobileListsTypeOK'
    <3>1. offline' \in BOOLEAN
      BY <2>1
    <3>2. muddled' \in BOOLEAN
      BY <2>1, <2>2
    <3>3. at' \in 1..(LastPage + 1) /\ totalPages' \in 1..LastPage
      BY <1>0, <2>1, <2>5
    <3> QED
      BY <1>0, <2>1, <2>4, <2>6, <3>1, <3>2, <3>3 DEF MobileListsTypeOK
  <2>8. UnmetIsAlone'
    BY <1>0, <2>4 DEF UnmetIsAlone, Going
  <2>9. AsksForTheNext'
    BY <1>0, <2>1, <2>4, <2>5 DEF AsksForTheNext, Going
  <2>10. MoreIsLeft'
    BY <1>0, <2>1, <2>5, <2>6 DEF MoreIsLeft, Mores
  <2>11. PagesInOrder'
    <3> SUFFICES ASSUME ~muddled', ~Going("first")'
                 PROVE  /\ Len(items') = at'
                        /\ \A i \in 1..Len(items') :
                              items'[i] = [filter |-> wanted, page |-> i]
      BY <2>1, <2>6 DEF PagesInOrder
    <3>1. ~muddled /\ ~c.met /\ ~Going("first")
      BY <2>1, <2>2, <2>3
    <3>2. Len(items) = at /\ \A i \in 1..Len(items) : items[i] = [filter |-> wanted, page |-> i]
      BY <2>5, <3>1 DEF ListsInv, PagesInOrder
    <3> QED
      BY <1>0, <2>1, <2>3, <2>6, <3>1, <3>2
  <2> QED
    BY <2>7, <2>8, <2>9, <2>10, <2>11 DEF ListsInv
<1>4. ASSUME NEW k \in Kinds \ {"first"}, call' = WithoutCall(k), Tap,
             UNCHANGED <<wanted, items, at, totalPages, loading, cached, muddled>>,
             error' \in BOOLEAN, offline' \in BOOLEAN
      PROVE  ListsInv'
  <2>1. /\ call' \in [Kinds -> Call] /\ ~Going(k)'
        /\ \A j \in Kinds \ {k} : call'[j] = call[j]
    BY <1>0, <1>4, CallsEnd
  <2>2. MobileListsTypeOK'
    BY <1>0, <1>1, <1>4, <2>1 DEF MobileListsTypeOK
  <2>3. UnmetIsAlone' /\ AsksForTheNext'
    BY <1>0, <1>4, <2>1 DEF UnmetIsAlone, AsksForTheNext, Going
  <2>4. MoreIsLeft'
    BY <1>0, <1>4, <2>1 DEF MoreIsLeft, Going, Mores, Kinds
  <2>5. PagesInOrder'
    <3>1. Going("first")' <=> Going("first")
      BY <1>0, <1>4, <2>1 DEF Going
    <3> QED
      BY <1>4, <3>1 DEF ListsInv, PagesInOrder
  <2> QED
    BY <2>2, <2>3, <2>4, <2>5 DEF ListsInv
<1>5. ASSUME NEW k \in Kinds, MoreFails(k)
      PROVE  ListsInv'
  <2>1. k # "first" /\ call' = WithoutCall(k) /\ Tap
        /\ UNCHANGED <<wanted, items, at, totalPages, loading, error, offline, cached, muddled>>
    BY <1>5 DEF MoreFails
  <2> QED
    BY <1>0, <1>4, <2>1 DEF MobileListsTypeOK
<1>6. CASE refresh
  <2> DEFINE c == buildUrl(1)
  <2>1. /\ ~Going("pull") /\ call' = WithCall("pull", c, "asked") /\ Tap
        /\ UNCHANGED <<wanted, items, at, totalPages, loading, error, offline, cached, muddled>>
    BY <1>6 DEF refresh
  <2>2. c \in Piece /\ c = [filter |-> wanted, page |-> 1]
    BY <1>0 DEF buildUrl, Piece, MobileListsTypeOK
  <2> HIDE DEF c
  <2>3. /\ call' \in [Kinds -> Call] /\ call'["pull"].step = "asked"
        /\ \A j \in Kinds \ {"pull"} : call'[j].step = call[j].step
    BY <1>0, <2>1, <2>2, CallsMeet
  <2>4. UnmetIsAlone' /\ AsksForTheNext'
    <3>1. c = [filter |-> wanted', page |-> IF "pull" \in Mores THEN at + 1 ELSE 1]
      BY <1>0, <2>1, <2>2
    <3>2. wanted' \in Filters /\ wanted' = wanted /\ at' = at
      BY <1>0, <2>1 DEF MobileListsTypeOK
    <3> QED
      BY <1>0, <2>1, <2>2, <3>1, <3>2, StartsKeepCalls
  <2>5. MobileListsTypeOK'
    BY <1>0, <1>1, <2>1, <2>3 DEF MobileListsTypeOK
  <2>7. MoreIsLeft'
    BY <1>0, <2>1, <2>3 DEF MoreIsLeft, Going, Mores, Kinds
  <2>8. PagesInOrder'
    <3>1. Going("first")' <=> Going("first")
      BY <1>0, <2>1, <2>3 DEF Going
    <3> QED
      BY <2>1, <3>1 DEF ListsInv, PagesInOrder
  <2> QED
    BY <2>4, <2>5, <2>7, <2>8 DEF ListsInv
<1>7. CASE RefreshArrives
  BY <1>0, <1>7, PageOneReplaces DEF RefreshArrives, MobileListsTypeOK
<1>8. CASE RefreshFails
  <2>1. /\ call' = WithoutCall("pull") /\ Tap /\ "pull" # "first"
        /\ UNCHANGED <<wanted, items, at, totalPages, loading, cached, muddled>>
    BY <1>8 DEF RefreshFails
  <2>2. error' \in BOOLEAN /\ offline' \in BOOLEAN
    BY <1>8 DEF RefreshFails
  <2> QED
    BY <1>0, <1>4, <2>1, <2>2
<1> QED
  BY <1>2, <1>3, <1>5, <1>6, <1>7, <1>8

\* The screen starts with a first load, alone.
LEMMA ListsStart == MobileListsInit => ListsInv
<1> SUFFICES ASSUME MobileListsInit
             PROVE  ListsInv
  OBVIOUS
<1> USE MobileListsAssumption
<1> DEFINE step == IF canCache(wanted) THEN "cache" ELSE "asked"
           c == buildUrl(1)
           x == [NoCall EXCEPT !.step = step, !.of = c]
<1>1. /\ wanted \in Filters /\ items = <<>> /\ at = 1 /\ totalPages = 1 /\ taps = 0
      /\ loading = TRUE /\ error = FALSE /\ offline = FALSE /\ muddled = FALSE
      /\ cached \subseteq Filters
      /\ call = [k \in Kinds |-> IF k # "first" THEN NoCall ELSE x]
  BY DEF MobileListsInit
<1>2. step \in {"cache", "asked"} /\ c \in Piece /\ c = [filter |-> wanted, page |-> 1]
  BY <1>1 DEF buildUrl, Piece
<1>3. NoCall \in Call /\ NoCall.step = "none"
  BY <1>1, NoCallIsOne
<1> HIDE DEF step, c
<1>4. x \in Call /\ x.of = c
  BY <1>2, <1>3 DEF Call
<1> HIDE DEF x
<1>5. /\ call \in [Kinds -> Call] /\ call["first"].of = c
      /\ \A k \in Kinds \ {"first"} : ~Going(k)
  BY <1>1, <1>3, <1>4 DEF Going, Kinds
<1>6. MobileListsTypeOK
  <2>1. loading \in BOOLEAN /\ error \in BOOLEAN /\ offline \in BOOLEAN /\ muddled \in BOOLEAN
    BY <1>1
  <2>2. items \in Seq(Piece) /\ at \in 1..(LastPage + 1) /\ totalPages \in 1..LastPage
        /\ taps \in 0..MaxTaps
    BY <1>1
  <2> QED
    BY <1>1, <1>5, <2>1, <2>2 DEF MobileListsTypeOK
<1>7. UnmetIsAlone /\ AsksForTheNext
  BY <1>2, <1>5 DEF UnmetIsAlone, AsksForTheNext, Kinds, Mores
<1>8. MoreIsLeft /\ PagesInOrder
  BY <1>1, <1>5 DEF MoreIsLeft, PagesInOrder, Kinds, Mores
<1> QED
  BY <1>6, <1>7, <1>8 DEF ListsInv

\* The calls of a list keep the invariant.
LEMMA ListsAlways == MobileListsSpec => []ListsInv
<1>1. ListsInv /\ [MobileListsNext]_MobileListsVars => ListsInv'
  <2> SUFFICES ASSUME ListsInv, [MobileListsNext]_MobileListsVars
               PROVE  ListsInv'
    OBVIOUS
  <2>1. CASE UNCHANGED MobileListsVars
    BY <2>1 DEF MobileListsVars, ListsInv, MobileListsTypeOK, UnmetIsAlone, AsksForTheNext,
                MoreIsLeft, PagesInOrder, Going
  <2>2. CASE MobileListsNext
    BY <2>2, FirstLoadsInductive, MoreInductive DEF MobileListsNext
  <2> QED
    BY <2>1, <2>2
<1> QED
  BY <1>1, ListsStart, PTL DEF MobileListsSpec

\* A list whose network answers are in, and whose calls met no other, has the pages of its
\* filter from the first on, each once: for any filters, any number of pages, and calls
\* that are late, fail or overtake each other.
THEOREM ListsAreInOrder == MobileListsSpec => []PagesInOrder
<1>1. ListsInv => PagesInOrder
  BY DEF ListsInv
<1> QED
  BY <1>1, ListsAlways, PTL

-----------------------------------------------------------------------------
(* The session of the panel.  A refresh that met no request of another tab    *)
(* carries the cookie of this moment, and one the backend refused says that   *)
(* the cookie is dead.                                                        *)

PanelSessionSpec == PanelSessionInit /\ [][PanelSessionNext]_PanelSessionVars

\* A tab has one request of a kind, on the page that makes it.
OneRequestEach ==
    \A t \in Tabs, i, j \in Slots :
        flight[t][i].kind = flight[t][j].kind => i = j \/ flight[t][i] = NoFlight

OnItsPage(t, f) ==
    /\ f.kind = "none" => f = NoFlight
    /\ f.kind = "login" => screen[t] = "login"
    /\ f.kind \in {"refresh", "logout"} => screen[t] = "panel"

\* What is granted is a token.
BringsAToken(f) == f.kind \in {"refresh", "login"} /\ f.answer = "granted" => f.token \in Tokens

\* A request that met none of another tab is the only one but those of its own tab.
MetNobody(t, f) ==
    f.kind # "none" /\ ~f.raced => \A u \in Tabs \ {t}, j \in Slots : flight[u][j] = NoFlight

TellsOfTheCookie(f) ==
    f.kind = "refresh" /\ ~f.raced =>
        /\ f.answer = "none" => f.token = cookie
        /\ f.answer = "refused" => cookie \notin live

FlightIsSound(t, i) ==
    /\ OnItsPage(t, flight[t][i]) /\ BringsAToken(flight[t][i])
    /\ MetNobody(t, flight[t][i]) /\ TellsOfTheCookie(flight[t][i])

SessionInv ==
    /\ PanelSessionTypeOK /\ OneRequestEach
    /\ \A t \in Tabs, i \in Slots : FlightIsSound(t, i)

\* A new token is one nobody holds.
LEMMA TokensAreNew ==
    ASSUME PanelSessionTypeOK
    PROVE  NewToken \in Tokens /\ NewToken \notin Held
<1> DEFINE f == [t \in Tabs |-> [i \in 1..2 |-> flight[t][i].token]]
<1>1. f \in [Tabs -> [1..2 -> Tokens \cup {NoToken}]]
  <2> SUFFICES ASSUME NEW t \in Tabs, NEW i \in 1..2
               PROVE  flight[t][i].token \in Tokens \cup {NoToken}
    OBVIOUS
  <2>1. flight[t][i] \in Flight
    BY DEF PanelSessionTypeOK, Slots
  <2> QED BY <2>1 DEF Flight
<1>2. \A t \in Tabs, i \in 1..2 : f[t][i] = flight[t][i].token
  OBVIOUS
<1> HIDE DEF f
<1>3. cookie \in Tokens \cup {NoToken} /\ stray \in Tokens \cup {NoToken}
  BY DEF PanelSessionTypeOK
<1>4. PICK new \in Tokens : new \notin {cookie, stray} /\ \A t \in Tabs, i \in 1..2 : f[t][i] # new
  BY <1>1, <1>3, TokensSuffice
<1>5. new \notin Held
  BY <1>2, <1>4 DEF Held, Slots
<1>6. new \in Tokens \ Held
  BY <1>4, <1>5
<1> QED BY <1>6 DEF NewToken

\* The two fields of a request that its answer changes.
LEMMA AnswersFillOne ==
    ASSUME PanelSessionTypeOK, NEW t \in Tabs, NEW i \in Slots, NEW answer, NEW filled,
           Answers(t, i, answer, filled)
    PROVE  /\ flight' = [flight EXCEPT ![t] = [flight[t] EXCEPT ![i] =
                            [kind |-> flight[t][i].kind, token |-> filled, answer |-> answer,
                             raced |-> flight[t][i].raced]]]
           /\ UNCHANGED <<cookie, screen, access, stray>>
BY DEF Answers

\* A request is sent in a free slot, with the cookie of the moment unless it is a
\* login; it has met the requests of the other tabs, and they have met it.
LEMMA SendsOne ==
    ASSUME PanelSessionTypeOK, NEW t \in Tabs,
           NEW kind \in {"refresh", "login", "logout"}, Sends(t, kind)
    PROVE  /\ UNCHANGED <<cookie, live, screen, access, stray>>
           /\ \E i \in Slots :
                 /\ flight[t][i] = NoFlight
                 /\ flight'[t] = [flight[t] EXCEPT ![i] =
                        [kind |-> kind, token |-> IF kind = "login" THEN NoToken ELSE cookie,
                         answer |-> "none",
                         raced |-> \E v \in Tabs \ {t}, j \in Slots : flight[v][j].kind # "none"]]
           /\ flight' \in [Tabs -> [Slots -> Flight]]
           /\ \A u \in Tabs \ {t}, j \in Slots :
                 flight'[u][j] = [kind |-> flight[u][j].kind, token |-> flight[u][j].token,
                                  answer |-> flight[u][j].answer,
                                  raced |-> flight[u][j].raced \/ flight[u][j].kind # "none"]
<1> DEFINE i == IF flight[t][1] = NoFlight THEN 1 ELSE 2
           met == \E v \in Tabs \ {t}, j \in Slots : flight[v][j].kind # "none"
           new == [kind |-> kind, token |-> IF kind = "login" THEN NoToken ELSE cookie,
                   answer |-> "none", raced |-> met]
           old(u, j) == [kind |-> flight[u][j].kind, token |-> flight[u][j].token,
                         answer |-> flight[u][j].answer,
                         raced |-> flight[u][j].raced \/ flight[u][j].kind # "none"]
<1>1. flight \in [Tabs -> [Slots -> Flight]] /\ cookie \in Tokens \cup {NoToken}
  BY DEF PanelSessionTypeOK
<1>2. i \in Slots
  BY DEF Slots
<1>4. \A u \in Tabs, j \in Slots :
          [flight[u][j] EXCEPT !.raced = @ \/ flight[u][j].kind # "none"] = old(u, j)
  <2> SUFFICES ASSUME NEW u \in Tabs, NEW j \in Slots
               PROVE  [flight[u][j] EXCEPT !.raced = @ \/ flight[u][j].kind # "none"] = old(u, j)
    OBVIOUS
  <2>1. flight[u][j] \in Flight
    BY <1>1
  <2> QED BY <2>1 DEF Flight
<1>5. /\ flight[t][i] = NoFlight
      /\ flight' = [u \in Tabs |->
             IF u # t THEN [j \in Slots |-> old(u, j)] ELSE [flight[t] EXCEPT ![i] = new]]
      /\ UNCHANGED <<cookie, live, screen, access, stray>>
  <2>1. /\ flight[t][i] = NoFlight
        /\ flight' = [u \in Tabs |->
               IF u # t THEN [j \in Slots |-> [flight[u][j] EXCEPT
                                 !.raced = @ \/ flight[u][j].kind # "none"]]
               ELSE [flight[t] EXCEPT ![i] =
                       new]]
        /\ UNCHANGED <<cookie, live, screen, access, stray>>
    BY DEF Sends
  <2> QED BY <2>1, <1>4
<1>6. new \in Flight
  <2>1. met \in BOOLEAN
    OBVIOUS
  <2> QED BY <2>1, <1>1 DEF Flight
<1>7. \A u \in Tabs, j \in Slots : old(u, j) \in Flight
  <2> SUFFICES ASSUME NEW u \in Tabs, NEW j \in Slots PROVE old(u, j) \in Flight
    OBVIOUS
  <2>1. flight[u][j] \in Flight
    BY <1>1
  <2> QED BY <2>1 DEF Flight
<1> HIDE DEF new, old, i
<1>8. flight' \in [Tabs -> [Slots -> Flight]]
  BY <1>1, <1>2, <1>5, <1>6, <1>7
<1>9. flight'[t] = [flight[t] EXCEPT ![i] = new]
  BY <1>5
<1>10. \A u \in Tabs \ {t}, j \in Slots : flight'[u][j] = old(u, j)
  BY <1>5
<1> QED BY <1>2, <1>5, <1>8, <1>9, <1>10 DEF new, old

\* Steps that answer nothing: of one tab, requests end, and the page changes only
\* with none left; the cookie changes only by a request of that tab, and no refresh
\* outlives it.
LEMMA FewerRequests ==
    ASSUME SessionInv, PanelSessionTypeOK', NEW t \in Tabs,
           \A u \in Tabs \ {t} : flight'[u] = flight[u] /\ screen'[u] = screen[u],
           \A j \in Slots : flight'[t][j] \in {flight[t][j], NoFlight},
           screen'[t] = screen[t] \/ \A j \in Slots : flight'[t][j] = NoFlight,
           live' \subseteq live,
           \/ cookie' = cookie
           \/ /\ \E i \in Slots : flight[t][i].kind # "none"
              /\ \A j \in Slots : flight'[t][j].kind # "refresh"
    PROVE  SessionInv'
<1>1. NoFlight.kind = "none"
  BY DEF NoFlight
<1>2. \A u \in Tabs, j \in Slots : flight'[u][j] \in {flight[u][j], NoFlight}
  OBVIOUS
<1>3. OneRequestEach'
  BY <1>1, <1>2 DEF SessionInv, OneRequestEach, FlightIsSound, OnItsPage
<1>4. ASSUME NEW u \in Tabs, NEW i \in Slots
      PROVE  FlightIsSound(u, i)'
  <2>1. CASE flight'[u][i] = NoFlight
    BY <2>1, <1>1 DEF FlightIsSound, OnItsPage, BringsAToken, MetNobody, TellsOfTheCookie
  <2>2. CASE flight'[u][i] # NoFlight
    <3>1. flight'[u][i] = flight[u][i] /\ FlightIsSound(u, i)
      BY <1>2, <2>2 DEF SessionInv
    <3>2. screen'[u] = screen[u]
      BY <2>2
    <3>3. OnItsPage(u, flight[u][i])'
      BY <3>1, <3>2 DEF FlightIsSound, OnItsPage
    <3>4. BringsAToken(flight[u][i])'
      BY <3>1 DEF FlightIsSound, BringsAToken
    <3>5. MetNobody(u, flight[u][i])'
      BY <3>1, <1>2 DEF FlightIsSound, MetNobody
    <3>6. TellsOfTheCookie(flight[u][i])'
      <4>1. CASE cookie' = cookie
        BY <4>1, <3>1 DEF FlightIsSound, TellsOfTheCookie
      <4>2. CASE cookie' # cookie /\ u = t
        BY <4>2 DEF TellsOfTheCookie
      <4>3. CASE cookie' # cookie /\ u # t
        BY <4>3, <3>1, <1>1 DEF FlightIsSound, MetNobody, TellsOfTheCookie
      <4> QED BY <4>1, <4>2, <4>3
    <3> QED BY <3>3, <3>4, <3>5, <3>6 DEF FlightIsSound
  <2> QED BY <2>1, <2>2
<1> QED BY <1>3, <1>4 DEF SessionInv

\* Steps no tab takes: they only kill tokens.
LEMMA TokensDie ==
    ASSUME SessionInv, PanelSessionTypeOK', UNCHANGED <<flight, screen, cookie>>,
           live' \subseteq live
    PROVE  SessionInv'
<1>1. OneRequestEach'
  BY DEF SessionInv, OneRequestEach
<1>2. ASSUME NEW u \in Tabs, NEW i \in Slots
      PROVE  FlightIsSound(u, i)'
  <2>1. FlightIsSound(u, i)
    BY DEF SessionInv
  <2>2. OnItsPage(u, flight[u][i])' /\ BringsAToken(flight[u][i])' /\ MetNobody(u, flight[u][i])'
    BY <2>1 DEF FlightIsSound, OnItsPage, BringsAToken, MetNobody
  <2>3. TellsOfTheCookie(flight[u][i])'
    BY <2>1 DEF FlightIsSound, TellsOfTheCookie
  <2> QED BY <2>2, <2>3 DEF FlightIsSound
<1> QED BY <1>1, <1>2 DEF SessionInv

\* A request is answered: the cookie stays, and no token that dies or is born is it.
LEMMA OneIsAnswered ==
    ASSUME SessionInv, PanelSessionTypeOK', NEW t \in Tabs, NEW i \in Slots,
           NEW answer \in {"granted", "refused", "unwell", "down", "anonymous"},
           NEW filled, Answers(t, i, answer, filled), flight[t][i].kind # "none",
           cookie \in live' => cookie \in live,
           answer = "granted" /\ flight[t][i].kind \in {"refresh", "login"} => filled \in Tokens,
           /\ answer = "refused" /\ flight[t][i].kind = "refresh" /\ ~flight[t][i].raced
           => cookie \notin live
    PROVE  SessionInv'
<1> DEFINE x == [kind |-> flight[t][i].kind, token |-> filled, answer |-> answer,
                 raced |-> flight[t][i].raced]
<1>1. PanelSessionTypeOK
  BY DEF SessionInv
<1>2. /\ flight' = [flight EXCEPT ![t] = [flight[t] EXCEPT ![i] = x]]
      /\ UNCHANGED <<cookie, screen>>
  BY <1>1, AnswersFillOne
<1>3. /\ x.kind = flight[t][i].kind /\ x.token = filled /\ x.answer = answer
      /\ x.raced = flight[t][i].raced
  OBVIOUS
<1>4. NoFlight.kind = "none"
  BY DEF NoFlight
<1> HIDE DEF x
<1>5. flight'[t][i] = x
  BY <1>1, <1>2 DEF PanelSessionTypeOK
<1>6. \A u \in Tabs, j \in Slots : u # t \/ j # i => flight'[u][j] = flight[u][j]
  BY <1>1, <1>2 DEF PanelSessionTypeOK
<1>7. \A u \in Tabs, j \in Slots :
          /\ flight'[u][j].kind = flight[u][j].kind
          /\ flight'[u][j] = NoFlight <=> flight[u][j] = NoFlight
  BY <1>3, <1>4, <1>5, <1>6
<1>8. OneRequestEach'
  BY <1>7 DEF SessionInv, OneRequestEach
<1>9. ASSUME NEW u \in Tabs, NEW j \in Slots
      PROVE  FlightIsSound(u, j)'
  <2>1. FlightIsSound(u, j)
    BY DEF SessionInv
  <2>2. flight'[u][j].raced = flight[u][j].raced
    BY <1>3, <1>5, <1>6
  <2>3. OnItsPage(u, flight[u][j])'
    BY <1>2, <1>7, <2>1 DEF FlightIsSound, OnItsPage
  <2>4. MetNobody(u, flight[u][j])'
    BY <1>7, <2>1, <2>2 DEF FlightIsSound, MetNobody
  <2>5. BringsAToken(flight[u][j])' /\ TellsOfTheCookie(flight[u][j])'
    <3>1. CASE u = t /\ j = i
      BY <3>1, <1>2, <1>3, <1>5 DEF BringsAToken, TellsOfTheCookie
    <3>2. CASE u # t \/ j # i
      BY <3>2, <1>2, <1>6, <2>1 DEF FlightIsSound, BringsAToken, TellsOfTheCookie
    <3> QED BY <3>1, <3>2
  <2> QED BY <2>3, <2>4, <2>5 DEF FlightIsSound
<1> QED BY <1>8, <1>9 DEF SessionInv

\* A request is sent from a page of its own, where none of its kind is on its way.
LEMMA OneIsSent ==
    ASSUME SessionInv, PanelSessionTypeOK', NEW t \in Tabs,
           NEW kind \in {"refresh", "login", "logout"}, Sends(t, kind), ~Flying(t, kind),
           screen[t] = IF kind = "login" THEN "login" ELSE "panel"
    PROVE  SessionInv'
<1>1. PanelSessionTypeOK
  BY DEF SessionInv
<1> DEFINE x == [kind |-> kind, token |-> IF kind = "login" THEN NoToken ELSE cookie,
                 answer |-> "none",
                 raced |-> \E v \in Tabs \ {t}, j \in Slots : flight[v][j].kind # "none"]
           y(u, j) == [kind |-> flight[u][j].kind, token |-> flight[u][j].token,
                       answer |-> flight[u][j].answer,
                       raced |-> flight[u][j].raced \/ flight[u][j].kind # "none"]
<1>2. UNCHANGED <<cookie, live, screen>>
  BY <1>1, SendsOne
<1>3. PICK i \in Slots : flight[t][i] = NoFlight /\ flight'[t] = [flight[t] EXCEPT ![i] = x]
  BY <1>1, SendsOne
<1>4. \A u \in Tabs \ {t}, j \in Slots : flight'[u][j] = y(u, j)
  BY <1>1, SendsOne
<1>5. /\ x.kind = kind /\ x.answer = "none"
      /\ kind = "refresh" => x.token = cookie
      /\ ~x.raced => \A v \in Tabs \ {t}, j \in Slots : flight[v][j].kind = "none"
  OBVIOUS
<1>6. \A u \in Tabs, j \in Slots :
          /\ y(u, j).kind = flight[u][j].kind /\ y(u, j).token = flight[u][j].token
          /\ y(u, j).answer = flight[u][j].answer
          /\ ~y(u, j).raced => flight[u][j].kind = "none"
  OBVIOUS
<1>7. NoFlight.kind = "none"
  BY DEF NoFlight
<1>8. ASSUME NEW u \in Tabs, NEW j \in Slots, flight[u][j] = NoFlight
      PROVE  y(u, j) = NoFlight
  <2>1. /\ flight[u][j].kind = "none" /\ flight[u][j].token = NoToken
        /\ flight[u][j].answer = "none" /\ flight[u][j].raced = FALSE
    BY <1>8 DEF NoFlight
  <2>2. (flight[u][j].raced \/ flight[u][j].kind # "none") = FALSE
    BY <2>1
  <2> QED BY <2>1, <2>2 DEF NoFlight
<1> HIDE DEF x, y
<1>9. flight'[t][i] = x /\ \A j \in Slots \ {i} : flight'[t][j] = flight[t][j]
  BY <1>1, <1>3 DEF PanelSessionTypeOK
<1>10. OneRequestEach'
  <2> SUFFICES ASSUME NEW u \in Tabs, NEW j \in Slots, NEW k \in Slots, j # k,
                      flight'[u][j].kind = flight'[u][k].kind
               PROVE  flight'[u][j] = NoFlight
    BY DEF OneRequestEach
  <2>1. flight[u][j].kind = flight[u][k].kind => flight[u][j] = NoFlight
    BY DEF SessionInv, OneRequestEach
  <2>2. CASE u = t
    BY <2>1, <2>2, <1>5, <1>9 DEF Flying
  <2>3. CASE u # t
    BY <2>1, <2>3, <1>4, <1>6, <1>8
  <2> QED BY <2>2, <2>3
<1>11. ASSUME NEW u \in Tabs, NEW j \in Slots
      PROVE  FlightIsSound(u, j)'
  <2>1. FlightIsSound(u, j)
    BY DEF SessionInv
  <2>2. CASE u = t /\ j = i
    <3>1. flight'[u][j] = x
      BY <1>9, <2>2
    <3>2. OnItsPage(u, flight[u][j])' /\ BringsAToken(flight[u][j])'
      BY <3>1, <2>2, <1>2, <1>5 DEF OnItsPage, BringsAToken
    <3>3. TellsOfTheCookie(flight[u][j])'
      BY <3>1, <1>2, <1>5 DEF TellsOfTheCookie
    <3>4. ASSUME ~x.raced, NEW v \in Tabs \ {t}, NEW k \in Slots
          PROVE  flight'[v][k] = NoFlight
      <4>1. flight[v][k].kind = "none"
        BY <1>5, <3>4
      <4>2. flight[v][k] = NoFlight
        BY <4>1 DEF SessionInv, FlightIsSound, OnItsPage
      <4> QED BY <4>2, <1>4, <1>8
    <3>5. MetNobody(u, flight[u][j])'
      BY <3>1, <3>4, <2>2 DEF MetNobody
    <3> QED BY <3>2, <3>3, <3>5 DEF FlightIsSound
  <2>3. CASE u = t /\ j # i
    <3>1. flight'[u][j] = flight[u][j]
      BY <1>9, <2>3
    <3>2. OnItsPage(u, flight[u][j])' /\ BringsAToken(flight[u][j])' /\ TellsOfTheCookie(flight[u][j])'
      BY <3>1, <2>1, <1>2 DEF FlightIsSound, OnItsPage, BringsAToken, TellsOfTheCookie
    <3>3. MetNobody(u, flight[u][j])'
      BY <3>1, <2>1, <2>3, <1>4, <1>8 DEF FlightIsSound, MetNobody
    <3> QED BY <3>2, <3>3 DEF FlightIsSound
  <2>4. CASE u # t
    <3>1. flight'[u][j] = y(u, j)
      BY <1>4, <2>4
    <3>2. OnItsPage(u, flight[u][j])'
      BY <3>1, <2>1, <1>2, <1>6, <1>8 DEF FlightIsSound, OnItsPage
    <3>3. BringsAToken(flight[u][j])'
      BY <3>1, <2>1, <1>6 DEF FlightIsSound, BringsAToken
    <3>4. TellsOfTheCookie(flight[u][j])' /\ MetNobody(u, flight[u][j])'
      BY <3>1, <1>6 DEF TellsOfTheCookie, MetNobody
    <3> QED BY <3>2, <3>3, <3>4 DEF FlightIsSound
  <2> QED BY <2>2, <2>3, <2>4
<1> QED BY <1>10, <1>11 DEF SessionInv

\* A page load drops the requests of its tab.
LEMMA LeavesNothing ==
    ASSUME PanelSessionTypeOK, NEW t \in Tabs, NEW c, Leaves(t, c)
    PROVE  /\ flight' \in [Tabs -> [Slots -> Flight]]
           /\ screen' \in [Tabs -> {"closed", "login", "panel"}]
           /\ stray' \in Tokens \cup {NoToken}
           /\ \A j \in Slots : flight'[t][j] = NoFlight
           /\ \A u \in Tabs \ {t} : flight'[u] = flight[u] /\ screen'[u] = screen[u]
<1>1. /\ flight \in [Tabs -> [Slots -> Flight]] /\ stray \in Tokens \cup {NoToken}
      /\ screen \in [Tabs -> {"closed", "login", "panel"}]
  BY DEF PanelSessionTypeOK
<1>2. NoFlight \in Flight
  BY DEF NoFlight, Flight
<1>3. \A i \in Slots : flight[t][i].token \in Tokens \cup {NoToken}
  <2> SUFFICES ASSUME NEW i \in Slots PROVE flight[t][i].token \in Tokens \cup {NoToken}
    OBVIOUS
  <2>1. flight[t][i] \in Flight
    BY <1>1
  <2> QED BY <2>1 DEF Flight
<1>4. Landing(c) \in {"login", "panel"}
  BY DEF Landing
<1>5. stray' \in Tokens \cup {NoToken}
  <2>1. stray' \in {stray} \cup (IF stray # NoToken THEN {}
                       ELSE {flight[t][i].token : i \in {j \in Slots : Sent(t, j)}})
    BY DEF Leaves
  <2> QED BY <2>1, <1>1, <1>3
<1>6. /\ screen' = [screen EXCEPT ![t] = Landing(c)]
      /\ flight' = [flight EXCEPT ![t] = [i \in Slots |-> NoFlight]]
  BY DEF Leaves
<1>7. [i \in Slots |-> NoFlight] \in [Slots -> Flight]
  BY <1>2
<1>8. flight' \in [Tabs -> [Slots -> Flight]]
  BY <1>1, <1>6, <1>7
<1>9. screen' \in [Tabs -> {"closed", "login", "panel"}]
  BY <1>1, <1>4, <1>6
<1>10. \A j \in Slots : flight'[t][j] = NoFlight
  BY <1>1, <1>6
<1>11. \A u \in Tabs \ {t} : flight'[u] = flight[u] /\ screen'[u] = screen[u]
  BY <1>1, <1>6
<1> QED BY <1>5, <1>8, <1>9, <1>10, <1>11

LEMMA LandedIsGone ==
    ASSUME PanelSessionTypeOK, NEW t \in Tabs, NEW i \in Slots, Landed(t, i)
    PROVE  /\ flight' \in [Tabs -> [Slots -> Flight]]
           /\ flight'[t][i] = NoFlight
           /\ \A j \in Slots : flight'[t][j] \in {flight[t][j], NoFlight}
           /\ \A u \in Tabs \ {t} : flight'[u] = flight[u]
           /\ UNCHANGED stray
<1>1. NoFlight \in Flight
  BY DEF NoFlight, Flight
<1> QED BY <1>1 DEF PanelSessionTypeOK, Landed

\* The fields of a request.
LEMMA FlightFields ==
    ASSUME PanelSessionTypeOK, NEW t \in Tabs, NEW i \in Slots
    PROVE  /\ flight[t][i] \in Flight
           /\ flight[t][i].kind \in {"none", "refresh", "login", "logout"}
           /\ flight[t][i].token \in Tokens \cup {NoToken}
           /\ flight[t][i].answer \in
                 {"none", "granted", "refused", "unwell", "down", "anonymous"}
<1>1. flight[t][i] \in Flight
  BY DEF PanelSessionTypeOK
<1> QED BY <1>1 DEF Flight

\* The tabs keep the invariant.
LEMMA TabsKeepSession ==
    ASSUME SessionInv, NEW t \in Tabs,
           \/ OpenTab(t) \/ Reload(t) \/ AccessLapses(t)
           \/ StartRefresh(t) \/ StartLogin(t) \/ StartLogout(t)
    PROVE  SessionInv'
<1>1. PanelSessionTypeOK
  BY DEF SessionInv
<1>2. troubles < MaxTroubles => troubles + 1 \in 0..MaxTroubles
  BY <1>1, PanelSessionAssumption DEF PanelSessionTypeOK
<1>3. CASE OpenTab(t)
  <2>1. Landing(cookie) \in {"login", "panel"}
    BY DEF Landing
  <2>2. PanelSessionTypeOK'
    BY <1>1, <1>3, <2>1 DEF PanelSessionTypeOK, OpenTab, NoTrouble
  <2>3. \A j \in Slots : flight[t][j] = NoFlight
    BY <1>1, <1>3, FlightFields DEF SessionInv, FlightIsSound, OnItsPage, OpenTab
  <2>4. \A u \in Tabs \ {t} : flight'[u] = flight[u] /\ screen'[u] = screen[u]
    BY <1>1, <1>3 DEF PanelSessionTypeOK, OpenTab
  <2>5. UNCHANGED <<flight, live, cookie>>
    BY <1>3 DEF OpenTab
  <2> QED BY <2>2, <2>3, <2>4, <2>5, FewerRequests
<1>4. CASE Reload(t)
  <2>1. Leaves(t, cookie) /\ UNCHANGED <<cookie, access>> /\ live' \subseteq live
    BY <1>4 DEF Reload, LiveBecomes
  <2>2. troubles' \in 0..MaxTroubles /\ UNCHANGED healthy
    BY <1>2, <1>4 DEF Reload, Trouble
  <2>3. PanelSessionTypeOK'
    BY <1>1, <2>1, <2>2, LeavesNothing DEF PanelSessionTypeOK
  <2> QED BY <1>1, <2>1, <2>3, LeavesNothing, FewerRequests
<1>5. CASE AccessLapses(t)
  <2>1. PanelSessionTypeOK'
    BY <1>1, <1>5 DEF PanelSessionTypeOK, AccessLapses, NoTrouble
  <2>2. UNCHANGED <<flight, live, cookie, screen>>
    BY <1>5 DEF AccessLapses
  <2> QED BY <2>1, <2>2, TokensDie
<1>6. CASE StartRefresh(t) \/ StartLogin(t) \/ StartLogout(t)
  <2>1. PICK kind \in {"refresh", "login", "logout"} :
            /\ Sends(t, kind) /\ ~Flying(t, kind)
            /\ screen[t] = IF kind = "login" THEN "login" ELSE "panel"
    BY <1>6 DEF StartRefresh, StartLogin, StartLogout, SingleFlight
  <2>2. troubles' \in 0..MaxTroubles /\ UNCHANGED healthy
    BY <1>1, <1>2, <1>6 DEF StartRefresh, StartLogin, StartLogout, Trouble, NoTrouble, PanelSessionTypeOK
  <2>3. /\ UNCHANGED <<cookie, live, screen, access, stray>>
        /\ flight' \in [Tabs -> [Slots -> Flight]]
    BY <1>1, <2>1, SendsOne
  <2>4. PanelSessionTypeOK'
    BY <1>1, <2>2, <2>3 DEF PanelSessionTypeOK
  <2> QED BY <2>1, <2>4, OneIsSent
<1> QED BY <1>3, <1>4, <1>5, <1>6

\* So do the answers of the panel's server and the backend.
LEMMA ServingKeepsSession ==
    ASSUME SessionInv, NEW t \in Tabs, NEW i \in Slots, Serve(t, i)
    PROVE  SessionInv'
<1> DEFINE f == flight[t][i]
<1>1. PanelSessionTypeOK
  BY DEF SessionInv
<1>2. /\ f.kind \in {"refresh", "login", "logout"} /\ f.answer = "none"
      /\ f.token \in Tokens \cup {NoToken}
  BY <1>1, FlightFields DEF Serve, AnswerRefresh, AnswerLogin, AnswerLogout, Sent
<1>3. NewToken \in Tokens /\ NewToken # cookie
  BY <1>1, TokensAreNew DEF Held
<1>4. troubles' \in 0..MaxTroubles /\ UNCHANGED healthy
  BY <1>1, PanelSessionAssumption DEF Serve, AnswerRefresh, AnswerLogin, AnswerLogout,
        Trouble, NoTrouble, PanelSessionTypeOK
<1>5. f.kind = "refresh" /\ ~f.raced => f.token = cookie
  BY <1>2 DEF SessionInv, FlightIsSound, TellsOfTheCookie
<1>6. \E answer \in {"granted", "refused", "unwell", "down", "anonymous"},
         filled \in Tokens \cup {NoToken} :
          /\ Answers(t, i, answer, filled)
          /\ live' \subseteq live \cup {NewToken}
          /\ answer = "granted" /\ f.kind \in {"refresh", "login"} => filled \in Tokens
          /\ answer = "refused" /\ f.kind = "refresh" => f.token \notin live
  <2>1. CASE AnswerRefresh(t, i)
    <3> DEFINE s == f.token
    <3>1. CASE s = NoToken /\ Answers(t, i, "anonymous", NoToken) /\ LiveBecomes(live)
      BY <3>1 DEF LiveBecomes
    <3>2. CASE Answers(t, i, "granted", NewToken) /\ LiveBecomes((live \ {s}) \cup {NewToken})
      BY <3>2, <1>3 DEF LiveBecomes
    <3>3. CASE s \in Tokens \ live /\ Answers(t, i, "refused", NoToken) /\ LiveBecomes(live)
      BY <3>3 DEF LiveBecomes
    <3>4. CASE Answers(t, i, "unwell", NoToken) /\ LiveBecomes(live)
      BY <3>4 DEF LiveBecomes
    <3>5. CASE /\ Answers(t, i, "down", NoToken)
               /\ \E set \in {live, live \ {s}} : LiveBecomes(set)
      BY <3>5 DEF LiveBecomes
    <3> QED BY <2>1, <3>1, <3>2, <3>3, <3>4, <3>5 DEF AnswerRefresh
  <2>2. CASE AnswerLogin(t, i)
    BY <2>2, <1>3 DEF AnswerLogin, LiveBecomes
  <2>3. CASE AnswerLogout(t, i)
    BY <2>3 DEF AnswerLogout, LiveBecomes
  <2> QED BY <2>1, <2>2, <2>3 DEF Serve
<1>7. PICK answer \in {"granted", "refused", "unwell", "down", "anonymous"},
           filled \in Tokens \cup {NoToken} :
          /\ Answers(t, i, answer, filled)
          /\ live' \subseteq live \cup {NewToken}
          /\ answer = "granted" /\ f.kind \in {"refresh", "login"} => filled \in Tokens
          /\ answer = "refused" /\ f.kind = "refresh" => f.token \notin live
  BY <1>6
<1>8. PanelSessionTypeOK'
  <2> DEFINE x == [kind |-> f.kind, token |-> filled, answer |-> answer, raced |-> f.raced]
  <2>1. f \in Flight
    BY <1>1, FlightFields
  <2>2. x \in Flight
    BY <2>1 DEF Flight
  <2>3. /\ flight' = [flight EXCEPT ![t] = [flight[t] EXCEPT ![i] = x]]
        /\ UNCHANGED <<cookie, screen, access, stray>>
    BY <1>1, <1>7, AnswersFillOne
  <2> HIDE DEF x, f
  <2>4. flight' \in [Tabs -> [Slots -> Flight]]
    BY <1>1, <2>2, <2>3 DEF PanelSessionTypeOK
  <2> QED BY <1>1, <1>3, <1>4, <1>7, <2>3, <2>4 DEF PanelSessionTypeOK
<1>9. cookie \in live' => cookie \in live
  BY <1>3, <1>7
<1> QED BY <1>2, <1>5, <1>7, <1>8, <1>9, OneIsAnswered

\* And the answers that reach the browser, which also tell who loses a live cookie.
LEMMA LandingKeepsSession ==
    ASSUME SessionInv, NEW t \in Tabs, NEW i \in Slots, Lands(t, i)
    PROVE  /\ SessionInv' /\ flight[t][i].answer # "none" /\ flight'[t][i] = NoFlight
           /\ LosesLiveCookie => \/ flight[t][i].kind = "logout"
                                 \/ flight[t][i].answer = "unwell"
                                 \/ flight[t][i].raced
<1> DEFINE f == flight[t][i]
<1>1. PanelSessionTypeOK /\ FlightIsSound(t, i)
  BY DEF SessionInv
<1>2. f.kind \in {"refresh", "login", "logout"} /\ f.answer # "none"
  BY DEF Lands, RefreshLands, LoginLands, LogoutLands
<1>3. live' \subseteq live /\ UNCHANGED <<healthy, troubles>>
  BY DEF Lands, RefreshLands, LoginLands, LogoutLands, LiveBecomes, NoTrouble
<1>4. cookie' \in Tokens \cup {NoToken}
  BY <1>1 DEF Lands, RefreshLands, LoginLands, LogoutLands, FlightIsSound, BringsAToken,
        PanelSessionTypeOK
<1>5. access' \in [Tabs -> {"none", "good"}]
  BY <1>1 DEF Lands, RefreshLands, LoginLands, LogoutLands, PanelSessionTypeOK
<1>6. \A j \in Slots \ {i} : flight[t][j].kind = f.kind => flight[t][j] = NoFlight
  BY DEF SessionInv, OneRequestEach
<1>7. NoFlight.kind = "none"
  BY DEF NoFlight
<1>8. CASE RefreshLands(t, i) /\ f.answer = "granted"
  <2>1. Landed(t, i) /\ UNCHANGED screen /\ cookie' = f.token /\ f.kind = "refresh"
    BY <1>8 DEF RefreshLands
  <2>2. PanelSessionTypeOK'
    BY <1>1, <1>3, <1>4, <1>5, <2>1, LandedIsGone DEF PanelSessionTypeOK
  <2>3. \A j \in Slots : flight'[t][j].kind # "refresh"
    BY <1>1, <1>6, <1>7, <2>1, LandedIsGone
  <2>4. SessionInv'
    BY <1>1, <1>2, <1>3, <2>1, <2>2, <2>3, LandedIsGone, FewerRequests
  <2>5. cookie' # NoToken
    BY <1>1, <1>8, <2>1, PanelSessionAssumption DEF FlightIsSound, BringsAToken
  <2> QED BY <1>1, <1>2, <2>1, <2>4, <2>5, LandedIsGone DEF LosesLiveCookie
<1>9. CASE RefreshLands(t, i) /\ f.answer # "granted"
  <2>1. /\ Leaves(t, cookie') /\ f.kind = "refresh"
        /\ cookie' = IF DeletesCookie(f.answer) THEN NoToken ELSE cookie
    BY <1>9 DEF RefreshLands
  <2>2. PanelSessionTypeOK'
    BY <1>1, <1>3, <1>4, <1>5, <2>1, LeavesNothing DEF PanelSessionTypeOK
  <2>3. SessionInv'
    BY <1>1, <1>2, <1>3, <1>7, <2>1, <2>2, LeavesNothing, FewerRequests
  <2>4. ASSUME LosesLiveCookie, f.answer # "unwell" PROVE f.raced
    <3>1. cookie \in live /\ cookie # NoToken
      BY <1>1, <2>4, PanelSessionAssumption DEF LosesLiveCookie, PanelSessionTypeOK
    <3>2. f.answer = "refused"
      BY <2>1, <2>4, <3>1 DEF LosesLiveCookie, DeletesCookie
    <3> QED BY <1>1, <2>1, <3>1, <3>2 DEF FlightIsSound, TellsOfTheCookie
  <2> QED BY <1>1, <1>2, <2>1, <2>3, <2>4, LeavesNothing
<1>10. CASE LoginLands(t, i)
  <2>1. Landed(t, i) /\ f.kind = "login"
    BY <1>10 DEF LoginLands
  <2>2. \A j \in Slots : flight'[t][j] = NoFlight
    <3> SUFFICES ASSUME NEW j \in Slots, j # i PROVE flight[t][j] = NoFlight
      BY <1>1, <2>1, LandedIsGone
    <3>1. screen[t] = "login"
      BY <1>1, <2>1 DEF FlightIsSound, OnItsPage
    <3>2. FlightIsSound(t, j)
      BY DEF SessionInv
    <3> QED BY <1>1, <1>6, <2>1, <3>1, <3>2, FlightFields DEF FlightIsSound, OnItsPage
  <2>3. /\ screen' \in [Tabs -> {"closed", "login", "panel"}]
        /\ \A u \in Tabs \ {t} : screen'[u] = screen[u]
    BY <1>1, <1>10 DEF LoginLands, PanelSessionTypeOK
  <2>4. PanelSessionTypeOK'
    BY <1>1, <1>3, <1>4, <1>5, <2>1, <2>3, LandedIsGone DEF PanelSessionTypeOK
  <2>5. SessionInv'
    BY <1>1, <1>2, <1>3, <1>7, <2>1, <2>2, <2>3, <2>4, LandedIsGone, FewerRequests
  <2>6. ~LosesLiveCookie
    BY <1>1, <1>10, PanelSessionAssumption DEF LoginLands, LosesLiveCookie, FlightIsSound,
          BringsAToken, PanelSessionTypeOK
  <2> QED BY <1>2, <2>2, <2>5, <2>6
<1>11. CASE LogoutLands(t, i)
  <2>1. Leaves(t, cookie') /\ f.kind = "logout"
    BY <1>11 DEF LogoutLands
  <2>2. PanelSessionTypeOK'
    BY <1>1, <1>3, <1>4, <1>5, <2>1, LeavesNothing DEF PanelSessionTypeOK
  <2>3. SessionInv'
    BY <1>1, <1>2, <1>3, <1>7, <2>1, <2>2, LeavesNothing, FewerRequests
  <2> QED BY <1>1, <1>2, <2>1, <2>3, LeavesNothing
<1> QED BY <1>8, <1>9, <1>10, <1>11 DEF Lands

LEMMA PanelSessionKeepsInv == SessionInv /\ [PanelSessionNext]_PanelSessionVars => SessionInv'
<1> SUFFICES ASSUME SessionInv, [PanelSessionNext]_PanelSessionVars
             PROVE  SessionInv'
  OBVIOUS
<1>1. PanelSessionTypeOK
  BY DEF SessionInv
<1>2. ASSUME NEW t \in Tabs,
             \/ OpenTab(t) \/ Reload(t) \/ AccessLapses(t)
             \/ StartRefresh(t) \/ StartLogin(t) \/ StartLogout(t)
      PROVE  SessionInv'
  BY <1>2, TabsKeepSession
<1>3. ASSUME NEW t \in Tabs, NEW i \in Slots, Serve(t, i) \/ Lands(t, i)
      PROVE  SessionInv'
  BY <1>3, ServingKeepsSession, LandingKeepsSession
<1>4. CASE StrayArrives
  <2>1. /\ UNCHANGED <<cookie, screen, access, flight, healthy, troubles>> /\ stray' = NoToken
        /\ live' \subseteq live
    BY <1>4 DEF StrayArrives, LiveBecomes, NoTrouble
  <2>2. PanelSessionTypeOK'
    BY <1>1, <2>1 DEF PanelSessionTypeOK
  <2> QED BY <2>1, <2>2, TokensDie
<1>5. CASE SessionEnds
  <2>1. /\ UNCHANGED <<cookie, screen, access, flight, stray, healthy>> /\ live' \subseteq live
        /\ troubles' \in 0..MaxTroubles
    BY <1>1, <1>5, PanelSessionAssumption DEF SessionEnds, Trouble, PanelSessionTypeOK
  <2>2. PanelSessionTypeOK'
    BY <1>1, <2>1 DEF PanelSessionTypeOK
  <2> QED BY <2>1, <2>2, TokensDie
<1>6. CASE Outage
  <2>1. /\ UNCHANGED <<cookie, screen, access, flight, stray, troubles>> /\ live' \subseteq live
        /\ healthy' \in BOOLEAN
    BY <1>1, <1>6 DEF Outage, LiveBecomes, PanelSessionTypeOK
  <2>2. PanelSessionTypeOK'
    BY <1>1, <2>1 DEF PanelSessionTypeOK
  <2> QED BY <2>1, <2>2, TokensDie
<1>7. CASE UNCHANGED PanelSessionVars
  <2>1. PanelSessionTypeOK'
    BY <1>1, <1>7 DEF PanelSessionTypeOK, PanelSessionVars
  <2> QED BY <1>7, <2>1, TokensDie DEF PanelSessionVars
<1> QED BY <1>2, <1>3, <1>4, <1>5, <1>6, <1>7 DEF PanelSessionNext

LEMMA PanelSessionStarts == PanelSessionInit => SessionInv
<1> SUFFICES ASSUME PanelSessionInit PROVE SessionInv
  OBVIOUS
<1>1. NoFlight \in Flight /\ NoFlight.kind = "none" /\ NoFlight.answer = "none"
  BY DEF NoFlight, Flight
<1>2. \A t \in Tabs, i \in Slots : flight[t][i] = NoFlight
  BY DEF PanelSessionInit
<1>3. PanelSessionTypeOK
  BY <1>1, PanelSessionAssumption DEF PanelSessionInit, PanelSessionTypeOK
<1>4. OneRequestEach
  BY <1>2 DEF OneRequestEach
<1>5. \A t \in Tabs, i \in Slots : FlightIsSound(t, i)
  BY <1>1, <1>2 DEF FlightIsSound, OnItsPage, BringsAToken, MetNobody, TellsOfTheCookie
<1> QED BY <1>3, <1>4, <1>5 DEF SessionInv

\* A step that loses a live cookie is the landing of a logout, of an answer of a
\* backend that is not well, or of a refresh that met a request of another tab.
LEMMA WhoLosesTheCookie ==
    SessionInv /\ [PanelSessionNext]_PanelSessionVars =>
        (LosesLiveCookie =>
            \E t \in Tabs, i \in Slots :
                /\ flight[t][i].answer # "none" /\ flight'[t][i] = NoFlight
                /\ \/ flight[t][i].kind = "logout"
                   \/ flight[t][i].answer = "unwell"
                   \/ flight[t][i].raced)
<1> SUFFICES ASSUME SessionInv, [PanelSessionNext]_PanelSessionVars, LosesLiveCookie
             PROVE  \E t \in Tabs, i \in Slots :
                        /\ flight[t][i].answer # "none" /\ flight'[t][i] = NoFlight
                        /\ \/ flight[t][i].kind = "logout"
                           \/ flight[t][i].answer = "unwell"
                           \/ flight[t][i].raced
  OBVIOUS
<1>1. PanelSessionTypeOK
  BY DEF SessionInv
<1>2. cookie' # cookie
  BY <1>1, PanelSessionAssumption DEF LosesLiveCookie, PanelSessionTypeOK
<1>3. ASSUME NEW t \in Tabs
      PROVE  ~(\/ OpenTab(t) \/ Reload(t) \/ AccessLapses(t)
               \/ StartRefresh(t) \/ StartLogin(t) \/ StartLogout(t))
  BY <1>2 DEF OpenTab, Reload, AccessLapses, StartRefresh, StartLogin, StartLogout, Sends
<1>4. ASSUME NEW t \in Tabs, NEW i \in Slots PROVE ~Serve(t, i)
  BY <1>2 DEF Serve, AnswerRefresh, AnswerLogin, AnswerLogout, Answers
<1>5. ~StrayArrives /\ ~SessionEnds /\ ~Outage /\ ~UNCHANGED PanelSessionVars
  BY <1>2 DEF StrayArrives, SessionEnds, Outage, PanelSessionVars
<1>6. PICK t \in Tabs, i \in Slots : Lands(t, i)
  BY <1>3, <1>4, <1>5 DEF PanelSessionNext
<1> QED BY <1>6, LandingKeepsSession

\* LiveCookieKept, for any number of tabs and tokens.  The cookie of a session that
\* is alive is not lost to the requests of one tab alone: apiFetch shares one
\* refresh among its callers, and what that refresh carries is the cookie as it is.
THEOREM LiveCookiesStay == PanelSessionSpec => LiveCookieKept
<1>1. PanelSessionInit => SessionInv
  BY PanelSessionStarts
<1>2. SessionInv /\ [PanelSessionNext]_PanelSessionVars => SessionInv'
  BY PanelSessionKeepsInv
<1>3. SessionInv /\ [PanelSessionNext]_PanelSessionVars =>
          [LosesLiveCookie =>
              \E t \in Tabs, i \in Slots :
                  /\ flight[t][i].answer # "none" /\ flight'[t][i] = NoFlight
                  /\ \/ flight[t][i].kind = "logout"
                     \/ flight[t][i].answer = "unwell"
                     \/ flight[t][i].raced]_PanelSessionVars
  BY WhoLosesTheCookie
<1> QED BY <1>1, <1>2, <1>3, PTL DEF PanelSessionSpec, LiveCookieKept

-----------------------------------------------------------------------------
(* The phone.  That a channel is cut is a liveness property; its state is     *)
(* proved of its type here.                                                  *)

PhoneSpec == PhoneInit /\ [][PhoneNext]_PhoneVars

\* A turn is counted within its bound.
LEMMA TurnsAreCounted ==
    ASSUME turns \in 0..MaxTurns, Turn \/ NoTurn
    PROVE  turns' \in 0..MaxTurns
BY PhoneAssumption DEF Turn, NoTurn

\* Another screen than a channel's waits for no status.
LEMMA ShownIsTyped ==
    ASSUME NEW v \in {"checking", "form", "activating", "tabs"}, Shows(v)
    PROVE  /\ view' \in {"checking", "form", "activating", "tabs"}
           /\ status' \in Accounts \cup {NoStatus} /\ broken' \in BOOLEAN
           /\ statusChecks' \in [StatusSlots -> StatusCheck]
BY DEF Shows, StatusCheck

\* Start, activation, logout and the way back from a channel.
LEMMA ScreensAreTyped ==
    ASSUME PhoneTypeOK,
           SessionChecked \/ SubmitCode \/ CodeAnswered \/ LogoutPhone \/ RestartApp \/ GoBack
    PROVE  PhoneTypeOK'
<1>1. account' = account /\ alive' \in BOOLEAN /\ token' \in BOOLEAN /\ (Turn \/ NoTurn)
  BY DEF PhoneTypeOK, SessionChecked, SubmitCode, CodeAnswered, LogoutPhone, RestartApp, GoBack,
         Account
<1>2. PICK v \in {"checking", "form", "activating", "tabs"} : Shows(v)
  BY DEF SessionChecked, SubmitCode, CodeAnswered, LogoutPhone, RestartApp, GoBack
<1>3. turns' \in 0..MaxTurns
  BY <1>1, TurnsAreCounted DEF PhoneTypeOK
<1> QED
  BY <1>1, <1>2, <1>3, ShownIsTyped DEF PhoneTypeOK

\* A channel, its status checks and its player.
LEMMA ChannelsAreTyped ==
    ASSUME PhoneTypeOK,
           \/ OpenChannel \/ ChannelLoads \/ Poll \/ PlayerFails \/ RetryPlayer
           \/ \E i \in StatusSlots : StatusAnswered(i) \/ StatusLands(i)
    PROVE  PhoneTypeOK'
<1> USE DEF PhoneTypeOK, Account
<1>0. UNCHANGED <<account, alive, token>>
  BY DEF OpenChannel, ChannelLoads, Poll, PlayerFails, RetryPlayer, StatusAnswered, StatusLands
<1>1. turns' \in 0..MaxTurns
  BY TurnsAreCounted DEF OpenChannel, ChannelLoads, Poll, PlayerFails, RetryPlayer,
                         StatusAnswered, StatusLands, NoTurn
<1>2. CASE OpenChannel
  BY <1>0, <1>1, <1>2 DEF OpenChannel, StatusCheck
<1>3. CASE ChannelLoads
  BY <1>0, <1>1, <1>3 DEF ChannelLoads
<1>4. CASE Poll
  BY <1>0, <1>1, <1>4 DEF Poll, AskStatus, StatusCheck
<1>5. CASE PlayerFails \/ RetryPlayer
  BY <1>0, <1>1, <1>5 DEF PlayerFails, RetryPlayer
<1>6. ASSUME NEW i \in StatusSlots, StatusAnswered(i) PROVE PhoneTypeOK'
  BY <1>0, <1>1, <1>6 DEF StatusAnswered, StatusCheck
<1>7. ASSUME NEW i \in StatusSlots, StatusLands(i) PROVE PhoneTypeOK'
  <2>1. statusChecks[i] \in Accounts \cup {"lost"}
    BY <1>7 DEF StatusLands, StatusCheck
  <2>2. status' \in Accounts \cup {NoStatus} /\ broken' \in BOOLEAN /\ view' = view
    BY <1>7, <2>1 DEF StatusLands
  <2>3. statusChecks' \in [StatusSlots -> StatusCheck]
    BY <1>7 DEF StatusLands, StatusCheck
  <2> QED
    BY <1>0, <1>1, <2>2, <2>3
<1> QED
  BY <1>2, <1>3, <1>4, <1>5, <1>6, <1>7

\* The phone's state is of its type, however its status checks overlap and are answered.
THEOREM PhoneIsTyped == PhoneSpec => []PhoneTypeOK
<1>1. PhoneInit => PhoneTypeOK
  <2>1. PhoneInit => alive \in BOOLEAN /\ token \in BOOLEAN /\ broken \in BOOLEAN
    BY DEF PhoneInit
  <2>2. PhoneInit => turns \in 0..MaxTurns /\ statusChecks \in [StatusSlots -> StatusCheck]
    BY PhoneAssumption DEF PhoneInit, StatusCheck
  <2> QED
    BY <2>1, <2>2 DEF PhoneInit, PhoneTypeOK
<1>2. PhoneTypeOK /\ [PhoneNext]_PhoneVars => PhoneTypeOK'
  <2> SUFFICES ASSUME PhoneTypeOK, [PhoneNext]_PhoneVars
               PROVE  PhoneTypeOK'
    OBVIOUS
  <2>1. CASE UNCHANGED PhoneVars
    BY <2>1 DEF PhoneVars, PhoneTypeOK
  <2>2. ASSUME NEW a \in Accounts, AccountChanges(a) PROVE PhoneTypeOK'
    BY <2>2, TurnsAreCounted DEF AccountChanges, PhoneTypeOK
  <2>3. CASE SessionOver
    BY <2>3, TurnsAreCounted DEF SessionOver, PhoneTypeOK
  <2> QED
    BY <2>1, <2>2, <2>3, ScreensAreTyped, ChannelsAreTyped DEF PhoneNext
<1> QED
  BY <1>1, <1>2, PTL DEF PhoneSpec
-----------------------------------------------------------------------------
(* All of them together: a behaviour of Clients is a behaviour of each part, which *)
(* takes its steps or stutters.                                                *)

PartSpecs ==
    PanelSessionSpec /\ PanelPagesSpec /\ MobileListsSpec /\ FavouritesSpec /\ MoviesSpec /\ PhoneSpec

\* A step of Clients is a step of one part; the others stutter.
LEMMA PartsStep ==
    ASSUME [Next]_vars
    PROVE  /\ [PanelSessionNext]_PanelSessionVars /\ [PanelPagesNext]_PanelPagesVars
           /\ [MobileListsNext]_MobileListsVars /\ [FavouritesNext]_FavouritesVars
           /\ [SearchNext \/ WatchNext]_MoviesVars /\ [PhoneNext]_PhoneVars
<1>1. CASE UNCHANGED vars
  BY <1>1 DEF vars
<1>2. CASE PanelSessionNext /\ NotSession
  BY <1>2 DEF NotSession
<1>3. CASE PanelPagesNext /\ NotPages
  BY <1>3 DEF NotPages
<1>4. CASE MobileListsNext /\ NotLists
  BY <1>4 DEF NotLists
<1>5. CASE FavouritesNext /\ NotStars
  BY <1>5 DEF NotStars
<1>6. CASE (SearchNext \/ WatchNext) /\ NotMovies
  BY <1>6 DEF NotMovies
<1>7. CASE PhoneNext /\ NotPhone
  BY <1>7 DEF NotPhone
<1> QED
  BY <1>1, <1>2, <1>3, <1>4, <1>5, <1>6, <1>7 DEF Next

LEMMA PartsBehave == Spec => PartSpecs
<1>1. Init => /\ PanelSessionInit /\ PanelPagesInit /\ MobileListsInit
              /\ FavouritesInit /\ MoviesInit /\ PhoneInit
  BY DEF Init
<1>2. [Next]_vars => /\ [PanelSessionNext]_PanelSessionVars /\ [PanelPagesNext]_PanelPagesVars
                     /\ [MobileListsNext]_MobileListsVars /\ [FavouritesNext]_FavouritesVars
                     /\ [SearchNext \/ WatchNext]_MoviesVars /\ [PhoneNext]_PhoneVars
  BY PartsStep
<1> QED
  BY <1>1, <1>2, PTL DEF Spec, PartSpecs, PanelSessionSpec, PanelPagesSpec, MobileListsSpec,
                         FavouritesSpec, MoviesSpec, PhoneSpec

\* The panel and the app are always in a state of their type: no list, dialog, request
\* or stored position is of another form than the code that reads it takes it for.
THEOREM ClientsAreTyped == Spec => []ClientsTypeOK
<1>1. PanelSessionSpec => []PanelSessionTypeOK
  <2>1. SessionInv => PanelSessionTypeOK
    BY DEF SessionInv
  <2> QED
    BY <2>1, PanelSessionStarts, PanelSessionKeepsInv, PTL DEF PanelSessionSpec
<1>2. PanelPagesSpec => []PanelPagesTypeOK
  <2>1. PagesInv => PanelPagesTypeOK
    BY DEF PagesInv
  <2> QED
    BY <2>1, PagesAlways, PTL
<1>3. MobileListsSpec => []MobileListsTypeOK
  <2>1. ListsInv => MobileListsTypeOK
    BY DEF ListsInv
  <2> QED
    BY <2>1, ListsAlways, PTL
<1>4. FavouritesSpec => []FavouritesTypeOK
  <2>1. HeartsInv => FavouritesTypeOK
    BY DEF HeartsInv
  <2> QED
    BY <2>1, HeartsAlways, PTL
<1>5. PanelSessionTypeOK /\ PanelPagesTypeOK /\ MobileListsTypeOK /\ FavouritesTypeOK
      /\ MoviesTypeOK /\ PhoneTypeOK => ClientsTypeOK
  BY DEF ClientsTypeOK
<1> QED
  BY <1>1, <1>2, <1>3, <1>4, <1>5, MoviesAreTyped, PhoneIsTyped, PartsBehave, PTL DEF PartSpecs

\* What the app shows once its calls are answered is what the backend, or the phone, holds:
\* channels in their order, the customer's stars, the films of the search that is made, and
\* the last positions watched.
THEOREM ListsAreTrue == Spec => []ListsTellTheTruth
<1>1. PagesInOrder /\ HeartsAreStored /\ ResultsBelong /\ ResumesWhereLeft => ListsTellTheTruth
  BY DEF ListsTellTheTruth
<1> QED
  BY <1>1, ListsAreInOrder, StarsAreRows, ResultsAnswerTheSearch, FilmsResume, PartsBehave, PTL
     DEF PartSpecs

\* Together, as the panel's users see them: what a page offers is granted, an answer finds
\* its dialog, an edit touches the row it was opened for, and no live cookie is lost but to
\* a logout, an unwell backend or a race of tabs.
THEOREM PanelKeepsItsWord ==
    Spec => /\ []OfferedIsAllowed /\ []AnswersFindTheirDialog
            /\ EditTouchesItsRow /\ LiveCookieKept
BY OffersAreGranted, AnswersComeHome, EditsTouchTheirRow, LiveCookiesStay, PartsBehave, PTL
   DEF PartSpecs
=============================================================================
