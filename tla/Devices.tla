------------------------------ MODULE Devices ------------------------------
(***************************************************************************)
(* A device beside the ledger.  It keeps the rows it last received, shows  *)
(* them to its user, and sends requests that carry only an identifier, the *)
(* version of the row it holds and, for an edit, the fields of a form.     *)
(* The form of an account and that of a draft are filled when they are     *)
(* opened, and stay as they are while the rows behind them are received    *)
(* again.  Any number of other devices act on the same ledger meanwhile:   *)
(* they are the steps of Ledger itself.                                    *)
(***************************************************************************)
EXTENDS Ledger

VARIABLES
    shown,     \* transaction rows as this device last received them
    page,      \* accounts as it last received them, with their movements
    form       \* the form the user has open, and what it was filled with
dvars == <<now, acct, tx, shown, page, form>>

NoPage == [account |-> NoAccount, movements |-> {}]
NoForm  == [of |-> "NOTHING"]
Fields  == {"opening", "allowNegative"}
Content == {"kind", "amount", "account", "at", "classified"}

-----------------------------------------------------------------------------
ReceiveTransaction(i) ==
    /\ tx[i] # NoRow
    /\ shown' = [shown EXCEPT ![i] = tx[i]]
    /\ UNCHANGED <<now, acct, tx, page, form>>

ReceiveAccount(a) ==
    /\ Exists(a)
    /\ page' = [page EXCEPT ![a] = [account |-> acct[a], movements |-> Movements(a)]]
    /\ UNCHANGED <<now, acct, tx, shown, form>>

Confirm(i) ==
    /\ shown[i] # NoRow
    /\ Post(i, shown[i].version)
    /\ UNCHANGED <<shown, page, form>>

Undo(i, r, at) ==
    /\ shown[i] # NoRow
    /\ Reverse(i, shown[i].version, r, at)
    /\ UNCHANGED <<shown, page, form>>

OpenForm(a) ==
    /\ page[a] # NoPage
    /\ form' = [of |-> "ACCOUNT", account |-> a,
                filled |-> [f \in Fields |-> page[a].account[f]]]
    /\ UNCHANGED <<now, acct, tx, shown, page>>

\* `new` is what the form holds when it is saved.  It sends every field but the
\* status, the opening date as the device knows it now.
SaveForm(new, renamed) ==
    LET a == form.account
    IN  /\ form.of = "ACCOUNT"
        /\ new.status = acct[a].status
        /\ new.openedAt = page[a].account.openedAt
        /\ UpdateAccount(a, page[a].account.version, new, renamed)
        /\ form' = NoForm
        /\ UNCHANGED <<shown, page>>

OpenDraft(i) ==
    /\ shown[i] # NoRow /\ shown[i].status = "DRAFT"
    /\ form' = [of |-> "DRAFT", draft |-> i, filled |-> [f \in Content |-> shown[i][f]]]
    /\ UNCHANGED <<now, acct, tx, shown, page>>

\* `wanted` is what the form holds when it is saved.  It sends every field, with the
\* version of the row as the device has received it since.
SaveDraft(wanted) ==
    LET row == shown[form.draft]
    IN  /\ form.of = "DRAFT"
        /\ row.status = "DRAFT"
        /\ UpdateDraft(form.draft, row.version, wanted)
        /\ form' = NoForm
        /\ UNCHANGED <<shown, page>>

DInit ==
    /\ Init
    /\ shown = [i \in Ids |-> NoRow]
    /\ page = [a \in Accounts |-> NoPage]
    /\ form = NoForm

DNext ==
    \/ Next /\ UNCHANGED <<shown, page, form>>
    \/ \E i \in Ids : \/ ReceiveTransaction(i) \/ OpenDraft(i)
                      \/ Confirm(i)
                      \/ \E r \in Ids, at \in Times : Undo(i, r, at)
    \/ \E a \in Accounts : ReceiveAccount(a) \/ OpenForm(a)
    \/ \E new \in Edits, renamed \in BOOLEAN : SaveForm(new, renamed)
    \/ \E wanted \in Drafts : SaveDraft(wanted)

DSpec == DInit /\ [][DNext]_dvars

-----------------------------------------------------------------------------
(* Properties *)

AccountForm == [of : {"ACCOUNT"}, account : Accounts,
                filled : [opening : Openings, allowNegative : BOOLEAN]]
DraftForm   == [of : {"DRAFT"}, draft : Ids,
                filled : [kind : Kinds, amount : Amounts, account : Accounts,
                          at : Times, classified : BOOLEAN]]

DTypeOK ==
    /\ TypeOK
    /\ shown \in [Ids -> Row \cup {NoRow}]
    /\ page \in [Accounts -> [account : Account, movements : SUBSET Ids] \cup {NoPage}]
    /\ form \in AccountForm \cup DraftForm \cup {NoForm}
    /\ form.of = "ACCOUNT" => page[form.account] # NoPage
    /\ form.of = "DRAFT" => shown[form.draft] # NoRow

\* A version names one content.  A device whose version is the current one holds
\* the current row, whoever edited it in between; so a request the version check
\* lets through is judged on the row the device holds.
VersionNamesRow ==
    \A i \in Ids : shown[i] # NoRow =>
        /\ tx[i] # NoRow
        /\ shown[i].version <= tx[i].version
        /\ shown[i].version = tx[i].version => shown[i] = tx[i]

\* The same for an account, whose version also names the movements it holds: the
\* balance a device shows is the server's as long as the versions agree.
VersionNamesAccount ==
    \A a \in Accounts : page[a] # NoPage =>
        /\ Exists(a)
        /\ page[a].account.version <= acct[a].version
        /\ page[a].account.version = acct[a].version =>
              /\ page[a].account = acct[a]
              /\ page[a].movements = Movements(a)

\* What is posted or reversed is, field by field, what the device showed when its user
\* confirmed it.  A saved draft form overwrites no row the device had not received; but
\* that row need not be the one the form was filled with (SavesOnlyWhatChanged).
ActsOnWhatItShows ==
    [][/\ \A i \in Ids :
             /\ Confirm(i) => \A f \in Content : tx'[i][f] = shown[i][f]
             /\ \A r \in Ids, at \in Times : Undo(i, r, at) =>
                    /\ tx'[r].amount = shown[i].amount
                    /\ tx'[r].account = shown[i].account
                    /\ tx'[r].effect = Opposite(shown[i].effect)
       /\ \A wanted \in Drafts : SaveDraft(wanted) => tx[form.draft] = shown[form.draft]]_dvars

\* Saving a form, of an account or of a draft, changes only what its user changed in it:
\* another device's edit is never silently undone.  The code does not keep this, of
\* either form.
SavesOnlyWhatChanged ==
    [][/\ \A new \in Edits, renamed \in BOOLEAN :
             SaveForm(new, renamed) =>
                \A f \in Fields : acct'[form.account][f] # acct[form.account][f] =>
                                     new[f] # form.filled[f]
       /\ \A wanted \in Drafts :
             SaveDraft(wanted) =>
                \A f \in Content : tx'[form.draft][f] # tx[form.draft][f] =>
                                      wanted[f] # form.filled[f]]_dvars
=============================================================================
