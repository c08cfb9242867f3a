-------------------------- MODULE InventoryEntries --------------------------
(***************************************************************************)
(* The products and the data of an inventory, as one member of it edits    *)
(* them: a table loaded from the server, a dialog that edits one entry,    *)
(* and the server, where other members change the same entries.            *)
(*                                                                         *)
(* The dialog edits the table's own object until the table is loaded       *)
(* again, requests are served and answered in any order, and what a member *)
(* may do is decided twice: by the entry and by its inventory.             *)
(***************************************************************************)
EXTENDS Naturals, FiniteSets

CONSTANTS
    Entries,      \* the entries of the inventory, those to come included
    Vals,         \* what the questions of an entry may be answered with
    MaxUpsets,    \* bound: changes by others, lost requests, and times the member
                  \* acts while requests are under way
    New

ASSUME EntriesOK ==
    /\ IsFiniteSet(Entries) /\ New \notin Entries
    /\ Vals # {} /\ MaxUpsets \in Nat

VARIABLES
    kind,         \* which table: "product" or "data"
    facilitator,  \* the member is a facilitator of the inventory
    rows,         \* the entries in the database
    list,         \* the entries as the table loaded them, and as edited since
    dialog,       \* the dialog and the object it edits
    net,          \* the requests under way
    upsets,       \* how many so far
    apart         \* history: the table may have come apart from the rows

vars == <<kind, facilitator, rows, list, dialog, net, upsets, apart>>

member == <<kind, facilitator>>

---------------------------------------------------------------------------
(* Entries.  A product has connections to other products; the rest of what *)
(* is asked about it is one value.                                         *)

Row  == [at : {"none", "live", "deleted"}, val : Vals, conn : SUBSET Entries]
Blank == CHOOSE v \in Vals : TRUE
Absent == [at |-> "none", val |-> Blank, conn |-> {}]

Live(t) == {e \in Entries : t[e].at = "live"}
Free    == {e \in Entries : rows[e].at = "none"}

\* What the index of entries returns: a facilitator sees the deleted ones too.
product_entries ==
    [e \in Entries |-> IF rows[e].at = "deleted" /\ ~facilitator THEN Absent ELSE rows[e]]

Seen(t) == {e \in Entries : t[e].at # "none"}

Closed ==
    [open |-> FALSE, id |-> New, own |-> FALSE, val |-> Blank, conn |-> {},
     edited |-> {}, dirty |-> FALSE, options |-> {}]

---------------------------------------------------------------------------
(* Requests.  A number tells those of one kind apart.                      *)

Req(k, e) ==
    [kind |-> k, entry |-> e, val |-> Blank, conn |-> {}, edited |-> {},
     list |-> [x \in Entries |-> Absent], status |-> "sent", ok |-> TRUE, heard |-> TRUE, n |-> 0]

Under(N, k) == {q \in N : q.kind = k}

Sent(N, r) ==
    N \cup {[r EXCEPT !.n = CHOOSE n \in 1..(Cardinality(N) + 1) :
                 /\ \A q \in Under(N, r.kind) : q.n # n
                 /\ \A m \in 1..(n - 1) : \E q \in Under(N, r.kind) : q.n = m]}

\* Nobody hears the answers to the requests of a dialog that was closed: those
\* that only read are forgotten.
Unheard(N) == {[q EXCEPT !.heard = @ /\ q.kind # "save"] : q \in N \ Under(N, "options")}

Upset == upsets < MaxUpsets /\ upsets' = upsets + 1

Act == IF \E q \in net : q.kind # "options" THEN Upset ELSE upsets' = upsets

\* reloadData: loads may overtake each other.
Reloaded(N) == Sent(N, Req("load", New))
Crosses(N)  == Under(N, "load") # {}

---------------------------------------------------------------------------
(* The table and its dialog.                                               *)

\* _.find in the list: the dialog gets the list's own object, or a new one.
Open(e) ==
    /\ ~dialog.open /\ Act
    /\ dialog' = [Closed EXCEPT !.open = TRUE, !.id = e, !.own = e # New,
                     !.val = IF e = New THEN Blank ELSE list[e].val,
                     !.conn = IF e = New THEN {} ELSE list[e].conn]
    /\ net' = IF kind = "product" THEN Sent(net, Req("options", e)) ELSE net
    /\ apart' = (apart \/ Crosses(net))
    /\ UNCHANGED <<member, rows, list>>

showProductEntryModal       == kind = "product" /\ \E e \in Live(list) : Open(e)
showInventoryDataEntryModal == kind = "data" /\ \E e \in Live(list) : Open(e)

\* The button beside the table.
AddEntry == Open(New)

\* What the dialog writes into its object, the list shows.
Write(d) ==
    /\ dialog' = d
    /\ list' = IF d.own THEN [list EXCEPT ![d.id].val = d.val, ![d.id].conn = d.conn] ELSE list

EditField(v) ==
    /\ dialog.open /\ Act /\ v # dialog.val
    /\ Write([dialog EXCEPT !.val = v, !.edited = @ \cup {"val"}, !.dirty = TRUE])
    /\ UNCHANGED <<member, rows, net, apart>>

\* The watch of the checkboxes: only the options that are ticked remain.
checkboxize(d, options) ==
    [d EXCEPT !.options = options, !.conn = @ \cap options, !.dirty = @ \/ d.conn \ options # {}]

Tick(e) ==
    /\ dialog.open /\ Act /\ e \in dialog.options
    /\ Write([dialog EXCEPT !.conn = (@ \cup {e}) \ (@ \cap {e}), !.edited = @ \cup {"conn"},
                            !.dirty = TRUE])
    /\ UNCHANGED <<member, rows, net, apart>>

Save ==
    /\ dialog.open /\ Act
    /\ dialog.id = New => Cardinality(Free) > Cardinality({q \in Under(net, "save") : q.entry = New})
    /\ net' = Sent(net, [Req("save", dialog.id) EXCEPT !.val = dialog.val, !.conn = dialog.conn,
                                                      !.edited = dialog.edited])
    /\ UNCHANGED <<member, rows, list, dialog, apart>>

saveProductEntry == kind = "product" /\ Save
saveDataEntry    == kind = "data" /\ Save

SaveUnderWay(N) == \E q \in Under(N, "save") : q.heard

\* Mutant: the closed dialog still holds the list's object.
ShutKept(N) ==
    /\ dialog' = [dialog EXCEPT !.open = FALSE]
    /\ net' = Reloaded(Unheard(N))
    /\ apart' = (apart \/ Crosses(N) \/ SaveUnderWay(N))

\* closeModal, from the dialog's buttons or after a save, loads the table again.
Shut(N) ==
    /\ dialog' = Closed
    /\ net' = Reloaded(Unheard(N))
    /\ apart' = (apart \/ Crosses(N) \/ SaveUnderWay(N))

closeProductEntryModal ==
    /\ kind = "product" /\ dialog.open /\ Act /\ Shut(net)
    /\ UNCHANGED <<member, rows, list>>

closeInventoryDataEntryModal ==
    /\ kind = "data" /\ dialog.open /\ Act /\ Shut(net)
    /\ UNCHANGED <<member, rows, list>>

\* The escape key and a click beside the dialog close it and load nothing.
Dismiss ==
    /\ dialog.open /\ Act
    /\ dialog' = Closed
    /\ net' = Unheard(net)
    /\ apart' = (apart \/ SaveUnderWay(net) \/ (dialog.own /\ dialog.dirty))
    /\ UNCHANGED <<member, rows, list>>

Ask(k, e) ==
    /\ ~dialog.open /\ Act
    /\ net' = Sent(net, Req(k, e))
    /\ UNCHANGED <<member, rows, list, dialog, apart>>

deleteProductEntry  == kind = "product" /\ \E e \in Live(list) : Ask("delete", e)
deleteDataEntry     == kind = "data" /\ \E e \in Live(list) : Ask("delete", e)
restoreProductEntry == kind = "product" /\ \E e \in Seen(list) \ Live(list) : Ask("restore", e)
restoreDataEntry    == kind = "data" /\ \E e \in Seen(list) \ Live(list) : Ask("restore", e)

---------------------------------------------------------------------------
(* The server.                                                             *)

Done(r, ok) == (net \ {r}) \cup {[r EXCEPT !.status = "served", !.ok = ok]}

Untouched == UNCHANGED <<member, list, dialog, upsets, apart>>

Index(r) ==
    /\ r.kind = "load"
    /\ net' = (net \ {r}) \cup {[r EXCEPT !.status = "served", !.list = product_entries]}
    /\ rows' = rows /\ Untouched

Create(r) ==
    /\ r.kind = "save" /\ r.entry = New
    /\ \E e \in Free : rows' = [rows EXCEPT ![e] = [at |-> "live", val |-> r.val, conn |-> r.conn]]
    /\ net' = Done(r, TRUE) /\ Untouched

\* An empty array arrives as nil, and what is not permitted is left alone.
product_entry_params(r) ==
    [rows[r.entry] EXCEPT !.val = r.val, !.conn = IF r.conn = {} THEN @ ELSE r.conn]

\* Mutant: the entry is looked up among the deleted ones too.
UpdateAny(r) ==
    /\ r.kind = "save" /\ r.entry # New
    /\ rows' = IF facilitator THEN [rows EXCEPT ![r.entry] = product_entry_params(r)] ELSE rows
    /\ net' = Done(r, facilitator)
    /\ Untouched

\* The inventory may be updated by its facilitators: so may its entries.
Update(r) ==
    /\ r.kind = "save" /\ r.entry # New
    /\ LET ok == facilitator /\ r.entry \in Live(rows)
       IN /\ rows' = IF ok THEN [rows EXCEPT ![r.entry] = product_entry_params(r)] ELSE rows
          /\ net' = Done(r, ok)
    /\ Untouched

Destroy(r) ==
    /\ r.kind = "delete"
    /\ LET ok == r.entry \in Live(rows)
       IN /\ rows' = IF ok THEN [rows EXCEPT ![r.entry].at = "deleted"] ELSE rows
          /\ net' = Done(r, ok)
    /\ Untouched

\* restorable_by? passes a hash where owner? expects a user and raises, although
\* the repository has everything else that a restoration needs.
Restore(r) ==
    /\ r.kind = "restore"
    /\ rows' = rows
    /\ net' = Done(r, FALSE) /\ Untouched

Serve ==
    \E r \in net : r.status = "sent" /\ (Index(r) \/ Create(r) \/ Update(r) \/ Destroy(r) \/ Restore(r))

---------------------------------------------------------------------------
(* Answers.                                                                *)

Answered(k) == {r \in net : r.kind = k /\ r.status = "served"}

\* The list is replaced: an open dialog keeps an object nobody else holds.
Loaded(r) ==
    /\ net' = net \ {r} /\ list' = r.list
    /\ dialog' = [dialog EXCEPT !.own = FALSE]
    /\ UNCHANGED <<member, rows, upsets, apart>>

LoadedProducts == kind = "product" /\ \E r \in Answered("load") : Loaded(r)
LoadedData     == kind = "data" /\ \E r \in Answered("load") : Loaded(r)

\* Mutant: deleted entries are not among those to connect to.
setupLiveCheckboxes ==
    \E r \in Under(net, "options") :
        /\ net' = net \ {r}
        /\ Write(checkboxize(dialog, Live(product_entries)))
        /\ UNCHANGED <<member, rows, upsets, apart>>

\* The entries to connect to: the dialog only reads them, so the request is
\* served when it is answered.
setupCheckboxes ==
    \E r \in Under(net, "options") :
        /\ net' = net \ {r}
        /\ Write(checkboxize(dialog, Seen(product_entries)))
        /\ UNCHANGED <<member, rows, upsets, apart>>

\* A save that was refused leaves the dialog open.
Saved ==
    \E r \in Answered("save") :
        /\ IF r.heard /\ r.ok THEN Shut(net \ {r})
           ELSE net' = net \ {r} /\ UNCHANGED <<dialog, apart>>
        /\ UNCHANGED <<member, rows, list, upsets>>

\* Mutant: the table is not loaded again.
ChangedUnseen ==
    \E r \in Answered("delete") \cup Answered("restore") :
        /\ net' = net \ {r}
        /\ UNCHANGED <<member, rows, list, dialog, upsets, apart>>

Changed ==
    \E r \in Answered("delete") \cup Answered("restore") :
        /\ net' = IF r.ok THEN Reloaded(net \ {r}) ELSE net \ {r}
        /\ apart' = (apart \/ (r.ok /\ Crosses(net)))
        /\ UNCHANGED <<member, rows, list, dialog, upsets>>

---------------------------------------------------------------------------
(* Upsets.                                                                 *)

\* Another member edits or deletes an entry.
Foreign ==
    /\ Upset
    /\ \E e \in Live(rows) :
          \/ \E v \in Vals \ {rows[e].val} : rows' = [rows EXCEPT ![e].val = v]
          \/ rows' = [rows EXCEPT ![e].at = "deleted"]
    /\ apart' = TRUE
    /\ UNCHANGED <<member, list, dialog, net>>

\* A request is lost before it is served, or its answer is.
Fail ==
    /\ Upset
    /\ \E r \in net : net' = net \ {r}
    /\ apart' = TRUE
    /\ UNCHANGED <<member, rows, list, dialog>>

Init ==
    /\ kind \in {"product", "data"} /\ facilitator \in BOOLEAN
    /\ \E e \in Entries :
          rows \in {[x \in Entries |-> IF x = e THEN r ELSE Absent] :
                       r \in {s \in Row : s.at = "live" /\ s.val = Blank /\ s.conn \subseteq {e}}}
    /\ kind = "data" => \A e \in Entries : rows[e].conn = {}
    /\ list = [e \in Entries |-> Absent] /\ dialog = Closed
    /\ net = Reloaded({})
    /\ upsets = 0 /\ apart = FALSE

Next ==
    \/ showProductEntryModal \/ showInventoryDataEntryModal \/ AddEntry
    \/ \E v \in Vals : EditField(v)
    \/ \E e \in Entries : Tick(e)
    \/ saveProductEntry \/ saveDataEntry
    \/ closeProductEntryModal \/ closeInventoryDataEntryModal \/ Dismiss
    \/ deleteProductEntry \/ deleteDataEntry \/ restoreProductEntry \/ restoreDataEntry
    \/ Serve
    \/ LoadedProducts \/ LoadedData \/ setupCheckboxes \/ Saved \/ Changed
    \/ Foreign \/ Fail

Spec == Init /\ [][Next]_vars

---------------------------------------------------------------------------
(* Properties.                                                             *)

\* Type correctness of the rows, the table, the dialog and the requests.
TypeOK ==
    /\ kind \in {"product", "data"} /\ facilitator \in BOOLEAN
    /\ rows \in [Entries -> Row] /\ list \in [Entries -> Row]
    /\ dialog \in [open : BOOLEAN, id : Entries \cup {New}, own : BOOLEAN, val : Vals,
                   conn : SUBSET Entries, edited : SUBSET {"val", "conn"}, dirty : BOOLEAN,
                   options : SUBSET Entries]
    /\ dialog.own => dialog.open /\ dialog.id # New
    /\ \A q \in net :
          /\ q.kind \in {"load", "options", "save", "delete", "restore"}
          /\ q.entry \in Entries \cup {New} /\ q.val \in Vals /\ q.conn \subseteq Entries
          /\ q.edited \subseteq {"val", "conn"} /\ q.list \in [Entries -> Row]
          /\ q.status \in {"sent", "served"} /\ q.ok \in BOOLEAN /\ q.heard \in BOOLEAN
          /\ q.n \in Nat \ {0}
    /\ upsets \in 0..MaxUpsets
    /\ apart \in BOOLEAN

\* Once no request is under way and no dialog is open, the table shows the
\* rows of the database: unless somebody else changed them, a request was lost,
\* two loads crossed, the dialog was closed over its own save, or it was
\* dismissed with edits in the list's object.
ListFollows == net = {} /\ ~dialog.open /\ ~apart => list = product_entries

\* With the same exceptions, a save that is served changes of an entry what
\* the member edited in that dialog: an edit that was cancelled before is not
\* saved with it, although the dialog edits the list's own object.
SavesOnlyEdits ==
    [][~apart' =>
          \A e \in Live(rows) \cap Live(rows') :
              /\ rows'[e].val # rows[e].val =>
                    \E q \in Under(net, "save") : q.entry = e /\ "val" \in q.edited
              /\ rows'[e].conn # rows[e].conn =>
                    \E q \in Under(net, "save") : q.entry = e /\ "conn" \in q.edited]_vars

\* An entry that was deleted is neither changed nor brought back but by a request
\* to restore it: not by the save of a dialog that was opened before somebody
\* deleted it, nor by a deletion that overlaps, nor by another member's edit.
OnlyRestoringRevives ==
    [][\A e \in Entries :
          rows[e].at = "deleted" /\ rows'[e] # rows[e] =>
              \E q \in Under(net, "restore") : q.entry = e]_vars
=============================================================================
