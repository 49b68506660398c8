---------------------------- MODULE WorkspaceStore ----------------------------
(***************************************************************************)
(* The drafts that pages share (workbench_store.py): each page works on    *)
(* the revision it has read, and every change is one SQLite transaction    *)
(* that compares this revision with the stored one.  A run takes its       *)
(* document from a draft that was read and checked some time earlier       *)
(* (_checked_saved and start_run of workbench_runtime.py).                 *)
(***************************************************************************)
EXTENDS Naturals, FiniteSets

CONSTANTS
  Pages,    (* browser pages                                               *)
  Drafts,   (* draft identifiers                                           *)
  Changes,  (* changes pages make to a document                            *)
  Unsafe    (* the Changes no record may hold: passwords, oversized payloads *)

\* No draft has the identifier of no draft.
StoreAssumption == "none" \notin Drafts

VARIABLES
  drafts,   (* workspace_drafts                                            *)
  fresh,    (* identifiers uuid4 has not returned yet                      *)
  runs,     (* the snapshots in workspace_runs                             *)
  view,     (* the draft a page displays                                   *)
  local,    (* changes a page has not saved                                *)
  checked,  (* the draft a page's run request has read and checked         *)
  acked,    (* changes whose save was confirmed, with their draft          *)
  seen      (* changes that were on display when their draft was deleted   *)

storeVars == <<drafts, fresh, runs, view, local, checked, acked, seen>>

Absent == [revision |-> 0, document |-> {}]
NoView == [id |-> "none", revision |-> 0, document |-> {}]

StoreInit ==
  /\ drafts = [d \in Drafts |-> Absent]
  /\ fresh = Drafts
  /\ runs = {}
  /\ view = [p \in Pages |-> NoView]
  /\ local = [p \in Pages |-> {}]
  /\ checked = [p \in Pages |-> NoView]
  /\ acked = {} /\ seen = {}

Displayed(d, r) == [id |-> d, revision |-> r.revision, document |-> r.document]

\* _snapshot and _json_text refuse what must not be stored.
Storable(document) == document \cap Unsafe = {}

Store(d, document) ==
  [drafts EXCEPT ![d] = [revision |-> @.revision + 1, document |-> document]]

\* _draft_at_revision: the row still is what the page displays.
AtRevision(p) ==
  /\ view[p].id # "none"
  /\ drafts[view[p].id].revision = view[p].revision

-----------------------------------------------------------------------------
(* Pages                                                                   *)

\* get_draft, for a page that opens a draft or reloads it after a conflict.
Open(p, d) ==
  /\ drafts[d] # Absent
  /\ view' = [view EXCEPT ![p] = Displayed(d, drafts[d])]
  /\ local' = [local EXCEPT ![p] = {}]
  /\ UNCHANGED <<drafts, fresh, runs, checked, acked, seen>>

Edit(p, c) ==
  /\ c \notin (UNION {local[q] : q \in Pages}) \cup {a.change : a \in acked}
  /\ local' = [local EXCEPT ![p] = @ \cup {c}]
  /\ UNCHANGED <<drafts, fresh, runs, view, checked, acked, seen>>

Document(p) == view[p].document \cup local[p]

Confirm(p, d) ==
  /\ acked' = acked \cup {[id |-> d, change |-> c] : c \in Document(p)}
  /\ view' = [view EXCEPT ![p] = Displayed(d, drafts'[d])]
  /\ local' = [local EXCEPT ![p] = {}]

\* save_draft without and with an identifier.
Create(p, d) ==
  /\ d \in fresh /\ fresh' = fresh \ {d}
  /\ Storable(Document(p))
  /\ drafts' = Store(d, Document(p))
  /\ Confirm(p, d)
  /\ UNCHANGED <<runs, checked, seen>>

\* A mistake: an existing draft is replaced whatever its revision.
SaveOverAny(p) ==
  /\ view[p].id # "none" /\ drafts[view[p].id] # Absent
  /\ local[p] # {} /\ Storable(Document(p))
  /\ drafts' = Store(view[p].id, Document(p))
  /\ Confirm(p, view[p].id)
  /\ UNCHANGED <<fresh, runs, checked, seen>>

Save(p) ==
  /\ AtRevision(p) /\ local[p] # {}
  /\ Storable(Document(p))
  /\ drafts' = Store(view[p].id, Document(p))
  /\ Confirm(p, view[p].id)
  /\ UNCHANGED <<fresh, runs, checked, seen>>

\* rename_draft keeps the stored document and takes a revision.
Rename(p) ==
  /\ AtRevision(p) /\ local[p] = {}
  /\ drafts' = Store(view[p].id, drafts[view[p].id].document)
  /\ view' = [view EXCEPT ![p] = Displayed(view[p].id, drafts'[view[p].id])]
  /\ UNCHANGED <<fresh, runs, local, checked, acked, seen>>

\* copy_draft copies the stored document at the displayed revision.
Copy(p, d) ==
  /\ AtRevision(p)
  /\ d \in fresh /\ fresh' = fresh \ {d}
  /\ drafts' = Store(d, drafts[view[p].id].document)
  /\ acked' = acked \cup {[id |-> d, change |-> c] : c \in view[p].document}
  /\ UNCHANGED <<runs, view, local, checked, seen>>

Delete(p) ==
  LET d == view[p].id IN
  /\ AtRevision(p)
  /\ drafts' = [drafts EXCEPT ![d] = Absent]
  /\ seen' = seen \cup {[id |-> d, change |-> c] : c \in view[p].document}
  /\ view' = [view EXCEPT ![p] = NoView]
  /\ UNCHANGED <<fresh, runs, local, checked, acked>>

-----------------------------------------------------------------------------
(* A run request                                                           *)

\* _checked_saved reads the draft outside any transaction; the check of its
\* document against the database then takes a while.
CheckSaved(p) ==
  /\ checked[p] = NoView /\ local[p] = {} /\ AtRevision(p)
  /\ checked' = [checked EXCEPT ![p] = Displayed(view[p].id, drafts[view[p].id])]
  /\ UNCHANGED <<drafts, fresh, runs, view, local, acked, seen>>

\* create_run(require_current_draft=True).
Unchanged(p) ==
  LET d == checked[p].id IN
  /\ drafts[d].revision = checked[p].revision
  /\ drafts[d].document = checked[p].document

CreateRun(p) ==
  /\ checked[p] # NoView
  /\ runs' = IF Unchanged(p)
             THEN runs \cup {[id |-> checked[p].id, revision |-> checked[p].revision,
                              document |-> checked[p].document,
                              stored |-> drafts[checked[p].id].document]}
             ELSE runs
  /\ checked' = [checked EXCEPT ![p] = NoView]
  /\ UNCHANGED <<drafts, fresh, view, local, acked, seen>>

StoreNext ==
  \E p \in Pages :
    \/ Save(p) \/ Rename(p) \/ Delete(p) \/ CheckSaved(p) \/ CreateRun(p)
    \/ \E d \in Drafts : Open(p, d) \/ Create(p, d) \/ Copy(p, d)
    \/ \E c \in Changes : Edit(p, c)

StoreSpec == StoreInit /\ [][StoreNext]_storeVars

-----------------------------------------------------------------------------
(* Properties                                                              *)

StoreTypeOK ==
  /\ drafts \in [Drafts -> [revision : Nat, document : SUBSET (Changes \ Unsafe)]]
  /\ \A p \in Pages : view[p] = NoView \/ view[p].id \in Drafts
  /\ \A r \in runs : r.id \in Drafts /\ r.document \subseteq Changes \ Unsafe
  /\ local \in [Pages -> SUBSET Changes]

\* A save that was confirmed is never lost to another page: its changes are
\* in the draft until somebody who saw them deletes it.
SavedChangesSurvive ==
  \A a \in acked : a.change \in drafts[a.id].document \/ a \in seen

\* A run executes the document its page had checked, and that document was
\* the stored one when the run was accepted.
RunsAreSavedDocuments == \A r \in runs : r.document = r.stored

\* A revision names one document: two pages, or a page and a run, that agree
\* on the revision of a draft agree on what it says.
RevisionsAreUnique ==
  \A p, q \in Pages : \A r \in runs :
    /\ view[p].id = view[q].id /\ view[p].revision = view[q].revision
         => view[p].document = view[q].document
    /\ view[p].id = r.id /\ view[p].revision = r.revision => view[p].document = r.document

\* A change the store acknowledged is in the draft or was replaced by who had seen it; a revision
\* names one document, and a run executes the one its page had checked (save_draft, create_run).
ConfirmedChangesSurvive ==
  StoreTypeOK /\ SavedChangesSurvive /\ RunsAreSavedDocuments /\ RevisionsAreUnique
=============================================================================
