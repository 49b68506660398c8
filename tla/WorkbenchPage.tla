--------------------------- MODULE WorkbenchPage ---------------------------
(***************************************************************************)
(* The workbench page in one browser tab: the document being edited, the   *)
(* requests that save, check, preview, open and run it, the execution      *)
(* dialog, the page of saved configurations, and the tab of somebody else. *)
(* JavaScript runs one handler at a time: an action is a handler up to its *)
(* next await, and what a handler remembers across an await is its flow.   *)
(* The gate of the page lets one database operation run at a time ("op");  *)
(* opening a draft, following a link, reviewing a plan, submitting a run,  *)
(* asking for suggestions and managing drafts wait on their own.           *)
(***************************************************************************)
EXTENDS Integers, Sequences, FiniteSets

CONSTANTS
  Docs,          (* contents of a document *)
  Empty,         (* the content of a new one *)
  MaxEpoch,      (* edits of one document *)
  MaxModels,     (* documents opened in turn *)
  MaxDrafts, MaxRevision,
  MaxMounts,     (* times a page is mounted *)
  MaxSchema,     (* changes of the database schema *)
  MaxRuns,
  MaxWaiting,    (* handlers that wait at the same time *)
  Lossy,         (* TRUE: the answer to a request the server has handled may be lost *)
  LateRename     (* TRUE: a rename may build on a revision the page has not heard of, or answer late *)

PageAssumption ==
  /\ Empty \in Docs
  /\ {MaxEpoch, MaxModels, MaxDrafts, MaxRevision, MaxMounts, MaxSchema, MaxRuns, MaxWaiting} \subseteq Nat
  /\ {Lossy, LateRename} \subseteq BOOLEAN

VARIABLES
  m,          (* the document of the page (WorkbenchDocument) *)
  drafts,     (* server: sequence of drafts [alive, revisions], a revision being [doc, schema] *)
  schema,     (* server: the schema of the database *)
  runs,       (* server: the runs it has accepted *)
  page,       (* "loading" | "workbench" | "configs" *)
  active,     (* the number of the mount *)
  front,      (* the flow that took the last modal ticket (modalIntent) *)
  flows,      (* what each handler remembers across its await *)
  dialog,     (* the execution dialog *)
  recovery,   (* executionChecks of the document: <<>> or <<[epoch, lifecycle, state, doc]>> *)
  listing     (* the revisions the page of configurations shows, 0 for none *)
vars == <<m, drafts, schema, runs, page, active, front, flows, dialog, recovery, listing>>

Flows == {"op", "open", "route", "plan", "run", "ask", "manage"}
Idle == [step |-> "idle"]
Closed == [open |-> FALSE]
Busy(f) == flows[f].step # "idle"
Room == Cardinality({f \in Flows : Busy(f)}) < MaxWaiting
Saving == \E f \in Flows : flows[f].step = "save"

----------------------------------------------------------------------------
(* WorkbenchDocument.                                                      *)

Document(id, doc, saved, savedEpoch) ==
  [id |-> id, doc |-> doc, epoch |-> 0, savedEpoch |-> savedEpoch, lifecycle |-> 0, saved |-> saved,
   check |-> <<>>, cache |-> <<>>, schema |-> schema]
touch(x) == [x EXCEPT !.epoch = @ + 1, !.check = <<>>]
Dirty(x) == x.epoch # x.savedEpoch
\* A mistake: what was edited during the request counts as saved.
EpochNow(x, epoch) == x.epoch
EpochSent(x, epoch) == epoch
markSaved(x, w) ==
  [x EXCEPT !.saved = <<[id |-> w.id, rev |-> w.rev, doc |-> w.doc]>>, !.savedEpoch = EpochSent(x, w.ticket.epoch)]
CanRun == m.saved # <<>> /\ ~Dirty(m) /\ m.check # <<>>

\* ticket: nothing a request relied on has changed; modalTicket: and no later dialog was asked for.
TicketOf(x) == [active |-> active, id |-> x.id, epoch |-> x.epoch, lifecycle |-> x.lifecycle]
Ticket == TicketOf(m)
Current(f) == flows[f].ticket = Ticket
ModalCurrent(f) == Current(f) /\ front = f

\* A handler at its await: what it sent is the document as it was. "shown": its dialog is still on
\* the page; "fresh": the dialog has not asked for something else since.
FlowOf(x, step, kind) ==
  [step |-> step, kind |-> kind, ticket |-> TicketOf(x), served |-> FALSE, ok |-> FALSE, shown |-> TRUE, fresh |-> TRUE,
   doc |-> x.doc, schema |-> x.schema, got |-> <<>>,
   id |-> IF x.saved = <<>> THEN 0 ELSE x.saved[1].id, rev |-> IF x.saved = <<>> THEN 0 ELSE x.saved[1].rev]
Flow(step, kind) == FlowOf(m, step, kind)
Begin(f, flow) == flows' = [flows EXCEPT ![f] = flow]
End(f) == flows' = [flows EXCEPT ![f] = Idle]
Server == <<drafts, schema, runs>>

Init ==
  /\ schema = 0 /\ drafts = <<>> /\ runs = {}
  /\ m = Document(1, Empty, <<>>, -1)
  /\ page = "workbench" /\ active = 1 /\ front = "none"
  /\ flows = [f \in Flows |-> Idle]
  /\ dialog = Closed /\ recovery = <<>>
  /\ listing = [i \in 1 .. MaxDrafts |-> 0]

----------------------------------------------------------------------------
(* The server.                                                             *)

AtRevision(id, rev) == id \in DOMAIN drafts /\ drafts[id].alive /\ Len(drafts[id].revisions) = rev
Stored(id, rev) == drafts[id].revisions[rev]
Revise(id, content) == drafts' = [drafts EXCEPT ![id].revisions = Append(@, content)]
Answered(f, changes) == flows' = [flows EXCEPT ![f] = [changes EXCEPT !.served = TRUE]]
Granted(f, changes) == Answered(f, [changes EXCEPT !.ok = TRUE])
Refused(f) == Answered(f, flows[f]) /\ UNCHANGED Server

\* A save is refused for an old schema, and for a revision that is not the last.
ServeSave(f) ==
  LET w == flows[f]
      content == [doc |-> w.doc, schema |-> w.schema]
  IN  \/ /\ w.schema = schema /\ w.id = 0 /\ Len(drafts) < MaxDrafts
         /\ drafts' = Append(drafts, [alive |-> TRUE, revisions |-> <<content>>])
         /\ Granted(f, [w EXCEPT !.id = Len(drafts) + 1, !.rev = 1])
         /\ UNCHANGED <<schema, runs>>
      \/ /\ w.schema = schema /\ AtRevision(w.id, w.rev) /\ w.rev < MaxRevision
         /\ Revise(w.id, content)
         /\ Granted(f, [w EXCEPT !.rev = @ + 1])
         /\ UNCHANGED <<schema, runs>>
      \/ (w.schema # schema \/ (w.id > 0 /\ ~AtRevision(w.id, w.rev))) /\ Refused(f)

\* The plan and the run are for the saved revision, and for the rules that were checked.
Reviewed(w) == AtRevision(w.id, w.rev) /\ Stored(w.id, w.rev).doc = w.doc /\ w.schema = schema

ServeRead(f) ==
  LET w == flows[f]
  IN  /\ UNCHANGED Server
      /\ CASE w.step \in {"check", "preview", "suggest"} -> Answered(f, [w EXCEPT !.ok = w.schema = schema])
           [] w.step \in {"parse", "providers"} -> Granted(f, w)
           [] w.step = "schema" -> Granted(f, [w EXCEPT !.schema = schema])
           [] w.step = "get" /\ w.kind = "run" -> Granted(f, w)
           [] w.step = "get" /\ w.kind # "run" ->
                LET r == drafts[w.id].revisions
                IN  IF drafts[w.id].alive
                    THEN Granted(f, [w EXCEPT !.got = <<[id |-> w.id, rev |-> Len(r), doc |-> r[Len(r)].doc, schema |-> r[Len(r)].schema]>>])
                    ELSE Answered(f, w)
           [] w.step = "plan" -> Answered(f, [w EXCEPT !.ok = Reviewed(w)])

ServeRun ==
  LET w == flows["run"]
  IN  \/ /\ Reviewed(w) /\ Cardinality(runs) < MaxRuns
         /\ runs' = runs \cup {[doc |-> Stored(w.id, w.rev).doc, seen |-> w.got]}
         /\ Granted("run", w) /\ UNCHANGED <<drafts, schema>>
      \/ ~Reviewed(w) /\ Refused("run")

ServeManage ==
  LET w == flows["manage"]
      now == AtRevision(w.id, w.rev)
  IN  \/ /\ now /\ w.step = "rename" /\ w.rev < MaxRevision
         /\ Revise(w.id, Stored(w.id, w.rev))
         /\ Granted("manage", [w EXCEPT !.rev = @ + 1]) /\ UNCHANGED <<schema, runs>>
      \/ /\ now /\ w.step = "delete"
         /\ drafts' = [drafts EXCEPT ![w.id].alive = FALSE]
         /\ Granted("manage", w) /\ UNCHANGED <<schema, runs>>
      \/ ~now /\ Refused("manage")

Serve ==
  /\ \E f \in Flows :
       /\ Busy(f) /\ ~flows[f].served /\ flows[f].step # "review"
       /\ CASE flows[f].step = "save" -> ServeSave(f)
            [] f = "run" -> ServeRun
            [] f = "manage" -> ServeManage
            [] OTHER -> ServeRead(f)
  /\ UNCHANGED <<m, page, active, front, dialog, recovery, listing>>

\* The answer to flow f: the one the server gave, or none.
Outcomes(f) == IF ~Busy(f) \/ ~flows[f].served THEN {} ELSE {flows[f].ok} \cup (IF Lossy THEN {FALSE} ELSE {})

\* Another tab saves a draft; somebody alters the schema.
OtherTab ==
  /\ \E id \in DOMAIN drafts, d \in Docs \ {Empty} :
       /\ drafts[id].alive /\ Len(drafts[id].revisions) < MaxRevision
       /\ d # Stored(id, Len(drafts[id].revisions)).doc
       /\ Revise(id, [doc |-> d, schema |-> schema])
  /\ UNCHANGED <<m, schema, runs, page, active, front, flows, dialog, recovery, listing>>
Migrate ==
  /\ schema < MaxSchema /\ schema' = schema + 1
  /\ UNCHANGED <<m, drafts, runs, page, active, front, flows, dialog, recovery, listing>>

----------------------------------------------------------------------------
(* Editing, and the operations that wait on the server one at a time.      *)

\* No dialog covers the page.
NoModal == page = "workbench" /\ ~dialog.open /\ ~Busy("ask") /\ ~(Busy("open") /\ flows["open"].shown)

Edit ==
  /\ NoModal /\ m.epoch < MaxEpoch
  /\ \E d \in Docs \ {Empty, m.doc} : m' = [touch(m) EXCEPT !.doc = d]
  /\ UNCHANGED <<drafts, schema, runs, page, active, front, flows, dialog, recovery, listing>>

StartOperation(kind) ==
  /\ NoModal /\ Room /\ ~Busy("op") /\ (kind = "schema" => m.epoch < MaxEpoch)
  /\ CASE kind = "save" -> ~Saving /\ Begin("op", Flow("save", kind))
       [] kind = "summary" /\ Dirty(m) -> m.doc # Empty /\ ~Saving /\ Begin("op", Flow("save", kind))
       [] kind = "summary" /\ ~Dirty(m) -> m.doc # Empty /\ Begin("op", Flow("check", kind))
       [] kind = "document" -> Begin("op", Flow("parse", kind))
       [] OTHER -> Begin("op", Flow(kind, kind))
  /\ front' = IF kind = "summary" THEN "op" ELSE front
  /\ UNCHANGED <<m, drafts, schema, runs, page, active, dialog, recovery, listing>>

\* A save is taken note of unless the draft was renamed or deleted meanwhile.
Noted(f) == flows[f].ticket.id = m.id /\ flows[f].ticket.lifecycle = m.lifecycle
Saved(f) == IF Noted(f) THEN markSaved(m, flows[f]) ELSE m
SameRules(f) == flows[f].ticket.id = m.id /\ flows[f].ticket.epoch = m.epoch
Checked(f) == IF SameRules(f) THEN [m EXCEPT !.check = <<[doc |-> flows[f].doc, schema |-> flows[f].schema]>>] ELSE m

FinishOperation(ok) ==
  LET w == flows["op"]
  IN  /\ End("op") /\ UNCHANGED <<dialog, recovery>>
      /\ CASE ~ok -> m' = m
           [] ok /\ w.step = "save" -> m' = Saved("op")
           [] ok /\ w.step = "check" -> m' = Checked("op")
           [] ok /\ w.step = "preview" ->
                m' = IF SameRules("op") /\ Noted("op") THEN [m EXCEPT !.cache = <<[epoch |-> m.epoch, doc |-> w.doc]>>] ELSE m
           [] ok /\ w.step = "schema" -> m' = IF w.ticket.active = active THEN [touch(m) EXCEPT !.schema = w.schema] ELSE m

\* configDocument: the text of the dialog, once parsed, replaces the document it was opened for.
ApplyDocument ==
  /\ Current("op") /\ m.epoch < MaxEpoch
  /\ \E d \in Docs \ {Empty, m.doc} : m' = [touch(m) EXCEPT !.doc = d]
  /\ End("op") /\ recovery' = <<>> /\ UNCHANGED dialog

\* What executionChecks remembers of the document.
Context(state, doc) == <<[epoch |-> m.epoch, lifecycle |-> m.lifecycle, state |-> state, doc |-> doc]>>
PlanFlow == [Flow("plan", "plan") EXCEPT !.doc = m.check[1].doc]

\* summary: save what is unsaved, check it, and show the execution dialog if the user still waits for it.
AnswerOperation ==
  /\ \E ok \in Outcomes("op") :
       LET w == flows["op"]
       IN  CASE ok /\ w.kind = "summary" /\ w.step = "save" ->
                  /\ m' = Saved("op")
                  /\ flows' = [flows EXCEPT !["op"] = IF Noted("op") /\ ModalCurrent("op") THEN [Flow("check", "summary") EXCEPT !.schema = m.schema] ELSE Idle]
                  /\ UNCHANGED <<dialog, recovery>>
             [] ok /\ w.kind = "summary" /\ w.step = "check" /\ ModalCurrent("op") /\ page = "workbench" ->
                  LET replace == recovery # <<>>
                  IN  /\ ~(replace /\ Busy("plan"))
                      /\ m' = Checked("op")
                      /\ dialog' = [open |-> TRUE, ticket |-> Ticket, replace |-> replace, busy |-> FALSE, plan |-> <<>>]
                      /\ flows' = [flows EXCEPT !["op"] = Idle,
                                     !["plan"] = IF replace THEN [Flow("plan", "plan") EXCEPT !.doc = w.doc] ELSE @]
                      /\ recovery' = IF replace THEN Context("checking", w.doc) ELSE <<>>
             [] ok /\ w.kind = "scope" ->
                  \/ FinishOperation(FALSE)
                  \/ /\ Current("op") /\ recovery # <<>> /\ m.epoch < MaxEpoch
                     /\ \E d \in Docs \ {Empty, m.doc} :
                          LET added == [touch(m) EXCEPT !.doc = d]
                          IN  /\ m' = added
                              /\ flows' = [flows EXCEPT !["op"] = IF Saving THEN Idle ELSE FlowOf(added, "save", "summary")]
                              /\ recovery' = <<[epoch |-> added.epoch, lifecycle |-> m.lifecycle, state |-> "pending", doc |-> d]>>
                              /\ UNCHANGED dialog
             [] ok /\ w.kind = "document" -> ApplyDocument \/ FinishOperation(FALSE)
             [] OTHER -> FinishOperation(ok)
  /\ front' = IF flows'["op"].step = "save" THEN "op" ELSE front
  /\ UNCHANGED <<drafts, schema, runs, page, active, listing>>

----------------------------------------------------------------------------
(* The execution dialog.                                                   *)

isCurrent == dialog.open /\ dialog.ticket = Ticket
Planning == Busy("plan") /\ flows["plan"].shown

\* Append asks for nothing; a plan that is still awaited is of no use any more.
SelectAppend ==
  /\ dialog.open /\ ~dialog.busy
  /\ dialog' = [dialog EXCEPT !.replace = FALSE, !.plan = <<>>]
  /\ recovery' = IF isCurrent THEN <<>> ELSE recovery
  /\ flows' = IF Busy("plan") THEN [flows EXCEPT !["plan"].fresh = FALSE] ELSE flows
  /\ UNCHANGED <<m, drafts, schema, runs, page, active, front, listing>>

\* Replace asks the server what would be erased.
SelectReplace ==
  /\ isCurrent /\ ~dialog.busy /\ ~Busy("plan")
  /\ IF CanRun
     THEN Begin("plan", PlanFlow) /\ recovery' = Context("checking", m.doc)
     ELSE recovery' = Context("blocked", m.doc) /\ UNCHANGED flows
  /\ dialog' = [dialog EXCEPT !.replace = TRUE, !.plan = <<>>]
  /\ UNCHANGED <<m, drafts, schema, runs, page, active, front, listing>>

Expected == isCurrent /\ flows["plan"].shown /\ flows["plan"].fresh
AnswerPlan ==
  /\ \E ok \in Outcomes("plan") :
       /\ dialog' = IF ok /\ Expected THEN [dialog EXCEPT !.plan = <<flows["plan"].doc>>] ELSE dialog
       /\ recovery' = IF Expected THEN Context(IF ok THEN "ok" ELSE "blocked", flows["plan"].doc) ELSE recovery
  /\ End("plan")
  /\ UNCHANGED <<m, drafts, schema, runs, page, active, front, listing>>

\* What the user sees and confirms: the document, and for a replacement the plan.
Submit ==
  /\ isCurrent /\ ~dialog.busy /\ ~Planning /\ ~Busy("run") /\ CanRun
  /\ Cardinality(runs) < MaxRuns /\ active < MaxMounts
  /\ dialog.replace => dialog.plan # <<>>
  /\ dialog' = [dialog EXCEPT !.busy = TRUE]
  /\ Begin("run", [Flow("run", "run") EXCEPT !.doc = m.check[1].doc,
                     !.got = <<[doc |-> m.doc, plan |-> IF dialog.replace THEN dialog.plan ELSE <<>>]>>])
  /\ UNCHANGED <<m, drafts, schema, runs, page, active, front, recovery, listing>>

\* Whatever waits for this dialog has lost it.
Orphaned(fs) == [f \in Flows |-> IF f \in {"plan", "run"} /\ fs[f].step # "idle" THEN [fs[f] EXCEPT !.shown = FALSE] ELSE fs[f]]
\* unmount: the dialog and what was learnt about clearing go.
Unmounted(fs) == [Orphaned(fs) EXCEPT !["open"] = IF Busy("open") THEN [@ EXCEPT !.shown = FALSE] ELSE Idle, !["ask"] = Idle]
\* unmount and mount both count; no ticket is taken while the page is away, so one of them is enough.
Count == IF page = "away" THEN active ELSE active + 1
Leaving == active' = Count /\ dialog' = Closed /\ recovery' = <<>>

AnswerRun ==
  /\ \E ok \in Outcomes("run") :
       IF isCurrent /\ flows["run"].shown
       THEN IF ok
            THEN page' = "away" /\ Leaving /\ flows' = Unmounted([flows EXCEPT !["run"] = Idle])
            ELSE /\ dialog' = [dialog EXCEPT !.busy = FALSE, !.plan = <<>>]
                 /\ recovery' = IF dialog.replace THEN Context("pending", m.doc) ELSE recovery
                 /\ End("run") /\ UNCHANGED <<page, active>>
       ELSE End("run") /\ UNCHANGED <<page, active, dialog, recovery>>
  /\ UNCHANGED <<m, drafts, schema, runs, front, listing>>

CloseDialog ==
  /\ dialog.open /\ dialog' = Closed
  /\ recovery' = IF ~dialog.replace \/ recovery = <<>> \/ recovery[1].state = "blocked" THEN recovery
                 ELSE [recovery EXCEPT ![1].state = IF @ \in {"ok", "reviewed"} THEN "reviewed" ELSE "pending"]
  /\ flows' = Orphaned(flows)
  /\ UNCHANGED <<m, drafts, schema, runs, page, active, front, listing>>

\* reviewClearScope: from a blocked plan, a larger scope is checked, then applied.
ReviewScope ==
  /\ dialog.open /\ recovery # <<>> /\ recovery[1].state = "blocked" /\ ~Busy("op")
  /\ dialog' = Closed
  /\ flows' = [Orphaned(flows) EXCEPT !["op"] = Flow("check", "scope")]
  /\ UNCHANGED <<m, drafts, schema, runs, page, active, front, recovery, listing>>

----------------------------------------------------------------------------
(* Opening documents.                                                      *)

MayOpen(f) == Current(f) /\ flows[f].shown
Opened(got) == Document(m.id + 1, got.doc, <<[id |-> got.id, rev |-> got.rev, doc |-> got.doc]>>, IF got.schema = m.schema THEN 0 ELSE -1)

\* openDrafts: a draft chosen in the list, once what is edited is saved.
OpenDraft ==
  /\ NoModal /\ Room /\ ~Busy("open") /\ m.id < MaxModels
  /\ \E id \in DOMAIN drafts :
       IF Dirty(m) /\ m.doc # Empty
       THEN ~Saving /\ Begin("open", [Flow("save", "open") EXCEPT !.got = <<id>>])
       ELSE Begin("open", [Flow("get", "open") EXCEPT !.id = id])
  /\ front' = "open"
  /\ UNCHANGED <<m, drafts, schema, runs, page, active, dialog, recovery, listing>>
AnswerOpen ==
  /\ \E ok \in Outcomes("open") :
       LET w == flows["open"]
       IN  CASE ok /\ w.step = "save" ->
                  /\ m' = Saved("open")
                  /\ flows' = [flows EXCEPT !["open"] = IF Noted("open") /\ MayOpen("open") THEN [Flow("get", "open") EXCEPT !.id = w.got[1]] ELSE Idle]
                  /\ UNCHANGED recovery
             [] ok /\ w.step = "get" /\ MayOpen("open") -> m' = Opened(w.got[1]) /\ End("open") /\ recovery' = <<>>
             [] OTHER -> End("open") /\ UNCHANGED <<m, recovery>>
  /\ UNCHANGED <<drafts, schema, runs, page, active, front, dialog, listing>>
CloseList ==
  /\ Busy("open") /\ flows["open"].shown
  /\ flows' = [flows EXCEPT !["open"].shown = FALSE]
  /\ UNCHANGED <<m, drafts, schema, runs, page, active, front, dialog, recovery, listing>>

\* A link, or coming back: the page is mounted, and may be asked for another document. (The save of
\* an earlier link is over by then: a bound. So is a rename or deletion unless LateRename.)
Navigate ==
  /\ Count <= MaxMounts /\ (Room \/ Busy("route")) /\ (Busy("route") => flows["route"].step # "save") /\ (LateRename \/ ~Busy("manage"))
  /\ \E kind \in {"plain", "new", "draft", "run"} :
       /\ kind \in {"new", "draft"} => m.id < MaxModels
       /\ kind = "run" => m.epoch < MaxEpoch
       /\ \E id \in IF kind = "draft" THEN DOMAIN drafts ELSE {0}, d \in IF kind = "run" THEN {r.doc : r \in runs} ELSE {m.doc} :
            flows' = [Unmounted(flows) EXCEPT !["route"] =
                        [Flow("schema", kind) EXCEPT !.id = id, !.doc = d, !.ticket = [Ticket EXCEPT !.active = Count]]]
  /\ page' = "loading" /\ Leaving
  /\ UNCHANGED <<m, drafts, schema, runs, front, listing>>
Leave ==
  /\ page # "away" /\ active < MaxMounts
  /\ page' = "away" /\ Leaving /\ flows' = Unmounted(flows)
  /\ UNCHANGED <<m, drafts, schema, runs, front, listing>>

\* mount goes on: the schema is adopted, the document asked for is fetched, the one at hand saved.
Mounted == flows["route"].ticket.active = active
Unsaved(x) == Dirty(x) /\ (x.saved # <<>> \/ x.epoch > 0)
Replacement(w, x) ==
  CASE w.kind = "new" -> Document(x.id + 1, Empty, <<>>, -1)
    [] w.kind = "draft" -> Document(x.id + 1, w.got[1].doc, <<[id |-> w.got[1].id, rev |-> w.got[1].rev, doc |-> w.got[1].doc]>>,
                                    IF w.got[1].schema = x.schema THEN 0 ELSE -1)
    [] w.kind = "run" -> [touch(x) EXCEPT !.doc = w.got[1], !.saved = <<>>]
    [] OTHER -> x
Drawn(x) == m' = x /\ page' = "workbench" /\ End("route")
Failed(x) == m' = x /\ page' = "away" /\ End("route")
\* A mistake: a link drops what is not saved.
ReplaceAtOnce(w, x) == Drawn(Replacement(w, x))
SaveFirst(w, x) ==
  CASE w.kind = "plain" \/ ~Unsaved(x) -> Drawn(Replacement(w, x))
    [] w.kind # "plain" /\ Unsaved(x) /\ Saving -> Failed(x)
    [] OTHER -> Begin("route", [FlowOf(x, "save", w.kind) EXCEPT !.got = w.got]) /\ m' = x /\ UNCHANGED page

AnswerRoute ==
  /\ \E ok \in Outcomes("route") :
       LET w == flows["route"]
           adopted == IF w.schema = m.schema THEN m ELSE [touch(m) EXCEPT !.schema = w.schema]
       IN  CASE w.step = "save" /\ ok ->
                  IF Noted("route") /\ Mounted /\ Current("route")
                  THEN Drawn(Replacement(w, Saved("route")))
                  ELSE m' = Saved("route") /\ End("route") /\ UNCHANGED page
             [] w.step # "save" /\ ~Mounted -> End("route") /\ UNCHANGED <<m, page>>
             [] ~ok /\ Mounted -> Failed(m)
             [] ok /\ Mounted /\ w.step = "schema" ->
                  IF w.kind \in {"plain", "new"} THEN SaveFirst(w, adopted)
                  ELSE /\ Begin("route", [FlowOf(adopted, "get", w.kind) EXCEPT !.id = w.id, !.got = IF w.kind = "run" THEN <<w.doc>> ELSE <<>>])
                       /\ m' = adopted /\ UNCHANGED page
             [] ok /\ Mounted /\ w.step = "get" ->
                  IF Current("route") THEN SaveFirst(w, m) ELSE End("route") /\ UNCHANGED <<m, page>>
             [] OTHER -> End("route") /\ UNCHANGED <<m, page>>
  /\ UNCHANGED <<drafts, schema, runs, active, front, dialog, recovery, listing>>

----------------------------------------------------------------------------
(* Suggestions, and the page of saved configurations.                      *)

\* openAI: which fields may be asked about is answered first, then the suggestions are reviewed;
\* configSettings: the providers are listed first; openRule opens at once.
Ask(step, kind) ==
  /\ NoModal /\ Room /\ Begin("ask", Flow(step, kind)) /\ front' = "ask"
  /\ UNCHANGED <<m, drafts, schema, runs, page, active, dialog, recovery, listing>>
OpenAI == Ask("suggest", "ai")
OpenSettings == Ask("providers", "settings")
OpenRule == Ask("review", "rule")
AnswerAsk ==
  /\ \E ok \in Outcomes("ask") :
       flows' = [flows EXCEPT !["ask"] = IF ok /\ ModalCurrent("ask") THEN [@ EXCEPT !.step = "review", !.served = FALSE] ELSE Idle]
  /\ UNCHANGED <<m, drafts, schema, runs, page, active, front, dialog, recovery, listing>>
\* A rule is applied to the epoch it was opened at, what was asked for only if nothing else changed.
Apply ==
  /\ flows["ask"].step = "review" /\ m.epoch < MaxEpoch
  /\ IF flows["ask"].kind = "rule" THEN SameRules("ask") ELSE ModalCurrent("ask")
  /\ \E d \in Docs \ {Empty, m.doc} : m' = [touch(m) EXCEPT !.doc = d]
  /\ End("ask")
  /\ UNCHANGED <<drafts, schema, runs, page, active, front, dialog, recovery, listing>>
CloseAsk ==
  /\ Busy("ask") /\ End("ask")
  /\ UNCHANGED <<m, drafts, schema, runs, page, active, front, dialog, recovery, listing>>

\* The list of drafts is read again after every change, and whenever the page is asked to.
Listed == [i \in 1 .. MaxDrafts |-> IF i \in DOMAIN drafts /\ drafts[i].alive THEN Len(drafts[i].revisions) ELSE 0]
List ==
  /\ page = "away" /\ listing # Listed /\ listing' = Listed
  /\ UNCHANGED <<m, drafts, schema, runs, page, active, front, flows, dialog, recovery>>
\* The revision listed is the one the page has, and the one of a save whose answer is on its way.
InStep(id) ==
  /\ m.saved # <<>> /\ m.saved[1].id = id => m.saved[1].rev = listing[id]
  /\ \A f \in Flows : flows[f].step = "save" /\ flows[f].ok /\ flows[f].id = id => flows[f].rev = listing[id]
Manage(step) ==
  /\ page = "away" /\ ~Busy("manage") /\ Room
  /\ \E id \in {i \in 1 .. MaxDrafts : listing[i] > 0 /\ (step = "rename" => LateRename \/ InStep(i))} :
       Begin("manage", [Flow(step, "manage") EXCEPT !.id = id, !.rev = listing[id]])
  /\ UNCHANGED <<m, drafts, schema, runs, page, active, front, dialog, recovery, listing>>

\* sqlseed:draft-renamed and sqlseed:draft-deleted reach the document even while its page is away.
Heard(w) ==
  IF m.saved = <<>> \/ m.saved[1].id # w.id THEN m
  ELSE CASE w.step = "rename" -> [m EXCEPT !.lifecycle = @ + 1, !.saved[1].rev = w.rev]
         [] w.step = "delete" -> [m EXCEPT !.lifecycle = @ + 1, !.saved = <<>>, !.savedEpoch = -1]
         [] OTHER -> m
AnswerManage ==
  /\ \E ok \in Outcomes("manage") : m' = IF ok THEN Heard(flows["manage"]) ELSE m
  /\ End("manage") /\ listing' = IF page = "away" THEN Listed ELSE listing
  /\ UNCHANGED <<drafts, schema, runs, page, active, front, dialog, recovery>>

Next ==
  \/ Serve \/ OtherTab \/ Migrate
  \/ Edit \/ AnswerOperation
  \/ \E kind \in {"save", "check", "preview", "schema", "document", "summary"} : StartOperation(kind)
  \/ SelectAppend \/ SelectReplace \/ AnswerPlan \/ Submit \/ AnswerRun \/ CloseDialog \/ ReviewScope
  \/ OpenDraft \/ AnswerOpen \/ CloseList \/ Navigate \/ Leave \/ AnswerRoute
  \/ OpenAI \/ OpenSettings \/ OpenRule \/ AnswerAsk \/ Apply \/ CloseAsk
  \/ List \/ AnswerManage \/ \E step \in {"rename", "delete"} : Manage(step)
Spec == Init /\ [][Next]_vars

----------------------------------------------------------------------------
(* Properties.                                                             *)

PageTypeOK ==
  /\ m.doc \in Docs /\ m.epoch \in Nat /\ m.savedEpoch \in -1 .. m.epoch
  /\ page \in {"loading", "workbench", "away"} /\ active \in Nat
  /\ dialog.open => page = "workbench"

\* The revision the page would save over is one whose content it has shown: a save sends it as the one
\* expected, by which the server tells whether another tab's content would be overwritten.
RevisionIsKnown == m.saved # <<>> => Stored(m.saved[1].id, m.saved[1].rev).doc = m.saved[1].doc
CleanMeansSaved == m.saved # <<>> /\ ~Dirty(m) => m.saved[1].doc = m.doc
ResultsAreCurrent ==
  /\ m.check # <<>> => m.check[1] = [doc |-> m.doc, schema |-> m.schema]
  /\ m.cache # <<>> /\ m.cache[1].epoch = m.epoch => m.cache[1].doc = m.doc
ClearingIsCurrent ==
  /\ recovery # <<>> /\ recovery[1].epoch = m.epoch /\ recovery[1].lifecycle = m.lifecycle => recovery[1].doc = m.doc
  /\ isCurrent /\ dialog.replace /\ dialog.plan # <<>> => dialog.plan[1] = m.doc
RunsAreAsSeen == \A r \in runs : r.doc = r.seen[1].doc /\ (r.seen[1].plan # <<>> => r.seen[1].plan[1] = r.doc)

\* What the page says of its document is true, whatever was edited, renamed, deleted, opened or
\* answered while its requests were under way: "saved" means the draft holds this very content, a
\* check and a sample are of this content and schema, a clearing plan is of what would be generated,
\* and every run is of the content and the plan its user confirmed.
PageIsTruthful ==
  PageTypeOK /\ CleanMeansSaved /\ RevisionIsKnown /\ ResultsAreCurrent /\ ClearingIsCurrent /\ RunsAreAsSeen

\* A document that makes way for another one has been stored, or nothing was ever entered in it.
InSomeDraft(doc) == \E i \in DOMAIN drafts : \E k \in DOMAIN drafts[i].revisions : drafts[i].revisions[k].doc = doc
Opening == (flows["open"] # Idle /\ flows'["open"] = Idle) \/ (flows["route"] # Idle /\ flows'["route"] = Idle)
KeptOrEmpty == Opening /\ m'.doc # m.doc => m.doc = Empty \/ InSomeDraft(m.doc)
NoEditIsDiscarded == [][KeptOrEmpty]_vars
=============================================================================
