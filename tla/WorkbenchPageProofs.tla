------------------------ MODULE WorkbenchPageProofs ------------------------
(***************************************************************************)
(* PageInv is an invariant of WorkbenchPage for any documents, drafts,     *)
(* tabs, lost answers and handlers that wait.  It says what each handler   *)
(* remembers: a ticket is not ahead of the document, and who has the       *)
(* document's epoch remembers its content; what a save or a read was told  *)
(* is in a draft.  RenameInv adds what a rename is about to tell the page. *)
(***************************************************************************)
EXTENDS WorkbenchPage, SequenceTheorems, TLAPS

(***************************************************************************)
(* Shapes.                                                                 *)
(***************************************************************************)
Tickets == [active : Nat, id : Nat, epoch : Nat, lifecycle : Nat]
Contents == [doc : Docs, schema : Nat]
Drafts == [alive : BOOLEAN, revisions : Seq(Contents)]
Optional(S) == {<<>>} \cup {<<x>> : x \in S}
Names == [id : Nat, rev : Nat, doc : Docs]
Answers == [id : Nat, rev : Nat, doc : Docs, schema : Nat]
Confirmed == [doc : Docs, plan : Optional(Docs)]

Documents ==
  [id : Nat, doc : Docs, epoch : Nat, savedEpoch : Int, lifecycle : Nat, saved : Optional(Names),
   check : Optional(Contents), cache : Optional([epoch : Nat, doc : Docs]), schema : Nat]

Steps == {"save", "check", "preview", "schema", "parse", "get", "plan", "run", "suggest", "providers", "review",
          "rename", "delete"}
Kinds == {"save", "check", "preview", "schema", "document", "summary", "scope", "plan", "run", "open", "plain", "new",
          "draft", "ai", "settings", "rule", "manage"}
Handlers ==
  [step : Steps, kind : Kinds, ticket : Tickets, served : BOOLEAN, ok : BOOLEAN, shown : BOOLEAN, fresh : BOOLEAN,
   doc : Docs, schema : Nat, got : Optional(Nat \cup Docs \cup Answers \cup Confirmed), id : Nat, rev : Nat]

StepsOf(f) ==
  CASE f = "op" -> {"save", "check", "preview", "schema", "parse"}
    [] f = "open" -> {"save", "get"}
    [] f = "route" -> {"schema", "get", "save"}
    [] f = "plan" -> {"plan"}
    [] f = "run" -> {"run"}
    [] f = "ask" -> {"suggest", "providers", "review"}
    [] f = "manage" -> {"rename", "delete"}

Dialogs == [open : {TRUE}, ticket : Tickets, replace : BOOLEAN, busy : BOOLEAN, plan : Optional(Docs)]
Recoveries == [epoch : Nat, lifecycle : Nat, state : {"checking", "blocked", "ok", "reviewed", "pending"}, doc : Docs]

Shapes ==
  /\ m \in Documents /\ schema \in Nat /\ drafts \in Seq(Drafts)
  /\ \A i \in DOMAIN drafts : drafts[i].revisions # <<>>
  /\ page \in {"loading", "workbench", "away"} /\ active \in Nat
  /\ flows \in [Flows -> Handlers \cup {Idle}]
  /\ dialog \in Dialogs \cup {Closed} /\ recovery \in Optional(Recoveries)
  /\ listing \in [1 .. MaxDrafts -> Nat]
  /\ \A i \in 1 .. MaxDrafts : listing[i] > 0 => i \in DOMAIN drafts /\ listing[i] <= Len(drafts[i].revisions)

(***************************************************************************)
(* The invariant, of a document x and the drafts ds.                       *)
(***************************************************************************)
Has(ds, id, rev) == id \in DOMAIN ds /\ rev \in DOMAIN ds[id].revisions
Holds(ds, s) == Has(ds, s.id, s.rev) /\ ds[s.id].revisions[s.rev].doc = s.doc
Somewhere(ds, doc) == \E i \in DOMAIN ds : \E k \in DOMAIN ds[i].revisions : ds[i].revisions[k].doc = doc

\* What is clean is saved, what is saved is in a draft, what was learnt is of the content it says.
DocumentOK(x, ds) ==
  /\ x.savedEpoch \in -1 .. x.epoch
  /\ x.saved = <<>> => Dirty(x)
  /\ x.saved # <<>> =>
       /\ Has(ds, x.saved[1].id, x.saved[1].rev) /\ Somewhere(ds, x.saved[1].doc)
       /\ ~Dirty(x) => x.saved[1].doc = x.doc
  /\ x.check # <<>> => x.check[1] = [doc |-> x.doc, schema |-> x.schema]
  /\ x.cache # <<>> => x.cache[1].epoch <= x.epoch /\ (x.cache[1].epoch = x.epoch => x.cache[1].doc = x.doc)
  /\ x.epoch = 0 => x.doc = Empty \/ Somewhere(ds, x.doc)

Behind(t, x) == t.id <= x.id /\ (t.id = x.id => t.epoch <= x.epoch)
AtEpoch(t, x) == t.id = x.id /\ t.epoch = x.epoch

\* What every handler f remembers, w, and what some remember besides.
Remembers(f, w, x, ds) ==
  /\ w.step \in StepsOf(f)
  /\ w.ok /\ w.step # "review" => w.served
  /\ Behind(w.ticket, x)
  /\ AtEpoch(w.ticket, x) /\ w.step # "schema" => w.doc = x.doc /\ w.schema = x.schema
  /\ w.step = "save" /\ w.ok => Holds(ds, w)
  /\ w.step = "save" /\ ~w.ok => w.id = 0 \/ (w.id \in DOMAIN ds /\ w.rev <= Len(ds[w.id].revisions))

Carries(f, w, x, ds) ==
  /\ f = "op" /\ w.step = "parse" => w.kind = "document"
  /\ f = "open" =>
       /\ w.step = "save" => w.got \in {<<i>> : i \in DOMAIN ds}
       /\ w.step = "get" => w.kind = "open" /\ w.id \in DOMAIN ds
       /\ w.step = "get" /\ w.ok => w.got \in {<<r>> : r \in Answers} /\ Holds(ds, w.got[1])
       /\ w.step = "get" /\ AtEpoch(w.ticket, x) => x.doc = Empty \/ Somewhere(ds, x.doc)
  /\ f = "route" =>
       /\ w.kind \in {"plain", "new", "draft", "run"}
       /\ w.step = "get" => w.kind \in {"draft", "run"}
       /\ w.kind = "draft" /\ w.step # "save" => w.id \in DOMAIN ds
       /\ w.kind = "draft" /\ (w.step = "save" \/ (w.step = "get" /\ w.ok)) =>
            w.got \in {<<r>> : r \in Answers} /\ Holds(ds, w.got[1])
       /\ w.kind = "run" /\ w.step \in {"get", "save"} => w.got \in {<<d>> : d \in Docs}
  /\ f = "run" => \E p \in {<<>>, <<w.doc>>} : w.got = <<[doc |-> w.doc, plan |-> p]>>
  /\ f = "manage" => Has(ds, w.id, w.rev)

HandlerOK(f, w, x, ds) == Remembers(f, w, x, ds) /\ Carries(f, w, x, ds)
HandlersOK == \A f \in Flows : Busy(f) => HandlerOK(f, flows[f], m, drafts)

\* Where the page is, and what may still be answered there.
PlacesOK ==
  /\ Busy("route") => flows["route"].ticket.active <= active
  /\ Busy("route") /\ flows["route"].ticket.active = active => page = "loading"
  /\ Busy("op") => ~dialog.open
  /\ Busy("plan") /\ flows["plan"].shown => dialog.open /\ flows["plan"].ticket = dialog.ticket
  /\ dialog.open => page = "workbench"
  /\ recovery # <<>> => page = "workbench"

DialogOK ==
  /\ dialog.open => Behind(dialog.ticket, m)
  /\ dialog.open /\ dialog.plan # <<>> /\ AtEpoch(dialog.ticket, m) => dialog.plan[1] = m.doc
  /\ recovery # <<>> => recovery[1].epoch <= m.epoch
  /\ recovery # <<>> /\ recovery[1].epoch = m.epoch => recovery[1].doc = m.doc

RunsOK == RunsAreAsSeen /\ \A r \in runs : r.doc \in Docs

PageInv == Shapes /\ DocumentOK(m, drafts) /\ HandlersOK /\ PlacesOK /\ DialogOK /\ RunsOK

(***************************************************************************)
(* How documents and drafts go on.                                         *)
(***************************************************************************)
Forward(x, y) ==
  \/ y.id > x.id
  \/ y.id = x.id /\ y.epoch > x.epoch
  \/ y.id = x.id /\ y.epoch = x.epoch /\ y.doc = x.doc /\ y.schema = x.schema
Grown(ds, es) ==
  \A i \in DOMAIN ds :
    /\ i \in DOMAIN es
    /\ \A k \in DOMAIN ds[i].revisions : k \in DOMAIN es[i].revisions /\ es[i].revisions[k] = ds[i].revisions[k]

LEMMA GrownKeeps ==
  ASSUME NEW ds \in Seq(Drafts), NEW es \in Seq(Drafts), Grown(ds, es)
  PROVE  /\ \A id, rev : Has(ds, id, rev) => Has(es, id, rev)
         /\ \A s : Holds(ds, s) => Holds(es, s)
         /\ \A doc : Somewhere(ds, doc) => Somewhere(es, doc)
         /\ \A i \in DOMAIN ds : i \in DOMAIN es /\ Len(ds[i].revisions) <= Len(es[i].revisions)
<1>1. \A id, rev : Has(ds, id, rev) => Has(es, id, rev)
  BY DEF Grown, Has
<1>2. \A s : Holds(ds, s) => Holds(es, s)
  BY DEF Grown, Has, Holds
<1>3. \A doc : Somewhere(ds, doc) => Somewhere(es, doc)
  BY DEF Grown, Somewhere
<1>4. ASSUME NEW i \in DOMAIN ds
      PROVE  i \in DOMAIN es /\ Len(ds[i].revisions) <= Len(es[i].revisions)
  <2>1. i \in DOMAIN es /\ ds[i] \in Drafts /\ es[i] \in Drafts
    BY <1>4 DEF Grown
  <2>2. ds[i].revisions \in Seq(Contents) /\ es[i].revisions \in Seq(Contents)
    BY <2>1 DEF Drafts
  <2>3. DOMAIN ds[i].revisions \subseteq DOMAIN es[i].revisions
    BY <1>4 DEF Grown
  <2> QED BY <2>1, <2>2, <2>3
<1> QED BY <1>1, <1>2, <1>3, <1>4

LEMMA HoldsSomewhere ==
  ASSUME NEW ds, NEW s, Holds(ds, s)
  PROVE  Somewhere(ds, s.doc)
BY DEF Holds, Has, Somewhere

\* A handler that is left alone, or loses its dialog, remembers as before.
Same(w, v) ==
  /\ v.step = w.step /\ v.kind = w.kind /\ v.ticket = w.ticket /\ v.served = w.served /\ v.ok = w.ok /\ v.doc = w.doc
  /\ v.schema = w.schema /\ v.got = w.got /\ v.id = w.id /\ v.rev = w.rev

LEMMA HandlerStays ==
  ASSUME NEW ds \in Seq(Drafts), NEW es \in Seq(Drafts), Grown(ds, es), NEW x \in Documents, NEW y \in Documents,
         Forward(x, y), NEW f, NEW w \in Handlers, NEW v \in Handlers, HandlerOK(f, w, x, ds), Same(w, v)
  PROVE  HandlerOK(f, v, y, es)
<1>1. Behind(w.ticket, x) /\ w.ticket \in Tickets
  BY DEF HandlerOK, Remembers, Handlers
<1>2. Behind(v.ticket, y)
  BY <1>1 DEF Forward, Behind, Tickets, Documents, Same
<1>3. AtEpoch(v.ticket, y) => AtEpoch(w.ticket, x) /\ y.doc = x.doc /\ y.schema = x.schema
  BY <1>1 DEF Forward, Behind, AtEpoch, Tickets, Documents, Same
<1>4. AtEpoch(v.ticket, y) /\ v.step # "schema" => v.doc = y.doc /\ v.schema = y.schema
  BY <1>3 DEF HandlerOK, Remembers, Same
<1>5. v.step = "save" /\ v.ok => Holds(es, v)
  <2>1. Holds(ds, w) => Holds(es, w)
    BY GrownKeeps
  <2> QED BY <2>1 DEF HandlerOK, Remembers, Holds, Same
<1>6. v.step = "save" /\ ~v.ok => v.id = 0 \/ (v.id \in DOMAIN es /\ v.rev <= Len(es[v.id].revisions))
  <2> SUFFICES ASSUME v.step = "save", ~v.ok, v.id # 0 PROVE v.id \in DOMAIN es /\ v.rev <= Len(es[v.id].revisions)
    OBVIOUS
  <2>1. w.id \in DOMAIN ds /\ w.rev <= Len(ds[w.id].revisions) /\ w.id \in DOMAIN es
        /\ Len(ds[w.id].revisions) <= Len(es[w.id].revisions)
    BY GrownKeeps DEF HandlerOK, Remembers, Same
  <2>2. ds[w.id] \in Drafts /\ es[w.id] \in Drafts
    BY <2>1
  <2>3. ds[w.id].revisions \in Seq(Contents) /\ es[w.id].revisions \in Seq(Contents)
    BY <2>2 DEF Drafts
  <2>4. w.rev \in Nat
    BY DEF Handlers
  <2> QED BY <2>1, <2>3, <2>4 DEF Same
<1>7. Remembers(f, v, y, es)
  <2>1. v.step \in StepsOf(f) /\ (v.ok /\ v.step # "review" => v.served)
    BY DEF HandlerOK, Remembers, Same
  <2> QED BY <2>1, <1>2, <1>4, <1>5, <1>6 DEF Remembers
<1>8. f = "open" =>
       /\ v.step = "save" => v.got \in {<<i>> : i \in DOMAIN es}
       /\ v.step = "get" => v.kind = "open" /\ v.id \in DOMAIN es
       /\ v.step = "get" /\ v.ok => v.got \in {<<r>> : r \in Answers} /\ Holds(es, v.got[1])
       /\ v.step = "get" /\ AtEpoch(v.ticket, y) => y.doc = Empty \/ Somewhere(es, y.doc)
  <2>1. DOMAIN ds \subseteq DOMAIN es /\ (Holds(ds, w.got[1]) => Holds(es, w.got[1]))
        /\ (Somewhere(ds, x.doc) => Somewhere(es, x.doc))
    BY GrownKeeps
  <2> QED BY <2>1, <1>3 DEF HandlerOK, Carries, Same
<1>9. f = "route" =>
       /\ v.kind \in {"plain", "new", "draft", "run"}
       /\ v.step = "get" => v.kind \in {"draft", "run"}
       /\ v.kind = "draft" /\ v.step # "save" => v.id \in DOMAIN es
       /\ v.kind = "draft" /\ (v.step = "save" \/ (v.step = "get" /\ v.ok)) =>
            v.got \in {<<r>> : r \in Answers} /\ Holds(es, v.got[1])
       /\ v.kind = "run" /\ v.step \in {"get", "save"} => v.got \in {<<d>> : d \in Docs}
  <2>1. DOMAIN ds \subseteq DOMAIN es /\ (Holds(ds, w.got[1]) => Holds(es, w.got[1]))
    BY GrownKeeps
  <2> QED BY <2>1 DEF HandlerOK, Carries, Same
<1>10. f = "manage" => Has(es, v.id, v.rev)
  BY GrownKeeps DEF HandlerOK, Carries, Same
<1>11. f = "run" => \E p \in {<<>>, <<v.doc>>} : v.got = <<[doc |-> v.doc, plan |-> p]>>
  BY DEF HandlerOK, Carries, Same
<1>12. f = "op" /\ v.step = "parse" => v.kind = "document"
  BY DEF HandlerOK, Carries, Same
<1> QED BY <1>7, <1>8, <1>9, <1>10, <1>11, <1>12 DEF HandlerOK, Carries

\* A handler at its await.
Begun(w, f, x, ds, step, kind) ==
  /\ w \in Handlers /\ Remembers(f, w, x, ds)
  /\ w.step = step /\ w.kind = kind /\ w.ticket = TicketOf(x) /\ w.ticket \in Tickets
  /\ w.ticket.active = active /\ AtEpoch(w.ticket, x) /\ Behind(w.ticket, x)
  /\ w.served = FALSE /\ w.ok = FALSE /\ w.shown = TRUE /\ w.doc = x.doc /\ w.schema = x.schema /\ w.got = <<>>

LEMMA HandlerBegins ==
  ASSUME active \in Nat, NEW ds \in Seq(Drafts), NEW x \in Documents, DocumentOK(x, ds),
         NEW f, NEW step \in Steps, step \in StepsOf(f), NEW kind \in Kinds
  PROVE  Begun(FlowOf(x, step, kind), f, x, ds, step, kind)
<1> DEFINE w == FlowOf(x, step, kind)
<1>1. /\ w.step = step /\ w.kind = kind /\ w.ticket = TicketOf(x)
      /\ w.served = FALSE /\ w.ok = FALSE /\ w.shown = TRUE /\ w.fresh = TRUE /\ w.doc = x.doc /\ w.schema = x.schema
      /\ w.got = <<>> /\ w.id = (IF x.saved = <<>> THEN 0 ELSE x.saved[1].id)
      /\ w.rev = (IF x.saved = <<>> THEN 0 ELSE x.saved[1].rev)
  BY DEF FlowOf
<1>2. w.ticket \in Tickets /\ w.ticket.active = active /\ w.ticket.id = x.id /\ w.ticket.epoch = x.epoch
  BY <1>1 DEF TicketOf, Tickets, Documents
<1>3. x.saved # <<>> => x.saved[1] \in Names
  BY DEF Documents, Optional
<1>4. w.id \in Nat /\ w.rev \in Nat /\ <<>> \in Optional(Nat \cup Docs \cup Answers \cup Confirmed)
  BY <1>1, <1>3 DEF Names, Optional
<1>5. w \in Handlers
  BY <1>2, <1>4 DEF FlowOf, Handlers, Documents
<1>6. AtEpoch(w.ticket, x) /\ Behind(w.ticket, x)
  BY <1>2 DEF AtEpoch, Behind, Documents
<1>7. w.id = 0 \/ (w.id \in DOMAIN ds /\ w.rev <= Len(ds[w.id].revisions))
  <2>1. CASE x.saved # <<>>
    <3>1. x.saved[1].id \in DOMAIN ds /\ x.saved[1].rev \in DOMAIN ds[x.saved[1].id].revisions
      BY <2>1 DEF DocumentOK, Has
    <3>2. ds[x.saved[1].id] \in Drafts
      BY <3>1
    <3>3. ds[x.saved[1].id].revisions \in Seq(Contents)
      BY <3>2 DEF Drafts
    <3> QED BY <1>1, <2>1, <3>1, <3>3
  <2> QED BY <1>1, <2>1
<1>8. Remembers(f, w, x, ds)
  BY <1>1, <1>6, <1>7 DEF Remembers
<1> HIDE DEF w
<1>9. Begun(w, f, x, ds, step, kind)
  BY <1>1, <1>2, <1>5, <1>6, <1>8 DEF Begun
<1> QED BY <1>9 DEF w

(***************************************************************************)
(* What a document becomes.                                                *)
(***************************************************************************)
LEMMA DocumentStays ==
  ASSUME NEW ds \in Seq(Drafts), NEW es \in Seq(Drafts), Grown(ds, es), NEW x, DocumentOK(x, ds)
  PROVE  DocumentOK(x, es)
BY GrownKeeps DEF DocumentOK

\* Edited, with another schema, or made of a run.
LEMMA DocumentTouched ==
  ASSUME NEW ds, NEW x \in Documents, DocumentOK(x, ds), NEW y \in Documents,
         y.id = x.id, y.epoch = x.epoch + 1, y.savedEpoch = x.savedEpoch, y.saved \in {x.saved, <<>>},
         y.check = <<>>, y.cache = x.cache
  PROVE  DocumentOK(y, ds) /\ Forward(x, y)
<1>1. x.epoch \in Nat /\ x.savedEpoch \in Int /\ x.savedEpoch <= x.epoch
  BY DEF DocumentOK, Documents
<1>2. y.savedEpoch \in -1 .. y.epoch /\ Dirty(y) /\ y.epoch # 0
  BY <1>1 DEF DocumentOK, Dirty
<1>3. y.cache # <<>> => y.cache[1].epoch <= y.epoch /\ y.cache[1].epoch # y.epoch
  <2>1. x.cache # <<>> => x.cache[1].epoch \in Nat
    BY DEF Documents, Optional
  <2> QED BY <1>1, <2>1 DEF DocumentOK
<1>4. y.saved # <<>> => Has(ds, y.saved[1].id, y.saved[1].rev) /\ Somewhere(ds, y.saved[1].doc)
  BY DEF DocumentOK
<1>5. Forward(x, y)
  BY <1>1 DEF Forward
<1> QED BY <1>2, <1>3, <1>4, <1>5 DEF DocumentOK

\* Saved as the answer w says, checked, sampled.
LEMMA DocumentSaved ==
  ASSUME NEW ds, NEW x \in Documents, DocumentOK(x, ds), NEW f, NEW w \in Handlers, HandlerOK(f, w, x, ds),
         w.step = "save", w.ok, w.ticket.id = x.id, w.id > 0, w.rev > 0
  PROVE  LET y == markSaved(x, w)
         IN  /\ y \in Documents /\ DocumentOK(y, ds) /\ Forward(x, y)
             /\ y.id = x.id /\ y.epoch = x.epoch /\ y.doc = x.doc /\ y.schema = x.schema /\ y.lifecycle = x.lifecycle
             /\ y.saved = <<[id |-> w.id, rev |-> w.rev, doc |-> w.doc]>>
<1> DEFINE y == markSaved(x, w)
<1>1. /\ y.id = x.id /\ y.epoch = x.epoch /\ y.doc = x.doc /\ y.schema = x.schema /\ y.lifecycle = x.lifecycle
      /\ y.saved = <<[id |-> w.id, rev |-> w.rev, doc |-> w.doc]>> /\ y.savedEpoch = w.ticket.epoch
      /\ y.check = x.check /\ y.cache = x.cache
  BY DEF markSaved, EpochSent, Documents
<1>2. w.ticket.epoch \in Nat /\ w.ticket.epoch <= x.epoch /\ w.id \in Nat /\ w.rev \in Nat /\ w.doc \in Docs
  BY DEF HandlerOK, Remembers, Behind, Handlers, Tickets
<1>3. y \in Documents
  <2>1. [id |-> w.id, rev |-> w.rev, doc |-> w.doc] \in Names
    BY <1>2 DEF Names
  <2>2. <<[id |-> w.id, rev |-> w.rev, doc |-> w.doc]>> \in Optional(Names)
    BY <2>1 DEF Optional
  <2>3. \A s \in Optional(Names), e \in Int : [x EXCEPT !.saved = s, !.savedEpoch = e] \in Documents
    BY DEF Documents
  <2>4. y = [x EXCEPT !.saved = <<[id |-> w.id, rev |-> w.rev, doc |-> w.doc]>>, !.savedEpoch = w.ticket.epoch]
    BY DEF markSaved, EpochSent
  <2>5. w.ticket.epoch \in Int
    BY <1>2
  <2> QED BY <2>2, <2>3, <2>4, <2>5
<1>4. Holds(ds, w)
  BY DEF HandlerOK, Remembers
<1>5. x.epoch \in Nat
  BY DEF Documents
<1>6. y.savedEpoch \in -1 .. y.epoch
  BY <1>1, <1>2, <1>5
<1>7. ~Dirty(y) => w.doc = x.doc
  BY <1>1 DEF Dirty, HandlerOK, Remembers, AtEpoch
<1>8. Has(ds, w.id, w.rev) /\ Somewhere(ds, w.doc)
  BY <1>4, HoldsSomewhere DEF Holds
<1>9. y.saved # <<>> /\ y.saved[1].id = w.id /\ y.saved[1].rev = w.rev /\ y.saved[1].doc = w.doc
  BY <1>1
<1>10. DocumentOK(y, ds)
  BY <1>1, <1>6, <1>7, <1>8, <1>9 DEF DocumentOK
<1>11. Forward(x, y)
  BY <1>1 DEF Forward
<1> QED BY <1>1, <1>3, <1>10, <1>11

\* A document that changes in what is known of it only.
LEMMA DocumentLearns ==
  ASSUME NEW ds, NEW x \in Documents, DocumentOK(x, ds), NEW y,
         \/ \E c \in Contents : c = [doc |-> x.doc, schema |-> x.schema] /\ y = [x EXCEPT !.check = <<c>>]
         \/ \E c \in [epoch : Nat, doc : Docs] : c = [epoch |-> x.epoch, doc |-> x.doc] /\ y = [x EXCEPT !.cache = <<c>>]
  PROVE  /\ y \in Documents /\ DocumentOK(y, ds) /\ Forward(x, y) /\ y.saved = x.saved
         /\ y.id = x.id /\ y.epoch = x.epoch /\ y.doc = x.doc /\ y.schema = x.schema /\ y.lifecycle = x.lifecycle
<1>1. CASE \E c \in Contents : c = [doc |-> x.doc, schema |-> x.schema] /\ y = [x EXCEPT !.check = <<c>>]
  <2> PICK c \in Contents : c = [doc |-> x.doc, schema |-> x.schema] /\ y = [x EXCEPT !.check = <<c>>]
    BY <1>1
  <2>1. /\ y.id = x.id /\ y.epoch = x.epoch /\ y.doc = x.doc /\ y.schema = x.schema /\ y.lifecycle = x.lifecycle
        /\ y.saved = x.saved /\ y.savedEpoch = x.savedEpoch /\ y.check = <<c>> /\ y.cache = x.cache
    BY DEF Documents
  <2>2. <<c>> \in Optional(Contents)
    BY DEF Optional
  <2>3. y \in Documents
    BY <2>2 DEF Documents
  <2> QED BY <2>1, <2>3 DEF DocumentOK, Dirty, Forward
<1>2. CASE \E c \in [epoch : Nat, doc : Docs] : c = [epoch |-> x.epoch, doc |-> x.doc] /\ y = [x EXCEPT !.cache = <<c>>]
  <2> PICK c \in [epoch : Nat, doc : Docs] : c = [epoch |-> x.epoch, doc |-> x.doc] /\ y = [x EXCEPT !.cache = <<c>>]
    BY <1>2
  <2>1. /\ y.id = x.id /\ y.epoch = x.epoch /\ y.doc = x.doc /\ y.schema = x.schema /\ y.lifecycle = x.lifecycle
        /\ y.saved = x.saved /\ y.savedEpoch = x.savedEpoch /\ y.check = x.check /\ y.cache = <<c>>
    BY DEF Documents
  <2>2. <<c>> \in Optional([epoch : Nat, doc : Docs])
    BY DEF Optional
  <2>3. y \in Documents
    BY <2>2 DEF Documents
  <2>4. c.epoch = x.epoch /\ c.doc = x.doc /\ x.epoch \in Nat
    BY DEF Documents
  <2> QED BY <2>1, <2>3, <2>4 DEF DocumentOK, Dirty, Forward
<1> QED BY <1>1, <1>2

\* Another document.
LEMMA DocumentReplaced ==
  ASSUME NEW ds, NEW x \in Documents, NEW y \in Documents, y.id = x.id + 1, y.epoch = 0, y.check = <<>>, y.cache = <<>>,
         \/ y.saved = <<>> /\ y.savedEpoch = -1 /\ y.doc = Empty
         \/ /\ y.saved # <<>> /\ Holds(ds, y.saved[1]) /\ y.saved[1].doc = y.doc /\ y.savedEpoch \in {-1, 0}
  PROVE  DocumentOK(y, ds) /\ Forward(x, y)
<1>1. Forward(x, y)
  BY DEF Forward, Documents
<1>2. y.saved # <<>> => Somewhere(ds, y.saved[1].doc) /\ Has(ds, y.saved[1].id, y.saved[1].rev)
  BY HoldsSomewhere DEF Holds
<1> QED BY <1>1, <1>2 DEF DocumentOK, Dirty

(***************************************************************************)
(* A step of the page, part by part.                                       *)
(***************************************************************************)
LEMMA BusyMeans ==
  ASSUME NEW h \in Handlers \cup {Idle}
  PROVE  h.step # "idle" <=> h \in Handlers
BY DEF Handlers, Idle, Steps

LEMMA HandlersKeep ==
  ASSUME Shapes, HandlersOK, m' \in Documents, Forward(m, m'), drafts' \in Seq(Drafts), Grown(drafts, drafts'),
         flows' \in [Flows -> Handlers \cup {Idle}], NEW C \in SUBSET Flows,
         \A f \in C : flows'[f] = Idle \/ HandlerOK(f, flows'[f], m', drafts'),
         \A f \in Flows \ C : flows'[f] = flows[f] \/ (flows[f] # Idle /\ flows'[f] # Idle /\ Same(flows[f], flows'[f]))
  PROVE  HandlersOK'
<1> SUFFICES ASSUME NEW f \in Flows, flows'[f].step # "idle"
             PROVE  HandlerOK(f, flows'[f], m', drafts')
  BY DEF HandlersOK, Busy
<1>1. flows'[f] \in Handlers
  BY BusyMeans
<1>2. CASE f \in C
  BY <1>2 DEF Idle
<1>3. CASE f \notin C
  <2>1. flows[f] \in Handlers /\ Same(flows[f], flows'[f])
    BY <1>1, <1>3, BusyMeans DEF Shapes, Same
  <2>2. HandlerOK(f, flows[f], m, drafts)
    BY <2>1, BusyMeans DEF HandlersOK, Busy
  <2> QED BY <1>1, <2>1, <2>2, HandlerStays DEF Shapes
<1> QED BY <1>2, <1>3

LEMMA DialogKeeps ==
  ASSUME Shapes, DialogOK, m' \in Documents, Forward(m, m'), dialog' = dialog, recovery' \in {recovery, <<>>},
         m'.id = m.id \/ recovery' = <<>>
  PROVE  DialogOK'
<1>1. dialog.open => dialog.ticket \in Tickets
  <2>1. CASE dialog = Closed
    BY <2>1 DEF Closed
  <2>2. CASE dialog \in Dialogs
    BY <2>2 DEF Dialogs
  <2> QED BY <2>1, <2>2 DEF Shapes
<1>2. dialog.open => Behind(dialog.ticket, m')
  BY <1>1 DEF DialogOK, Behind, Forward, Tickets, Documents, Shapes
<1>3. dialog.open /\ AtEpoch(dialog.ticket, m') => AtEpoch(dialog.ticket, m) /\ m'.doc = m.doc
  BY <1>1 DEF DialogOK, Behind, AtEpoch, Forward, Tickets, Documents, Shapes
<1>4. recovery' # <<>> => recovery'[1].epoch <= m'.epoch /\ (recovery'[1].epoch = m'.epoch => recovery'[1].doc = m'.doc)
  <2> SUFFICES ASSUME recovery # <<>>, recovery' = recovery, m'.id = m.id
               PROVE  recovery[1].epoch <= m'.epoch /\ (recovery[1].epoch = m'.epoch => recovery[1].doc = m'.doc)
    OBVIOUS
  <2>1. recovery[1] \in Recoveries
    BY DEF Shapes, Optional
  <2>2. recovery[1].epoch \in Nat /\ m.epoch \in Nat /\ m'.epoch \in Nat /\ m.id \in Nat
    BY <2>1 DEF Recoveries, Shapes, Documents
  <2> QED BY <2>2 DEF DialogOK, Forward
<1> QED BY <1>2, <1>3, <1>4 DEF DialogOK

\* A handler f ends or goes on as w; the page, the dialog and the server stay.
LEMMA StepKeeps ==
  ASSUME PageInv, UNCHANGED <<drafts, schema, runs, page, active, dialog>>,
         m' \in Documents, DocumentOK(m', drafts), Forward(m, m'),
         recovery' \in {recovery, <<>>}, m'.id = m.id \/ recovery' = <<>>,
         listing' = listing \/ listing' = Listed,
         NEW f \in Flows \ {"plan"}, NEW w \in Handlers \cup {Idle}, flows' = [flows EXCEPT ![f] = w],
         w = Idle \/ HandlerOK(f, w, m', drafts),
         f = "op" /\ w # Idle => ~dialog.open,
         f = "route" /\ w # Idle => page = "loading" /\ w.ticket.active <= active
  PROVE  PageInv'
<1>1. Shapes'
  <2>1. listing' \in [1 .. MaxDrafts -> Nat]
        /\ \A i \in 1 .. MaxDrafts : listing'[i] > 0 => i \in DOMAIN drafts /\ listing'[i] <= Len(drafts[i].revisions)
    <3>1. CASE listing' = listing
      BY <3>1 DEF PageInv, Shapes
    <3>2. CASE listing' = Listed
      <4>1. \A i \in DOMAIN drafts : Len(drafts[i].revisions) \in Nat
        BY DEF PageInv, Shapes, Drafts
      <4>2. \A i \in 1 .. MaxDrafts :
              listing'[i] = IF i \in DOMAIN drafts /\ drafts[i].alive THEN Len(drafts[i].revisions) ELSE 0
        BY <3>2 DEF Listed
      <4>3. listing' \in [1 .. MaxDrafts -> Nat]
        BY <3>2, <4>1 DEF Listed
      <4> QED BY <4>1, <4>2, <4>3
    <3> QED BY <3>1, <3>2
  <2>2. flows' \in [Flows -> Handlers \cup {Idle}] /\ recovery' \in Optional(Recoveries)
    BY DEF PageInv, Shapes, Optional
  <2> QED BY <2>1, <2>2 DEF PageInv, Shapes
<1>2. HandlersOK'
  <2>1. Grown(drafts, drafts') /\ drafts' \in Seq(Drafts)
    BY DEF Grown, PageInv, Shapes
  <2>2. \A g \in {f} : flows'[g] = Idle \/ HandlerOK(g, flows'[g], m', drafts')
    BY DEF PageInv, Shapes
  <2>3. \A g \in Flows \ {f} : flows'[g] = flows[g]
    BY DEF PageInv, Shapes
  <2>4. Shapes /\ HandlersOK /\ flows' \in [Flows -> Handlers \cup {Idle}] /\ {f} \in SUBSET Flows
    BY DEF PageInv, Shapes
  <2> QED BY <2>1, <2>2, <2>3, <2>4, HandlersKeep
<1>3. PlacesOK'
  <2>1. flows'[f] = w /\ (\A g \in Flows \ {f} : flows'[g] = flows[g]) /\ {"route", "op", "plan"} \subseteq Flows
    BY DEF PageInv, Shapes, Flows
  <2>2. Busy("op")' => ~dialog.open
    BY <2>1 DEF PageInv, PlacesOK, Busy, Idle
  <2>3. Busy("route")' => flows'["route"].ticket.active <= active /\ (flows'["route"].ticket.active = active => page = "loading")
    BY <2>1 DEF PageInv, PlacesOK, Busy, Idle
  <2>4. flows'["plan"] = flows["plan"]
    BY <2>1
  <2> QED BY <2>2, <2>3, <2>4 DEF PageInv, PlacesOK, Busy
<1>4. DialogOK'
  BY DialogKeeps DEF PageInv
<1>5. RunsOK' /\ DocumentOK(m, drafts)'
  BY DEF PageInv, RunsOK, RunsAreAsSeen
<1> QED BY <1>1, <1>2, <1>3, <1>4, <1>5 DEF PageInv

\* The route ends, and the page is drawn or left.
LEMMA RouteEnds ==
  ASSUME PageInv, UNCHANGED <<drafts, schema, runs, active, dialog, recovery, listing>>,
         m' \in Documents, DocumentOK(m', drafts), Forward(m, m'),
         page = "loading", page' \in {"workbench", "away"}, flows' = [flows EXCEPT !["route"] = Idle]
  PROVE  PageInv'
<1>0. recovery = <<>> /\ ~dialog.open
  BY DEF PageInv, PlacesOK
<1>1. Shapes'
  BY DEF PageInv, Shapes
<1>2. HandlersOK'
  <2>1. Grown(drafts, drafts') /\ drafts' \in Seq(Drafts)
    BY DEF Grown, PageInv, Shapes
  <2>2. flows'["route"] = Idle /\ (\A g \in Flows \ {"route"} : flows'[g] = flows[g]) /\ "route" \in Flows
    BY DEF PageInv, Shapes, Flows
  <2>3. \A g \in {"route"} : flows'[g] = Idle \/ HandlerOK(g, flows'[g], m', drafts')
    BY <2>2
  <2>4. Shapes /\ HandlersOK /\ flows' \in [Flows -> Handlers \cup {Idle}] /\ {"route"} \in SUBSET Flows
    BY <2>2 DEF PageInv, Shapes
  <2> QED BY <2>1, <2>2, <2>3, <2>4, HandlersKeep
<1>3. PlacesOK'
  <2>1. flows'["route"] = Idle /\ flows'["op"] = flows["op"] /\ flows'["plan"] = flows["plan"]
    BY DEF PageInv, Shapes, Flows
  <2> QED BY <1>0, <2>1 DEF PageInv, PlacesOK, Busy, Idle
<1>4. DialogOK'
  BY <1>0, DialogKeeps DEF PageInv
<1>5. RunsOK' /\ DocumentOK(m, drafts)'
  BY DEF PageInv, RunsOK, RunsAreAsSeen
<1> QED BY <1>1, <1>2, <1>3, <1>4, <1>5 DEF PageInv

\* The document as it is.
LEMMA Unchanged ==
  ASSUME PageInv, m' = m
  PROVE  m' \in Documents /\ DocumentOK(m', drafts) /\ Forward(m, m') /\ m'.id = m.id
BY DEF PageInv, Shapes, Forward

LEMMA HandlerFacts ==
  ASSUME PageInv, NEW f \in Flows, Busy(f)
  PROVE  flows[f] \in Handlers /\ flows[f] # Idle /\ HandlerOK(f, flows[f], m, drafts)
BY BusyMeans DEF PageInv, Shapes, HandlersOK, Busy, Idle

LEMMA IdleFacts ==
  ASSUME PageInv, NEW f \in Flows
  PROVE  flows[f] \in Handlers \cup {Idle} /\ (~Busy(f) => flows[f] = Idle) /\ (flows[f].step \in Steps => Busy(f))
BY BusyMeans DEF PageInv, Shapes, HandlersOK, Busy, Idle, Steps

(***************************************************************************)
(* The server.                                                             *)
(***************************************************************************)
\* A draft with one more revision, or one more draft.
LEMMA RevisedDrafts ==
  ASSUME drafts \in Seq(Drafts), NEW id \in DOMAIN drafts, NEW c \in Contents, Revise(id, c)
  PROVE  /\ drafts' \in Seq(Drafts) /\ Grown(drafts, drafts') /\ DOMAIN drafts' = DOMAIN drafts
         /\ drafts'[id].revisions = Append(drafts[id].revisions, c) /\ drafts'[id].revisions # <<>>
         /\ Len(drafts'[id].revisions) = Len(drafts[id].revisions) + 1
         /\ Len(drafts'[id].revisions) \in DOMAIN drafts'[id].revisions
         /\ drafts'[id].revisions[Len(drafts'[id].revisions)] = c
         /\ \A i \in DOMAIN drafts \ {id} : drafts'[i] = drafts[i]
<1>1. drafts[id] \in Drafts /\ drafts[id].revisions \in Seq(Contents)
  <2>1. drafts[id] \in Drafts
    OBVIOUS
  <2> QED BY <2>1 DEF Drafts
<1> DEFINE e == [drafts[id] EXCEPT !.revisions = Append(@, c)]
<1>2. e \in Drafts /\ e.revisions = Append(drafts[id].revisions, c)
  <2>1. Append(drafts[id].revisions, c) \in Seq(Contents)
    BY <1>1
  <2> QED BY <1>1, <2>1 DEF Drafts
<1>3. drafts' = [drafts EXCEPT ![id] = e]
  BY DEF Revise
<1>4. drafts'[id] = e /\ (\A i \in DOMAIN drafts \ {id} : drafts'[i] = drafts[i]) /\ DOMAIN drafts' = DOMAIN drafts
  BY <1>3
<1>5. drafts' \in Seq(Drafts)
  BY <1>2, <1>3
<1> DEFINE r == drafts[id].revisions
<1>6. /\ Append(r, c) # <<>> /\ Len(Append(r, c)) = Len(r) + 1 /\ Len(r) + 1 \in DOMAIN Append(r, c)
      /\ Append(r, c)[Len(r) + 1] = c
      /\ \A k \in DOMAIN r : k \in DOMAIN Append(r, c) /\ Append(r, c)[k] = r[k]
  BY <1>1
<1>7. Grown(drafts, drafts')
  BY <1>2, <1>4, <1>6 DEF Grown
<1> QED BY <1>2, <1>4, <1>5, <1>6, <1>7

LEMMA NewDraft ==
  ASSUME drafts \in Seq(Drafts), NEW c \in Contents, drafts' = Append(drafts, [alive |-> TRUE, revisions |-> <<c>>])
  PROVE  /\ drafts' \in Seq(Drafts) /\ Grown(drafts, drafts') /\ DOMAIN drafts' = DOMAIN drafts \cup {Len(drafts) + 1}
         /\ drafts'[Len(drafts) + 1].revisions = <<c>>
         /\ \A i \in DOMAIN drafts : drafts'[i] = drafts[i]
<1>1. [alive |-> TRUE, revisions |-> <<c>>] \in Drafts
  <2>1. <<c>> \in Seq(Contents)
    OBVIOUS
  <2> QED BY <2>1 DEF Drafts
<1>2. /\ drafts' \in Seq(Drafts) /\ DOMAIN drafts' = DOMAIN drafts \cup {Len(drafts) + 1}
      /\ drafts'[Len(drafts) + 1] = [alive |-> TRUE, revisions |-> <<c>>]
      /\ \A i \in DOMAIN drafts : drafts'[i] = drafts[i]
  BY <1>1
<1> QED BY <1>2 DEF Grown

\* The server takes a step, and the handler f has an answer.
LEMMA ServerKeeps ==
  ASSUME PageInv, UNCHANGED <<m, page, active, dialog, recovery, listing>>, schema' \in Nat,
         drafts' \in Seq(Drafts), Grown(drafts, drafts'), \A i \in DOMAIN drafts' : drafts'[i].revisions # <<>>,
         RunsOK', NEW f \in Flows, NEW w \in Handlers, flows' = [flows EXCEPT ![f] = w],
         Busy(f), HandlerOK(f, w, m, drafts'), w.ticket = flows[f].ticket, w.shown = flows[f].shown
  PROVE  PageInv'
<1>1. Shapes'
  <2>1. \A i \in 1 .. MaxDrafts : listing[i] > 0 => i \in DOMAIN drafts' /\ listing[i] <= Len(drafts'[i].revisions)
    <3> SUFFICES ASSUME NEW i \in 1 .. MaxDrafts, listing[i] > 0
                 PROVE  i \in DOMAIN drafts' /\ listing[i] <= Len(drafts'[i].revisions)
      OBVIOUS
    <3>1. i \in DOMAIN drafts /\ listing[i] <= Len(drafts[i].revisions) /\ listing[i] \in Nat
      BY DEF PageInv, Shapes
    <3>2. i \in DOMAIN drafts' /\ Len(drafts[i].revisions) <= Len(drafts'[i].revisions)
      BY <3>1, GrownKeeps DEF PageInv, Shapes
    <3>3. drafts[i] \in Drafts /\ drafts'[i] \in Drafts
      BY <3>1, <3>2 DEF PageInv, Shapes
    <3>4. Len(drafts[i].revisions) \in Nat /\ Len(drafts'[i].revisions) \in Nat
      BY <3>3 DEF Drafts
    <3> QED BY <3>1, <3>2, <3>4
  <2> QED BY <2>1 DEF PageInv, Shapes
<1>2. Forward(m, m') /\ m' \in Documents /\ m'.id = m.id
  BY Unchanged
<1>3. HandlersOK'
  <2>1. \A g \in {f} : flows'[g] = Idle \/ HandlerOK(g, flows'[g], m', drafts')
    BY DEF PageInv, Shapes
  <2>2. \A g \in Flows \ {f} : flows'[g] = flows[g]
    BY DEF PageInv, Shapes
  <2>3. Shapes /\ HandlersOK /\ flows' \in [Flows -> Handlers \cup {Idle}] /\ {f} \in SUBSET Flows
    BY DEF PageInv, Shapes
  <2> QED BY <1>2, <2>1, <2>2, <2>3, HandlersKeep
<1>4. PlacesOK'
  <2>1. flows'[f] = w /\ (\A g \in Flows \ {f} : flows'[g] = flows[g]) /\ {"route", "op", "plan"} \subseteq Flows
    BY DEF PageInv, Shapes, Flows
  <2>2. \A g \in Flows : Busy(g)' => Busy(g) /\ flows'[g].ticket = flows[g].ticket /\ flows'[g].shown = flows[g].shown
    BY <2>1 DEF Busy
  <2> QED BY <2>1, <2>2 DEF PageInv, PlacesOK
<1>5. DialogOK'
  BY <1>2, DialogKeeps DEF PageInv
<1>6. DocumentOK(m, drafts)'
  BY DocumentStays DEF PageInv, Shapes
<1> QED BY <1>1, <1>3, <1>4, <1>5, <1>6 DEF PageInv

\* What the server answers.
Grant(w, i, r, s, g) == [w EXCEPT !.id = i, !.rev = r, !.schema = s, !.got = g, !.ok = TRUE, !.served = TRUE]
Refusal(w) == [w EXCEPT !.ok = FALSE, !.served = TRUE]
Gots == Optional(Nat \cup Docs \cup Answers \cup Confirmed)

Granting(v, w, i, r, s, g) ==
  /\ v \in Handlers /\ v.step = w.step /\ v.kind = w.kind /\ v.ticket = w.ticket /\ v.served = TRUE /\ v.ok = TRUE
  /\ v.shown = w.shown /\ v.doc = w.doc /\ v.schema = s /\ v.got = g /\ v.id = i /\ v.rev = r
Refusing(v, w) ==
  /\ v \in Handlers /\ v.step = w.step /\ v.kind = w.kind /\ v.ticket = w.ticket /\ v.served = TRUE /\ v.ok = FALSE
  /\ v.shown = w.shown /\ v.doc = w.doc /\ v.schema = w.schema /\ v.got = w.got /\ v.id = w.id /\ v.rev = w.rev

LEMMA GrantIs ==
  ASSUME NEW w \in Handlers, NEW i \in Nat, NEW r \in Nat, NEW s \in Nat, NEW g \in Gots
  PROVE  Granting(Grant(w, i, r, s, g), w, i, r, s, g)
<1> DEFINE v == Grant(w, i, r, s, g)
<1>1. v \in Handlers
  BY DEF Grant, Handlers, Gots
<1>2. /\ v.step = w.step /\ v.kind = w.kind /\ v.ticket = w.ticket /\ v.served = TRUE /\ v.ok = TRUE
      /\ v.shown = w.shown /\ v.doc = w.doc /\ v.schema = s /\ v.got = g /\ v.id = i /\ v.rev = r
  BY DEF Grant, Handlers
<1> QED BY <1>1, <1>2 DEF Granting

LEMMA RefusalIs ==
  ASSUME NEW w \in Handlers
  PROVE  Refusing(Refusal(w), w)
<1> DEFINE v == Refusal(w)
<1>1. v \in Handlers
  BY DEF Refusal, Handlers
<1>2. /\ v.step = w.step /\ v.kind = w.kind /\ v.ticket = w.ticket /\ v.served = TRUE /\ v.ok = FALSE
      /\ v.shown = w.shown /\ v.doc = w.doc /\ v.schema = w.schema /\ v.got = w.got /\ v.id = w.id /\ v.rev = w.rev
  BY DEF Refusal, Handlers
<1> QED BY <1>1, <1>2 DEF Refusing

\* What a handler asked for itself stays.
LEMMA CarriesStays ==
  ASSUME NEW ds \in Seq(Drafts), NEW es \in Seq(Drafts), Grown(ds, es), NEW x, NEW f, f \notin {"run", "manage"},
         NEW w, NEW v, Carries(f, w, x, ds), v.step = w.step, v.kind = w.kind, v.got = w.got, v.step = "save"
  PROVE  Carries(f, v, x, es)
<1>1. DOMAIN ds \subseteq DOMAIN es /\ (Holds(ds, w.got[1]) => Holds(es, w.got[1]))
  BY GrownKeeps
<1> QED BY <1>1 DEF Carries

LEMMA ServeSaveKeeps ==
  ASSUME PageInv, NEW f \in Flows, Busy(f), ~flows[f].served, flows[f].step = "save", ServeSave(f),
         UNCHANGED <<m, page, active, dialog, recovery, listing>>
  PROVE  PageInv'
<1>0. PICK w \in Handlers : w = flows[f] /\ HandlerOK(f, w, m, drafts)
  BY HandlerFacts
<1> DEFINE c == [doc |-> w.doc, schema |-> w.schema]
<1>1. /\ w.ok = FALSE /\ w.step = "save" /\ w.step \in StepsOf(f) /\ Carries(f, w, m, drafts) /\ Behind(w.ticket, m)
      /\ (AtEpoch(w.ticket, m) => w.doc = m.doc /\ w.schema = m.schema)
      /\ w.id = 0 \/ (w.id \in DOMAIN drafts /\ w.rev <= Len(drafts[w.id].revisions))
  BY <1>0 DEF HandlerOK, Remembers, Handlers
<1>2. c \in Contents /\ w.rev \in Nat /\ w.id \in Nat /\ w.schema \in Nat /\ w.got \in Gots /\ w.doc \in Docs
  BY DEF Contents, Handlers, Gots
<1>3. drafts \in Seq(Drafts) /\ schema \in Nat /\ \A i \in DOMAIN drafts : drafts[i].revisions # <<>>
  BY DEF PageInv, Shapes
<1>4. f \notin {"run", "manage"}
  BY <1>1 DEF StepsOf
\* An answer that is refused, or names what the drafts now hold.
<1>5. ASSUME NEW v \in Handlers, flows' = [flows EXCEPT ![f] = v],
             v.step = w.step, v.kind = w.kind, v.ticket = w.ticket, v.served = TRUE, v.shown = w.shown, v.doc = w.doc,
             v.schema = w.schema, v.got = w.got,
             drafts' \in Seq(Drafts), Grown(drafts, drafts'), \A j \in DOMAIN drafts' : drafts'[j].revisions # <<>>,
             v.ok => Has(drafts', v.id, v.rev) /\ drafts'[v.id].revisions[v.rev].doc = w.doc,
             ~v.ok => v.id = 0 \/ (v.id \in DOMAIN drafts' /\ v.rev <= Len(drafts'[v.id].revisions)),
             UNCHANGED <<schema, runs>>
      PROVE  PageInv'
  <2>2. Remembers(f, v, m, drafts')
    BY <1>1, <1>5 DEF Remembers, Holds
  <2>3. v.step = "save"
    BY <1>1, <1>5
  <2>4. Carries(f, v, m, drafts')
    BY <1>1, <1>3, <1>4, <1>5, <2>3, CarriesStays
  <2>5. HandlerOK(f, v, m, drafts')
    BY <2>2, <2>4 DEF HandlerOK
  <2>6. RunsOK'
    BY <1>5 DEF PageInv, RunsOK, RunsAreAsSeen
  <2>7. schema' \in Nat /\ v.ticket = flows[f].ticket /\ v.shown = flows[f].shown
    BY <1>0, <1>3, <1>5
  <2> QED BY <1>5, <2>5, <2>6, <2>7, ServerKeeps
<1>6. CASE /\ drafts' = Append(drafts, [alive |-> TRUE, revisions |-> <<c>>])
           /\ Granted(f, [w EXCEPT !.id = Len(drafts) + 1, !.rev = 1]) /\ UNCHANGED <<schema, runs>>
  <2>1. /\ drafts' \in Seq(Drafts) /\ Grown(drafts, drafts') /\ DOMAIN drafts' = DOMAIN drafts \cup {Len(drafts) + 1}
        /\ drafts'[Len(drafts) + 1].revisions = <<c>> /\ \A i \in DOMAIN drafts : drafts'[i] = drafts[i]
    BY <1>2, <1>3, <1>6, NewDraft
  <2> DEFINE v == Grant(w, Len(drafts) + 1, 1, w.schema, w.got)
  <2>2. flows' = [flows EXCEPT ![f] = v]
    BY <1>6 DEF Granted, Answered, Grant, Handlers
  <2>6. Len(drafts) + 1 \in Nat
    BY <1>3
  <2>7. Granting(v, w, Len(drafts) + 1, 1, w.schema, w.got)
    BY <1>2, <2>6, GrantIs
  <2> HIDE DEF v
  <2>3. \A j \in DOMAIN drafts' : drafts'[j].revisions # <<>>
    BY <1>3, <2>1
  <2>4. Has(drafts', Len(drafts) + 1, 1) /\ drafts'[Len(drafts) + 1].revisions[1].doc = w.doc
    BY <2>1 DEF Has
  <2>5. UNCHANGED <<schema, runs>>
    BY <1>6
  <2> QED BY <1>5, <2>1, <2>2, <2>3, <2>4, <2>5, <2>7 DEF Granting
<1>7. CASE AtRevision(w.id, w.rev) /\ Revise(w.id, c) /\ Granted(f, [w EXCEPT !.rev = @ + 1]) /\ UNCHANGED <<schema, runs>>
  <2>0. w.id \in DOMAIN drafts /\ Len(drafts[w.id].revisions) = w.rev
    BY <1>7 DEF AtRevision
  <2>1. /\ drafts' \in Seq(Drafts) /\ Grown(drafts, drafts') /\ DOMAIN drafts' = DOMAIN drafts
        /\ drafts'[w.id].revisions # <<>> /\ Len(drafts'[w.id].revisions) = w.rev + 1
        /\ w.rev + 1 \in DOMAIN drafts'[w.id].revisions /\ drafts'[w.id].revisions[w.rev + 1] = c
        /\ \A i \in DOMAIN drafts \ {w.id} : drafts'[i] = drafts[i]
    BY <1>2, <1>3, <1>7, <2>0, RevisedDrafts
  <2> DEFINE v == Grant(w, w.id, w.rev + 1, w.schema, w.got)
  <2>2. flows' = [flows EXCEPT ![f] = v]
    BY <1>7 DEF Granted, Answered, Grant, Handlers
  <2>6. w.rev + 1 \in Nat
    BY <1>2
  <2>7. Granting(v, w, w.id, w.rev + 1, w.schema, w.got)
    BY <1>2, <2>6, GrantIs
  <2> HIDE DEF v
  <2>3. \A j \in DOMAIN drafts' : drafts'[j].revisions # <<>>
    BY <1>3, <2>1
  <2>4. Has(drafts', w.id, w.rev + 1) /\ drafts'[w.id].revisions[w.rev + 1].doc = w.doc
    BY <2>0, <2>1 DEF Has
  <2>5. UNCHANGED <<schema, runs>>
    BY <1>7
  <2> QED BY <1>5, <2>1, <2>2, <2>3, <2>4, <2>5, <2>7 DEF Granting
<1>8. CASE Refused(f)
  <2> DEFINE v == Refusal(w)
  <2>1. flows' = [flows EXCEPT ![f] = v]
    BY <1>0, <1>1, <1>8 DEF Refused, Answered, Refusal, Handlers
  <2>4. Refusing(v, w)
    BY RefusalIs
  <2> HIDE DEF v
  <2>2. UNCHANGED <<drafts, schema, runs>>
    BY <1>8 DEF Refused, Server
  <2>3. Grown(drafts, drafts')
    BY <2>2 DEF Grown
  <2>5. drafts' \in Seq(Drafts) /\ \A j \in DOMAIN drafts' : drafts'[j].revisions # <<>>
    BY <1>3, <2>2
  <2>6. v.id = 0 \/ (v.id \in DOMAIN drafts' /\ v.rev <= Len(drafts'[v.id].revisions))
    BY <1>1, <2>2, <2>4 DEF Refusing
  <2> QED BY <1>5, <2>1, <2>2, <2>3, <2>4, <2>5, <2>6 DEF Refusing
<1> QED BY <1>0, <1>6, <1>7, <1>8 DEF ServeSave
\* The server only reads.
LEMMA ReadKeeps ==
  ASSUME PageInv, NEW f \in Flows \ {"run", "manage"}, Busy(f), UNCHANGED Server,
         UNCHANGED <<m, page, active, dialog, recovery, listing>>,
         NEW w \in Handlers, w = flows[f], w.step # "save", NEW v \in Handlers, flows' = [flows EXCEPT ![f] = v],
         v.step = w.step, v.kind = w.kind, v.ticket = w.ticket, v.served = TRUE, v.shown = w.shown, v.doc = w.doc, v.id = w.id,
         v.schema = w.schema \/ w.step = "schema", Carries(f, v, m, drafts)
  PROVE  PageInv'
<1>1. HandlerOK(f, w, m, drafts)
  BY HandlerFacts
<1>2. Remembers(f, v, m, drafts)
  BY <1>1 DEF HandlerOK, Remembers
<1>4. /\ drafts' \in Seq(Drafts) /\ Grown(drafts, drafts') /\ (\A i \in DOMAIN drafts' : drafts'[i].revisions # <<>>)
      /\ schema' \in Nat /\ RunsOK' /\ drafts' = drafts
  BY DEF PageInv, Shapes, RunsOK, RunsAreAsSeen, Grown, Server
<1>5. HandlerOK(f, v, m, drafts')
  BY <1>2, <1>4 DEF HandlerOK
<1>6. v.ticket = flows[f].ticket /\ v.shown = flows[f].shown
  OBVIOUS
<1> QED BY <1>4, <1>5, <1>6, ServerKeeps

LEMMA ServeReadKeeps ==
  ASSUME PageInv, NEW f \in Flows \ {"run", "manage"}, Busy(f), ~flows[f].served, flows[f].step \notin {"save", "review"},
         ServeRead(f), UNCHANGED <<m, page, active, dialog, recovery, listing>>
  PROVE  PageInv'
<1>0. PICK w \in Handlers : w = flows[f] /\ HandlerOK(f, w, m, drafts)
  BY HandlerFacts
<1>1. w.step \in {"check", "preview", "schema", "parse", "get", "plan", "suggest", "providers"} /\ Carries(f, w, m, drafts)
  <2>1. w.step \in StepsOf(f) /\ f \in {"op", "open", "route", "plan", "ask"} /\ Carries(f, w, m, drafts)
    BY <1>0 DEF HandlerOK, Remembers, Flows
  <2> QED BY <1>0, <2>1 DEF StepsOf
<1>2. w.id \in Nat /\ w.rev \in Nat /\ w.schema \in Nat /\ w.got \in Gots /\ schema \in Nat /\ drafts \in Seq(Drafts)
      /\ w.step # "save"
  BY <1>1 DEF Handlers, Gots, PageInv, Shapes
<1>3. UNCHANGED Server
  BY DEF ServeRead
<1>4. ASSUME flows' = [flows EXCEPT ![f] = Refusal(w)]
      PROVE  PageInv'
  <2> DEFINE v == Refusal(w)
  <2>1. Refusing(v, w)
    BY RefusalIs
  <2>2. flows' = [flows EXCEPT ![f] = v]
    BY <1>4
  <2> HIDE DEF v
  <2>3. /\ v \in Handlers /\ v.step = w.step /\ v.kind = w.kind /\ v.ticket = w.ticket /\ v.served = TRUE /\ v.shown = w.shown
        /\ v.doc = w.doc /\ v.id = w.id /\ (v.schema = w.schema \/ w.step = "schema") /\ v.got = w.got
        /\ (~v.ok \/ w.step # "get" \/ w.kind = "run")
    BY <2>1 DEF Refusing
  <2>4. Carries(f, v, m, drafts)
    BY <1>1, <2>3 DEF Carries
  <2> QED BY <1>0, <1>2, <1>3, <2>2, <2>3, <2>4, ReadKeeps
<1>5. ASSUME w.step # "get" \/ w.kind = "run", NEW s \in Nat, s = w.schema \/ w.step = "schema",
             flows' = [flows EXCEPT ![f] = Grant(w, w.id, w.rev, s, w.got)]
      PROVE  PageInv'
  <2> DEFINE v == Grant(w, w.id, w.rev, s, w.got)
  <2>1. Granting(v, w, w.id, w.rev, s, w.got)
    BY <1>2, GrantIs
  <2>2. flows' = [flows EXCEPT ![f] = v]
    BY <1>5
  <2> HIDE DEF v
  <2>3. /\ v \in Handlers /\ v.step = w.step /\ v.kind = w.kind /\ v.ticket = w.ticket /\ v.served = TRUE /\ v.shown = w.shown
        /\ v.doc = w.doc /\ v.id = w.id /\ (v.schema = w.schema \/ w.step = "schema") /\ v.got = w.got
        /\ (~v.ok \/ w.step # "get" \/ w.kind = "run")
    BY <1>5, <2>1 DEF Granting
  <2>4. Carries(f, v, m, drafts)
    BY <1>1, <2>3 DEF Carries
  <2> QED BY <1>0, <1>2, <1>3, <2>2, <2>3, <2>4, ReadKeeps
<1>6. CASE w.step \in {"check", "preview", "suggest", "plan"}
  <2>1. PICK k \in BOOLEAN : Answered(f, [w EXCEPT !.ok = k])
    <3>1. (w.schema = schema) \in BOOLEAN /\ Reviewed(w) \in BOOLEAN
      BY DEF Reviewed, AtRevision
    <3> QED BY <1>0, <1>6, <3>1 DEF ServeRead
  <2>2. CASE k = TRUE
    <3>1. flows' = [flows EXCEPT ![f] = Grant(w, w.id, w.rev, w.schema, w.got)]
      BY <2>1, <2>2 DEF Answered, Grant, Handlers
    <3> QED BY <1>2, <1>5, <1>6, <3>1
  <2>3. CASE k = FALSE
    <3>1. flows' = [flows EXCEPT ![f] = Refusal(w)]
      BY <2>1, <2>3 DEF Answered, Refusal
    <3> QED BY <1>4, <3>1
  <2> QED BY <2>2, <2>3
<1>7. CASE w.step \in {"parse", "providers"} \/ (w.step = "get" /\ w.kind = "run")
  <2>1. Granted(f, w)
    BY <1>0, <1>7 DEF ServeRead
  <2>2. flows' = [flows EXCEPT ![f] = Grant(w, w.id, w.rev, w.schema, w.got)]
    BY <2>1 DEF Granted, Answered, Grant, Handlers
  <2> QED BY <1>2, <1>5, <1>7, <2>2
<1>8. CASE w.step = "schema"
  <2>1. Granted(f, [w EXCEPT !.schema = schema])
    BY <1>0, <1>8 DEF ServeRead
  <2>2. flows' = [flows EXCEPT ![f] = Grant(w, w.id, w.rev, schema, w.got)]
    BY <2>1 DEF Granted, Answered, Grant, Handlers
  <2> QED BY <1>2, <1>5, <1>8, <2>2
<1>9. CASE w.step = "get" /\ w.kind # "run"
  <2> DEFINE r == drafts[w.id].revisions
             got == [id |-> w.id, rev |-> Len(r), doc |-> r[Len(r)].doc, schema |-> r[Len(r)].schema]
  <2>1. w.id \in DOMAIN drafts
    <3>1. f \in {"open", "route"}
      <4>1. w.step \in StepsOf(f) /\ f \in {"op", "open", "route", "plan", "ask"}
        BY <1>0 DEF HandlerOK, Remembers, Flows
      <4> QED BY <1>9, <4>1 DEF StepsOf
    <3> QED BY <1>1, <1>9, <3>1 DEF Carries
  <2>2. r \in Seq(Contents) /\ Len(r) \in DOMAIN r /\ r[Len(r)] \in Contents /\ Len(r) \in Nat
    <3>1. drafts[w.id] \in Drafts /\ r # <<>>
      BY <2>1 DEF PageInv, Shapes
    <3>2. r \in Seq(Contents)
      BY <3>1 DEF Drafts
    <3> QED BY <3>1, <3>2
  <2>3. got \in Answers /\ Holds(drafts, got)
    BY <1>2, <2>1, <2>2 DEF Answers, Contents, Holds, Has
  <2>4. CASE flows' = [flows EXCEPT ![f] = Grant(w, w.id, w.rev, w.schema, <<got>>)]
    <3>1. <<got>> \in Gots /\ <<got>> \in {<<x>> : x \in Answers} /\ Holds(drafts, <<got>>[1])
      BY <2>3 DEF Gots, Optional
    <3> DEFINE v == Grant(w, w.id, w.rev, w.schema, <<got>>)
    <3>2. Granting(v, w, w.id, w.rev, w.schema, <<got>>)
      BY <1>2, <3>1, GrantIs
    <3>3. flows' = [flows EXCEPT ![f] = v]
      BY <2>4
    <3> HIDE DEF v, got
    <3>4. /\ v \in Handlers /\ v.step = w.step /\ v.kind = w.kind /\ v.ticket = w.ticket /\ v.served = TRUE
          /\ v.shown = w.shown /\ v.doc = w.doc /\ v.id = w.id /\ v.schema = w.schema /\ v.got = <<got>>
      BY <3>2 DEF Granting
    <3>5. Carries(f, v, m, drafts)
      BY <1>1, <1>9, <3>1, <3>4 DEF Carries
    <3> QED BY <1>0, <1>2, <1>3, <3>3, <3>4, <3>5, ReadKeeps
  <2>5. CASE flows' = [flows EXCEPT ![f] = Refusal(w)]
    BY <1>4, <2>5
  <2>6. Granted(f, [w EXCEPT !.got = <<got>>]) \/ Answered(f, w)
    BY <1>0, <1>9 DEF ServeRead
  <2>7. CASE Granted(f, [w EXCEPT !.got = <<got>>])
    <3>1. flows' = [flows EXCEPT ![f] = Grant(w, w.id, w.rev, w.schema, <<got>>)]
      BY <2>7 DEF Granted, Answered, Grant, Handlers
    <3> QED BY <2>4, <3>1
  <2>8. CASE Answered(f, w) /\ w.ok = FALSE
    <3>1. flows' = [flows EXCEPT ![f] = Refusal(w)]
      BY <2>8 DEF Answered, Refusal, Handlers
    <3> QED BY <2>5, <3>1
  <2>9. w.ok = FALSE
    BY <1>0, <1>9 DEF HandlerOK, Remembers, Handlers
  <2> QED BY <2>6, <2>7, <2>8, <2>9
<1> QED BY <1>1, <1>6, <1>7, <1>8, <1>9

\* The server starts a run.
LEMMA ServeRunKeeps ==
  ASSUME PageInv, Busy("run"), ~flows["run"].served, ServeRun, UNCHANGED <<m, page, active, dialog, recovery, listing>>
  PROVE  PageInv'
<1>0. PICK w \in Handlers : w = flows["run"] /\ HandlerOK("run", w, m, drafts)
  BY HandlerFacts DEF Flows
<1>1. PICK p \in {<<>>, <<w.doc>>} : w.got = <<[doc |-> w.doc, plan |-> p]>>
  BY <1>0 DEF HandlerOK, Carries
<1>2. /\ w.id \in Nat /\ w.rev \in Nat /\ w.schema \in Nat /\ w.got \in Gots /\ w.doc \in Docs /\ w.step = "run" /\ w.ok = FALSE
      /\ drafts \in Seq(Drafts) /\ schema \in Nat /\ "run" \in Flows
  BY <1>0 DEF HandlerOK, Remembers, StepsOf, Handlers, Gots, PageInv, Shapes, Flows
<1>3. ASSUME NEW v \in Handlers, flows' = [flows EXCEPT !["run"] = v], UNCHANGED <<drafts, schema>>, RunsOK',
             v.step = w.step, v.kind = w.kind, v.ticket = w.ticket, v.served = TRUE, v.shown = w.shown, v.doc = w.doc,
             v.schema = w.schema, v.got = w.got
      PROVE  PageInv'
  <2>1. Remembers("run", v, m, drafts')
    BY <1>0, <1>2, <1>3 DEF HandlerOK, Remembers
  <2>2. Carries("run", v, m, drafts')
    BY <1>0, <1>3 DEF HandlerOK, Carries
  <2>3. /\ drafts' \in Seq(Drafts) /\ Grown(drafts, drafts') /\ (\A i \in DOMAIN drafts' : drafts'[i].revisions # <<>>)
        /\ schema' \in Nat
    BY <1>3 DEF PageInv, Shapes, Grown
  <2>4. HandlerOK("run", v, m, drafts') /\ v.ticket = flows["run"].ticket /\ v.shown = flows["run"].shown
    BY <1>0, <1>3, <2>1, <2>2 DEF HandlerOK
  <2> QED BY <1>2, <1>3, <2>3, <2>4, ServerKeeps
<1>4. CASE /\ Reviewed(w) /\ runs' = runs \cup {[doc |-> Stored(w.id, w.rev).doc, seen |-> w.got]}
           /\ Granted("run", w) /\ UNCHANGED <<drafts, schema>>
  <2>1. RunsOK'
    <3> DEFINE r == [doc |-> Stored(w.id, w.rev).doc, seen |-> w.got]
    <3>1. r.doc = w.doc /\ r.seen[1].doc = w.doc /\ (r.seen[1].plan # <<>> => r.seen[1].plan[1] = w.doc)
      BY <1>1, <1>4 DEF Reviewed
    <3>2. runs' = runs \cup {r}
      BY <1>4
    <3> HIDE DEF r
    <3> QED BY <1>2, <3>1, <3>2 DEF PageInv, RunsOK, RunsAreAsSeen
  <2> DEFINE v == Grant(w, w.id, w.rev, w.schema, w.got)
  <2>2. flows' = [flows EXCEPT !["run"] = v]
    BY <1>4 DEF Granted, Answered, Grant, Handlers
  <2>3. Granting(v, w, w.id, w.rev, w.schema, w.got)
    BY <1>2, GrantIs
  <2> HIDE DEF v
  <2> QED BY <1>3, <1>4, <2>1, <2>2, <2>3 DEF Granting
<1>5. CASE Refused("run")
  <2> DEFINE v == Refusal(w)
  <2>1. flows' = [flows EXCEPT !["run"] = v]
    BY <1>0, <1>2, <1>5 DEF Refused, Answered, Refusal, Handlers
  <2>2. UNCHANGED <<drafts, schema, runs>>
    BY <1>5 DEF Refused, Server
  <2>3. RunsOK'
    BY <2>2 DEF PageInv, RunsOK, RunsAreAsSeen
  <2>4. Refusing(v, w)
    BY RefusalIs
  <2> HIDE DEF v
  <2> QED BY <1>3, <2>1, <2>2, <2>3, <2>4 DEF Refusing
<1> QED BY <1>0, <1>4, <1>5 DEF ServeRun

\* A draft is renamed, which adds a revision of the same content, or deleted.
LEMMA DeletedDraft ==
  ASSUME drafts \in Seq(Drafts), NEW id \in DOMAIN drafts, drafts' = [drafts EXCEPT ![id].alive = FALSE]
  PROVE  drafts' \in Seq(Drafts) /\ Grown(drafts, drafts') /\ DOMAIN drafts' = DOMAIN drafts
         /\ \A i \in DOMAIN drafts : drafts'[i].revisions = drafts[i].revisions
<1>1. drafts[id] \in Drafts
  OBVIOUS
<1> DEFINE e == [drafts[id] EXCEPT !.alive = FALSE]
<1>2. e \in Drafts /\ e.revisions = drafts[id].revisions
  BY <1>1 DEF Drafts
<1>3. drafts' = [drafts EXCEPT ![id] = e]
  OBVIOUS
<1>4. drafts'[id] = e /\ (\A i \in DOMAIN drafts \ {id} : drafts'[i] = drafts[i]) /\ DOMAIN drafts' = DOMAIN drafts
  BY <1>3
<1>5. drafts' \in Seq(Drafts)
  BY <1>2, <1>3
<1>6. \A i \in DOMAIN drafts : drafts'[i].revisions = drafts[i].revisions
  BY <1>2, <1>4
<1>7. Grown(drafts, drafts')
  BY <1>4, <1>6 DEF Grown
<1> QED BY <1>4, <1>5, <1>6, <1>7

LEMMA ServeManageKeeps ==
  ASSUME PageInv, Busy("manage"), ~flows["manage"].served, ServeManage,
         UNCHANGED <<m, page, active, dialog, recovery, listing>>
  PROVE  PageInv'
<1>0. PICK w \in Handlers : w = flows["manage"] /\ HandlerOK("manage", w, m, drafts)
  BY HandlerFacts DEF Flows
<1>1. /\ w.id \in Nat /\ w.rev \in Nat /\ w.schema \in Nat /\ w.got \in Gots /\ w.step \in {"rename", "delete"} /\ w.ok = FALSE
      /\ drafts \in Seq(Drafts) /\ schema \in Nat /\ "manage" \in Flows /\ Has(drafts, w.id, w.rev)
  BY <1>0 DEF HandlerOK, Remembers, Carries, StepsOf, Handlers, Gots, PageInv, Shapes, Flows
<1>2. \A i \in DOMAIN drafts : drafts[i].revisions # <<>>
  BY DEF PageInv, Shapes
<1>3. ASSUME NEW v \in Handlers, flows' = [flows EXCEPT !["manage"] = v], UNCHANGED <<schema, runs>>,
             v.step = w.step, v.kind = w.kind, v.ticket = w.ticket, v.served = TRUE, v.shown = w.shown, v.doc = w.doc,
             v.schema = w.schema, Has(drafts', v.id, v.rev),
             drafts' \in Seq(Drafts), Grown(drafts, drafts'), \A i \in DOMAIN drafts' : drafts'[i].revisions # <<>>
      PROVE  PageInv'
  <2>1. Remembers("manage", v, m, drafts')
    BY <1>0, <1>1, <1>3 DEF HandlerOK, Remembers
  <2>2. Carries("manage", v, m, drafts')
    BY <1>3 DEF Carries
  <2>3. HandlerOK("manage", v, m, drafts') /\ v.ticket = flows["manage"].ticket /\ v.shown = flows["manage"].shown
    BY <1>0, <1>3, <2>1, <2>2 DEF HandlerOK
  <2>4. RunsOK' /\ schema' \in Nat
    BY <1>1, <1>3 DEF PageInv, RunsOK, RunsAreAsSeen
  <2> QED BY <1>1, <1>3, <2>3, <2>4, ServerKeeps
<1>4. CASE /\ AtRevision(w.id, w.rev) /\ Revise(w.id, Stored(w.id, w.rev))
           /\ Granted("manage", [w EXCEPT !.rev = @ + 1]) /\ UNCHANGED <<schema, runs>>
  <2>1. Stored(w.id, w.rev) \in Contents /\ w.id \in DOMAIN drafts /\ Len(drafts[w.id].revisions) = w.rev
    <3>1. w.id \in DOMAIN drafts /\ w.rev \in DOMAIN drafts[w.id].revisions
      BY <1>1 DEF Has
    <3>2. drafts[w.id] \in Drafts
      BY <1>1, <3>1
    <3>3. drafts[w.id].revisions \in Seq(Contents)
      BY <3>2 DEF Drafts
    <3> QED BY <1>4, <3>1, <3>3 DEF Stored, AtRevision
  <2>2. /\ drafts' \in Seq(Drafts) /\ Grown(drafts, drafts') /\ DOMAIN drafts' = DOMAIN drafts
        /\ drafts'[w.id].revisions # <<>> /\ Len(drafts'[w.id].revisions) = w.rev + 1
        /\ w.rev + 1 \in DOMAIN drafts'[w.id].revisions
        /\ \A i \in DOMAIN drafts \ {w.id} : drafts'[i] = drafts[i]
    BY <1>1, <1>4, <2>1, RevisedDrafts
  <2> DEFINE v == Grant(w, w.id, w.rev + 1, w.schema, w.got)
  <2>3. flows' = [flows EXCEPT !["manage"] = v]
    BY <1>4 DEF Granted, Answered, Grant, Handlers
  <2>4. w.rev + 1 \in Nat
    BY <1>1
  <2>5. Granting(v, w, w.id, w.rev + 1, w.schema, w.got)
    BY <1>1, <2>4, GrantIs
  <2>6. Has(drafts', w.id, w.rev + 1) /\ \A i \in DOMAIN drafts' : drafts'[i].revisions # <<>>
    BY <1>2, <2>1, <2>2 DEF Has
  <2> HIDE DEF v
  <2> QED BY <1>3, <1>4, <2>2, <2>3, <2>5, <2>6 DEF Granting
<1>5. CASE /\ drafts' = [drafts EXCEPT ![w.id].alive = FALSE] /\ Granted("manage", w) /\ UNCHANGED <<schema, runs>>
  <2>1. w.id \in DOMAIN drafts
    BY <1>1 DEF Has
  <2>2. drafts' \in Seq(Drafts) /\ Grown(drafts, drafts') /\ DOMAIN drafts' = DOMAIN drafts
        /\ \A i \in DOMAIN drafts : drafts'[i].revisions = drafts[i].revisions
    BY <1>1, <1>5, <2>1, DeletedDraft
  <2> DEFINE v == Grant(w, w.id, w.rev, w.schema, w.got)
  <2>3. flows' = [flows EXCEPT !["manage"] = v]
    BY <1>5 DEF Granted, Answered, Grant, Handlers
  <2>4. Granting(v, w, w.id, w.rev, w.schema, w.got)
    BY <1>1, GrantIs
  <2>5. Has(drafts', w.id, w.rev) /\ \A i \in DOMAIN drafts' : drafts'[i].revisions # <<>>
    BY <1>1, <1>2, <2>2 DEF Has
  <2> HIDE DEF v
  <2> QED BY <1>3, <1>5, <2>2, <2>3, <2>4, <2>5 DEF Granting
<1>6. CASE Refused("manage")
  <2> DEFINE v == Refusal(w)
  <2>1. flows' = [flows EXCEPT !["manage"] = v]
    BY <1>0, <1>1, <1>6 DEF Refused, Answered, Refusal, Handlers
  <2>2. UNCHANGED <<drafts, schema, runs>>
    BY <1>6 DEF Refused, Server
  <2>3. Refusing(v, w)
    BY RefusalIs
  <2>4. Grown(drafts, drafts') /\ drafts' \in Seq(Drafts) /\ Has(drafts', w.id, w.rev)
        /\ \A i \in DOMAIN drafts' : drafts'[i].revisions # <<>>
    BY <1>1, <1>2, <2>2 DEF Grown
  <2> HIDE DEF v
  <2> QED BY <1>3, <2>1, <2>2, <2>3, <2>4 DEF Refusing
<1> QED BY <1>0, <1>4, <1>5, <1>6 DEF ServeManage

LEMMA ServeKeeps ==
  ASSUME PageInv, Serve
  PROVE  PageInv'
<1>1. UNCHANGED <<m, page, active, front, dialog, recovery, listing>>
  BY DEF Serve
<1>2. PICK f \in Flows :
        /\ Busy(f) /\ ~flows[f].served /\ flows[f].step # "review"
        /\ CASE flows[f].step = "save" -> ServeSave(f)
             [] f = "run" -> ServeRun
             [] f = "manage" -> ServeManage
             [] OTHER -> ServeRead(f)
  BY DEF Serve
<1>3. flows[f].step \in StepsOf(f)
  BY <1>2, HandlerFacts DEF HandlerOK, Remembers
<1>4. CASE flows[f].step = "save"
  <2>1. f \notin {"run", "manage"}
    BY <1>3, <1>4 DEF StepsOf
  <2> QED BY <1>1, <1>2, <1>4, <2>1, ServeSaveKeeps
<1>5. CASE f = "run"
  BY <1>1, <1>2, <1>3, <1>5, ServeRunKeeps DEF StepsOf
<1>6. CASE f = "manage"
  BY <1>1, <1>2, <1>3, <1>6, ServeManageKeeps DEF StepsOf
<1>7. CASE flows[f].step # "save" /\ f \notin {"run", "manage"}
  BY <1>1, <1>2, <1>7, ServeReadKeeps
<1> QED BY <1>4, <1>5, <1>6, <1>7

(***************************************************************************)
(* Other tabs and the schema.                                              *)
(***************************************************************************)
LEMMA OutsideKeeps ==
  ASSUME PageInv, UNCHANGED <<m, runs, page, active, front, flows, dialog, recovery, listing>>, schema' \in Nat,
         drafts' \in Seq(Drafts), Grown(drafts, drafts'), \A i \in DOMAIN drafts' : drafts'[i].revisions # <<>>
  PROVE  PageInv'
<1>1. Shapes'
  <2>1. \A i \in 1 .. MaxDrafts : listing[i] > 0 => i \in DOMAIN drafts' /\ listing[i] <= Len(drafts'[i].revisions)
    <3> SUFFICES ASSUME NEW i \in 1 .. MaxDrafts, listing[i] > 0
                 PROVE  i \in DOMAIN drafts' /\ listing[i] <= Len(drafts'[i].revisions)
      OBVIOUS
    <3>1. i \in DOMAIN drafts /\ listing[i] <= Len(drafts[i].revisions) /\ listing[i] \in Nat
      BY DEF PageInv, Shapes
    <3>2. i \in DOMAIN drafts' /\ Len(drafts[i].revisions) <= Len(drafts'[i].revisions)
      BY <3>1, GrownKeeps DEF PageInv, Shapes
    <3>3. drafts[i] \in Drafts /\ drafts'[i] \in Drafts
      BY <3>1, <3>2 DEF PageInv, Shapes
    <3>4. Len(drafts[i].revisions) \in Nat /\ Len(drafts'[i].revisions) \in Nat
      BY <3>3 DEF Drafts
    <3> QED BY <3>1, <3>2, <3>4
  <2> QED BY <2>1 DEF PageInv, Shapes
<1>2. Forward(m, m') /\ m' \in Documents
  BY Unchanged
<1>3. HandlersOK'
  <2>1. Shapes /\ HandlersOK /\ flows' \in [Flows -> Handlers \cup {Idle}] /\ {} \in SUBSET Flows
    BY DEF PageInv, Shapes
  <2>2. \A f \in {} : flows'[f] = Idle \/ HandlerOK(f, flows'[f], m', drafts')
    OBVIOUS
  <2>3. \A f \in Flows \ {} : flows'[f] = flows[f]
    OBVIOUS
  <2> QED BY <1>2, <2>1, <2>2, <2>3, HandlersKeep
<1>4. PlacesOK' /\ DialogOK' /\ RunsOK'
  BY DEF PageInv, PlacesOK, DialogOK, RunsOK, RunsAreAsSeen, Busy
<1>5. DocumentOK(m, drafts)'
  BY DocumentStays DEF PageInv, Shapes
<1> QED BY <1>1, <1>3, <1>4, <1>5 DEF PageInv

LEMMA OtherTabKeeps ==
  ASSUME PageInv, OtherTab
  PROVE  PageInv'
<1>1. drafts \in Seq(Drafts) /\ schema \in Nat /\ \A i \in DOMAIN drafts : drafts[i].revisions # <<>>
  BY DEF PageInv, Shapes
<1>2. PICK id \in DOMAIN drafts, d \in Docs : Revise(id, [doc |-> d, schema |-> schema])
  BY DEF OtherTab
<1>3. [doc |-> d, schema |-> schema] \in Contents
  BY <1>1 DEF Contents
<1>4. /\ drafts' \in Seq(Drafts) /\ Grown(drafts, drafts') /\ DOMAIN drafts' = DOMAIN drafts
      /\ drafts'[id].revisions # <<>> /\ \A i \in DOMAIN drafts \ {id} : drafts'[i] = drafts[i]
  BY <1>1, <1>2, <1>3, RevisedDrafts
<1>5. \A i \in DOMAIN drafts' : drafts'[i].revisions # <<>>
  BY <1>1, <1>4
<1>6. UNCHANGED <<m, runs, page, active, front, flows, dialog, recovery, listing>> /\ schema' \in Nat
  BY <1>1 DEF OtherTab
<1> QED BY <1>4, <1>5, <1>6, OutsideKeeps

LEMMA MigrateKeeps ==
  ASSUME PageInv, Migrate
  PROVE  PageInv'
<1>1. /\ drafts' \in Seq(Drafts) /\ schema' \in Nat /\ Grown(drafts, drafts')
      /\ \A i \in DOMAIN drafts' : drafts'[i].revisions # <<>>
  BY DEF PageInv, Shapes, Migrate, Grown
<1>2. UNCHANGED <<m, runs, page, active, front, flows, dialog, recovery, listing>>
  BY DEF Migrate
<1> QED BY <1>1, <1>2, OutsideKeeps

(***************************************************************************)
(* Editing, and the requests that begin.                                   *)
(***************************************************************************)
\* An edit, and what else counts as one.
LEMMA EditIs ==
  ASSUME PageInv, NEW d \in Docs, NEW s \in Nat, NEW y, y = [touch(m) EXCEPT !.doc = d] \/ y = [touch(m) EXCEPT !.schema = s]
  PROVE  y \in Documents /\ DocumentOK(y, drafts) /\ Forward(m, y) /\ y.id = m.id
<1>1. m \in Documents /\ DocumentOK(m, drafts)
  BY DEF PageInv, Shapes
<1>2. /\ y.id = m.id /\ y.epoch = m.epoch + 1 /\ y.savedEpoch = m.savedEpoch /\ y.saved = m.saved
      /\ y.check = <<>> /\ y.cache = m.cache
  BY <1>1 DEF touch, Documents
<1>3. y \in Documents
  <2>1. touch(m) \in Documents
    <3>1. <<>> \in Optional(Contents) /\ m.epoch + 1 \in Nat
      BY <1>1 DEF Optional, Documents
    <3>2. \A e \in Nat, c \in Optional(Contents) : [m EXCEPT !.epoch = e, !.check = c] \in Documents
      BY <1>1 DEF Documents
    <3> QED BY <3>1, <3>2 DEF touch
  <2> QED BY <2>1 DEF Documents
<1>4. y.saved \in {m.saved, <<>>}
  BY <1>2
<1> QED BY <1>1, <1>2, <1>3, <1>4, DocumentTouched

LEMMA EditKeeps ==
  ASSUME PageInv, Edit
  PROVE  PageInv'
<1>1. PICK d \in Docs : m' = [touch(m) EXCEPT !.doc = d]
  BY DEF Edit
<1>2. m' \in Documents /\ DocumentOK(m', drafts) /\ Forward(m, m') /\ m'.id = m.id
  BY <1>1, EditIs DEF PageInv, Shapes
<1>3. "ask" \in Flows \ {"plan"} /\ flows["ask"] = Idle
  BY IdleFacts DEF Edit, NoModal, Flows
<1>4. flows' = [flows EXCEPT !["ask"] = Idle]
  BY <1>3 DEF Edit, PageInv, Shapes
<1>5. UNCHANGED <<drafts, schema, runs, page, active, dialog, recovery, listing>>
  BY DEF Edit
<1> QED BY <1>2, <1>3, <1>4, <1>5, StepKeeps

\* Only the handler f changes: it ends, or goes on as w.
LEMMA HandlerSteps ==
  ASSUME PageInv, UNCHANGED <<m, drafts, schema, runs, page, active, dialog, recovery, listing>>,
         NEW f \in Flows \ {"plan", "route"}, NEW w \in Handlers \cup {Idle}, flows' = [flows EXCEPT ![f] = w],
         w = Idle \/ HandlerOK(f, w, m, drafts), f = "op" /\ w # Idle => ~dialog.open
  PROVE  PageInv'
<1>1. m' \in Documents /\ DocumentOK(m', drafts) /\ Forward(m, m') /\ m'.id = m.id
  BY Unchanged
<1>2. w = Idle \/ HandlerOK(f, w, m', drafts)
  OBVIOUS
<1>3. f \in Flows \ {"plan"} /\ f # "route"
  OBVIOUS
<1> QED BY <1>1, <1>2, <1>3, StepKeeps

LEMMA StartOperationKeeps ==
  ASSUME PageInv, NEW kind \in {"save", "check", "preview", "schema", "document", "summary"}, StartOperation(kind)
  PROVE  PageInv'
<1>1. UNCHANGED <<m, drafts, schema, runs, page, active, dialog, recovery, listing>> /\ ~dialog.open
  BY DEF StartOperation, NoModal
<1>2. PICK step \in {"save", "check", "preview", "schema", "parse"} :
        Begin("op", Flow(step, kind)) /\ (step = "parse" => kind = "document")
  BY DEF StartOperation
<1>3. step \in Steps /\ step \in StepsOf("op") /\ kind \in Kinds /\ "op" \in Flows \ {"plan", "route"}
  BY DEF Steps, StepsOf, Kinds, Flows
<1>4. active \in Nat /\ drafts \in Seq(Drafts) /\ m \in Documents /\ DocumentOK(m, drafts)
  BY DEF PageInv, Shapes
<1> DEFINE w == Flow(step, kind)
<1>0. Begun(w, "op", m, drafts, step, kind)
  BY <1>3, <1>4, HandlerBegins DEF Flow
<1>5. w \in Handlers /\ Remembers("op", w, m, drafts) /\ w.step = step /\ w.kind = kind
  BY <1>0 DEF Begun
<1>6. Carries("op", w, m, drafts)
  BY <1>2, <1>5 DEF Carries
<1>7. flows' = [flows EXCEPT !["op"] = w]
  BY <1>2 DEF Begin
<1> HIDE DEF w
<1> QED BY <1>1, <1>3, <1>5, <1>6, <1>7, HandlerSteps DEF HandlerOK

\* A draft is asked for, after a save or at once.
LEMMA OpenDraftKeeps ==
  ASSUME PageInv, OpenDraft
  PROVE  PageInv'
<1>1. UNCHANGED <<m, drafts, schema, runs, page, active, dialog, recovery, listing>> /\ "open" \in Flows \ {"plan", "route"}
  BY DEF OpenDraft, Flows
<1>2. PICK id \in DOMAIN drafts :
        IF Dirty(m) /\ m.doc # Empty THEN Begin("open", [Flow("save", "open") EXCEPT !.got = <<id>>])
        ELSE Begin("open", [Flow("get", "open") EXCEPT !.id = id])
  BY DEF OpenDraft
<1>3. active \in Nat /\ drafts \in Seq(Drafts) /\ m \in Documents /\ DocumentOK(m, drafts) /\ id \in Nat
  BY DEF PageInv, Shapes
<1>4. {"save", "get"} \subseteq Steps /\ {"save", "get"} \subseteq StepsOf("open") /\ "open" \in Kinds
  BY DEF Steps, StepsOf, Kinds
<1>5. CASE Dirty(m) /\ m.doc # Empty
  <2> DEFINE b == Flow("save", "open")
             w == [b EXCEPT !.got = <<id>>]
  <2>0. Begun(b, "open", m, drafts, "save", "open")
    BY <1>3, <1>4, HandlerBegins DEF Flow
  <2>1. b \in Handlers /\ Remembers("open", b, m, drafts) /\ b.step = "save" /\ b.ok = FALSE
    BY <2>0 DEF Begun
  <2> HIDE DEF b
  <2>2. <<id>> \in Gots
    BY <1>3 DEF Gots, Optional
  <2>3. w \in Handlers
    BY <2>1, <2>2 DEF Handlers, Gots
  <2>4. /\ w.step = b.step /\ w.ticket = b.ticket /\ w.served = b.served /\ w.ok = b.ok /\ w.doc = b.doc /\ w.schema = b.schema
        /\ w.id = b.id /\ w.rev = b.rev /\ w.got = <<id>>
    BY <2>1 DEF Handlers
  <2>5. flows' = [flows EXCEPT !["open"] = w]
    BY <1>2, <1>5 DEF Begin, b
  <2> HIDE DEF w
  <2>6. Remembers("open", w, m, drafts)
    BY <2>1, <2>4 DEF Remembers, Holds
  <2>7. Carries("open", w, m, drafts)
    BY <2>1, <2>4 DEF Carries
  <2> QED BY <1>1, <2>3, <2>5, <2>6, <2>7, HandlerSteps DEF HandlerOK
<1>6. CASE ~(Dirty(m) /\ m.doc # Empty)
  <2> DEFINE b == Flow("get", "open")
             w == [b EXCEPT !.id = id]
  <2>0. Begun(b, "open", m, drafts, "get", "open")
    BY <1>3, <1>4, HandlerBegins DEF Flow
  <2>1. b \in Handlers /\ Remembers("open", b, m, drafts) /\ b.step = "get" /\ b.kind = "open" /\ b.ok = FALSE
    BY <2>0 DEF Begun
  <2> HIDE DEF b
  <2>2. w \in Handlers
    BY <1>3, <2>1 DEF Handlers
  <2>3. /\ w.step = b.step /\ w.kind = b.kind /\ w.ticket = b.ticket /\ w.served = b.served /\ w.ok = b.ok /\ w.doc = b.doc
        /\ w.schema = b.schema /\ w.id = id
    BY <2>1 DEF Handlers
  <2>4. flows' = [flows EXCEPT !["open"] = w]
    BY <1>2, <1>6 DEF Begin, b
  <2> HIDE DEF w
  <2>5. Remembers("open", w, m, drafts)
    BY <2>1, <2>3 DEF Remembers
  <2>6. m.doc = Empty \/ Somewhere(drafts, m.doc)
    BY <1>3, <1>6 DEF DocumentOK
  <2>7. Carries("open", w, m, drafts)
    BY <2>1, <2>3, <2>6 DEF Carries
  <2> QED BY <1>1, <2>2, <2>4, <2>5, <2>7, HandlerSteps DEF HandlerOK
<1> QED BY <1>5, <1>6

LEMMA CloseListKeeps ==
  ASSUME PageInv, CloseList
  PROVE  PageInv'
<1>1. UNCHANGED <<m, drafts, schema, runs, page, active, dialog, recovery, listing>> /\ "open" \in Flows \ {"plan", "route"}
  BY DEF CloseList, Flows
<1>2. PICK b \in Handlers : b = flows["open"] /\ HandlerOK("open", b, m, drafts)
  BY <1>1, HandlerFacts DEF CloseList
<1> DEFINE w == [b EXCEPT !.shown = FALSE]
<1>3. w \in Handlers /\ Same(b, w)
  BY DEF Handlers, Same
<1>4. flows' = [flows EXCEPT !["open"] = w]
  BY <1>2 DEF CloseList
<1> HIDE DEF w
<1>5. HandlerOK("open", w, m, drafts)
  <2>1. drafts \in Seq(Drafts) /\ Grown(drafts, drafts) /\ m \in Documents /\ Forward(m, m)
    BY DEF PageInv, Shapes, Grown, Forward
  <2> QED BY <1>2, <1>3, <2>1, HandlerStays
<1> QED BY <1>1, <1>3, <1>4, <1>5, HandlerSteps

(***************************************************************************)
(* Suggestions, and the page of saved configurations.                      *)
(***************************************************************************)
LEMMA AskKeeps ==
  ASSUME PageInv, NEW step \in {"suggest", "providers", "review"}, NEW kind \in {"ai", "settings", "rule"}, Ask(step, kind)
  PROVE  PageInv'
<1>1. UNCHANGED <<m, drafts, schema, runs, page, active, dialog, recovery, listing>> /\ "ask" \in Flows \ {"plan", "route"}
  BY DEF Ask, Flows
<1>2. active \in Nat /\ drafts \in Seq(Drafts) /\ m \in Documents /\ DocumentOK(m, drafts)
  BY DEF PageInv, Shapes
<1>3. step \in Steps /\ step \in StepsOf("ask") /\ kind \in Kinds
  BY DEF Steps, StepsOf, Kinds
<1> DEFINE w == Flow(step, kind)
<1>0. Begun(w, "ask", m, drafts, step, kind)
  BY <1>2, <1>3, HandlerBegins DEF Flow
<1>4. w \in Handlers /\ Remembers("ask", w, m, drafts)
  BY <1>0 DEF Begun
<1>5. Carries("ask", w, m, drafts)
  BY DEF Carries
<1>6. flows' = [flows EXCEPT !["ask"] = w]
  BY DEF Ask, Begin
<1> HIDE DEF w
<1> QED BY <1>1, <1>4, <1>5, <1>6, HandlerSteps DEF HandlerOK

LEMMA AnswerAskKeeps ==
  ASSUME PageInv, AnswerAsk
  PROVE  PageInv'
<1>1. UNCHANGED <<m, drafts, schema, runs, page, active, dialog, recovery, listing>> /\ "ask" \in Flows \ {"plan", "route"}
  BY DEF AnswerAsk, Flows
<1>2. Busy("ask")
  BY DEF AnswerAsk, Outcomes
<1>3. PICK b \in Handlers : b = flows["ask"] /\ HandlerOK("ask", b, m, drafts)
  BY <1>1, <1>2, HandlerFacts
<1> DEFINE w == [b EXCEPT !.step = "review", !.served = FALSE]
<1>4. w \in Handlers /\ w.step = "review" /\ w.ticket = b.ticket /\ w.doc = b.doc /\ w.schema = b.schema
  BY DEF Handlers, Steps
<1>5. flows' = [flows EXCEPT !["ask"] = w] \/ flows' = [flows EXCEPT !["ask"] = Idle]
  BY <1>3 DEF AnswerAsk
<1> HIDE DEF w
<1>6. Remembers("ask", w, m, drafts)
  <2>1. b.step # "schema" /\ w.step \in StepsOf("ask")
    BY <1>3, <1>4 DEF HandlerOK, Remembers, StepsOf
  <2> QED BY <1>3, <1>4, <2>1 DEF HandlerOK, Remembers
<1>7. Carries("ask", w, m, drafts)
  BY DEF Carries
<1>8. HandlerOK("ask", w, m, drafts)
  BY <1>6, <1>7 DEF HandlerOK
<1> QED BY <1>1, <1>4, <1>5, <1>8, HandlerSteps

LEMMA ApplyKeeps ==
  ASSUME PageInv, Apply
  PROVE  PageInv'
<1>1. PICK d \in Docs : m' = [touch(m) EXCEPT !.doc = d]
  BY DEF Apply
<1>2. m' \in Documents /\ DocumentOK(m', drafts) /\ Forward(m, m') /\ m'.id = m.id
  BY <1>1, EditIs DEF PageInv, Shapes
<1>3. "ask" \in Flows \ {"plan"} /\ flows' = [flows EXCEPT !["ask"] = Idle]
      /\ UNCHANGED <<drafts, schema, runs, page, active, dialog, recovery, listing>>
  BY DEF Apply, End, Flows
<1> QED BY <1>2, <1>3, StepKeeps

LEMMA CloseAskKeeps ==
  ASSUME PageInv, CloseAsk
  PROVE  PageInv'
<1>1. "ask" \in Flows \ {"plan", "route"} /\ flows' = [flows EXCEPT !["ask"] = Idle]
      /\ UNCHANGED <<m, drafts, schema, runs, page, active, dialog, recovery, listing>>
  BY DEF CloseAsk, End, Flows
<1> QED BY <1>1, HandlerSteps

LEMMA ListKeeps ==
  ASSUME PageInv, List
  PROVE  PageInv'
<1>1. "ask" \in Flows \ {"plan"} /\ flows["ask"] \in Handlers \cup {Idle} /\ flows' = [flows EXCEPT !["ask"] = flows["ask"]]
      /\ UNCHANGED <<drafts, schema, runs, page, active, dialog, recovery>> /\ listing' = Listed
  BY DEF List, Flows, PageInv, Shapes
<1>2. m' \in Documents /\ DocumentOK(m', drafts) /\ Forward(m, m') /\ m'.id = m.id /\ m' = m
  BY Unchanged DEF List
<1>3. flows["ask"] = Idle \/ HandlerOK("ask", flows["ask"], m', drafts)
  BY <1>1, <1>2, HandlerFacts, IdleFacts
<1> QED BY <1>1, <1>2, <1>3, StepKeeps

LEMMA ManageKeeps ==
  ASSUME PageInv, NEW step \in {"rename", "delete"}, Manage(step)
  PROVE  PageInv'
<1>1. UNCHANGED <<m, drafts, schema, runs, page, active, dialog, recovery, listing>> /\ "manage" \in Flows \ {"plan", "route"}
  BY DEF Manage, Flows
<1>2. PICK id \in 1 .. MaxDrafts :
        /\ listing[id] > 0 /\ Begin("manage", [Flow(step, "manage") EXCEPT !.id = id, !.rev = listing[id]])
  BY DEF Manage
<1>3. active \in Nat /\ drafts \in Seq(Drafts) /\ m \in Documents /\ DocumentOK(m, drafts) /\ id \in Nat /\ listing[id] \in Nat
  BY DEF PageInv, Shapes
<1>4. step \in Steps /\ step \in StepsOf("manage") /\ "manage" \in Kinds
  BY DEF Steps, StepsOf, Kinds
<1> DEFINE b == Flow(step, "manage")
           w == [b EXCEPT !.id = id, !.rev = listing[id]]
<1>0. Begun(b, "manage", m, drafts, step, "manage")
  BY <1>3, <1>4, HandlerBegins DEF Flow
<1>5. b \in Handlers /\ Remembers("manage", b, m, drafts) /\ b.step = step /\ b.ok = FALSE
  BY <1>0 DEF Begun
<1>6. flows' = [flows EXCEPT !["manage"] = w]
  BY <1>2 DEF Begin
<1> HIDE DEF b
<1>7. /\ w \in Handlers /\ w.step = step /\ w.ticket = b.ticket /\ w.ok = FALSE /\ w.doc = b.doc /\ w.schema = b.schema
      /\ w.id = id /\ w.rev = listing[id]
  <2>1. w \in Handlers
    BY <1>3, <1>5 DEF Handlers
  <2> QED BY <1>5, <2>1 DEF Handlers
<1> HIDE DEF w
<1>8. Has(drafts, id, listing[id])
  <2>1. id \in DOMAIN drafts /\ listing[id] <= Len(drafts[id].revisions) /\ drafts[id] \in Drafts
    BY <1>2 DEF PageInv, Shapes
  <2>2. drafts[id].revisions \in Seq(Contents)
    BY <2>1 DEF Drafts
  <2> QED BY <1>2, <1>3, <2>1, <2>2 DEF Has
<1>9. Remembers("manage", w, m, drafts)
  BY <1>5, <1>7 DEF Remembers
<1>10. Carries("manage", w, m, drafts)
  BY <1>7, <1>8 DEF Carries
<1>11. HandlerOK("manage", w, m, drafts)
  BY <1>9, <1>10 DEF HandlerOK
<1> QED BY <1>1, <1>6, <1>7, <1>11, HandlerSteps

\* What the page hears of a draft.
LEMMA HeardIs ==
  ASSUME PageInv, NEW w \in Handlers, Has(drafts, w.id, w.rev)
  PROVE  LET y == Heard(w)
         IN  /\ y \in Documents /\ DocumentOK(y, drafts) /\ Forward(m, y)
             /\ y.id = m.id /\ y.epoch = m.epoch /\ y.doc = m.doc
<1> DEFINE y == Heard(w)
<1>0. m \in Documents /\ DocumentOK(m, drafts) /\ w.rev \in Nat
  BY DEF PageInv, Shapes, Handlers
<1>1. CASE y = m
  BY <1>0, <1>1 DEF Forward
<1>2. CASE m.saved # <<>> /\ m.saved[1].id = w.id /\ w.step = "rename"
  <2>0. PICK n \in Names : m.saved = <<n>>
    BY <1>0, <1>2 DEF Documents, Optional
  <2> DEFINE e == [n EXCEPT !.rev = w.rev]
  <2>1. e \in Names /\ e.id = w.id /\ e.doc = n.doc /\ e.rev = w.rev
    BY <1>0, <1>2, <2>0 DEF Names
  <2>2. <<e>> \in Optional(Names) /\ m.lifecycle + 1 \in Nat
    BY <1>0, <2>1 DEF Optional, Documents
  <2>3. [<<n>> EXCEPT ![1] = [n EXCEPT !.rev = w.rev]] = <<e>>
    OBVIOUS
  <2>4. y = [m EXCEPT !.lifecycle = m.lifecycle + 1, !.saved = <<e>>]
    <3>1. y = [m EXCEPT !.lifecycle = @ + 1, !.saved[1].rev = w.rev]
      BY <1>2 DEF Heard
    <3>2. y = [m EXCEPT !.lifecycle = m.lifecycle + 1,
                        !.saved = [m.saved EXCEPT ![1] = [m.saved[1] EXCEPT !.rev = w.rev]]]
      BY <1>0, <3>1 DEF Documents
    <3>3. [m.saved EXCEPT ![1] = [m.saved[1] EXCEPT !.rev = w.rev]] = <<e>>
      BY <2>0, <2>3
    <3> QED BY <3>2, <3>3
  <2> HIDE DEF e
  <2>5. \A l \in Nat, s \in Optional(Names) : [m EXCEPT !.lifecycle = l, !.saved = s] \in Documents
    BY <1>0 DEF Documents
  <2>6. y \in Documents
    BY <2>2, <2>4, <2>5
  <2>7. /\ y.id = m.id /\ y.epoch = m.epoch /\ y.doc = m.doc /\ y.schema = m.schema /\ y.savedEpoch = m.savedEpoch
        /\ y.saved = <<e>> /\ y.check = m.check /\ y.cache = m.cache
    BY <1>0, <2>4 DEF Documents
  <2> HIDE DEF y
  <2>8. /\ m.saved[1] = n /\ m.saved # <<>> /\ y.saved # <<>> /\ y.saved[1].id = m.saved[1].id
        /\ y.saved[1].doc = m.saved[1].doc /\ y.saved[1].rev = w.rev /\ m.saved[1].id = w.id
    BY <1>2, <2>0, <2>1, <2>7
  <2>9. (Dirty(y) <=> Dirty(m)) /\ Forward(m, y)
    BY <2>7 DEF Dirty, Forward
  <2>10. DocumentOK(y, drafts)
    BY <1>0, <2>7, <2>8, <2>9 DEF DocumentOK
  <2> QED BY <2>6, <2>7, <2>9, <2>10 DEF y
<1>3. CASE m.saved # <<>> /\ m.saved[1].id = w.id /\ w.step = "delete"
  <2>1. y = [m EXCEPT !.lifecycle = @ + 1, !.saved = <<>>, !.savedEpoch = -1]
    BY <1>3 DEF Heard
  <2>2. <<>> \in Optional(Names) /\ m.lifecycle + 1 \in Nat /\ -1 \in Int /\ m.epoch \in Nat
    BY <1>0 DEF Optional, Documents
  <2>3. \A l \in Nat, s \in Optional(Names), e \in Int : [m EXCEPT !.lifecycle = l, !.saved = s, !.savedEpoch = e] \in Documents
    BY <1>0 DEF Documents
  <2>4. y \in Documents
    BY <2>1, <2>2, <2>3
  <2>5. /\ y.id = m.id /\ y.epoch = m.epoch /\ y.doc = m.doc /\ y.schema = m.schema /\ y.savedEpoch = -1
        /\ y.saved = <<>> /\ y.check = m.check /\ y.cache = m.cache
    BY <1>0, <2>1 DEF Documents
  <2> HIDE DEF y
  <2>6. Dirty(y) /\ Forward(m, y) /\ y.savedEpoch \in -1 .. y.epoch
    BY <2>2, <2>5 DEF Dirty, Forward
  <2>7. DocumentOK(y, drafts)
    BY <1>0, <2>5, <2>6 DEF DocumentOK
  <2> QED BY <2>4, <2>5, <2>6, <2>7 DEF y
<1>4. y = m \/ (m.saved # <<>> /\ m.saved[1].id = w.id /\ w.step \in {"rename", "delete"})
  BY DEF Heard
<1> QED BY <1>1, <1>2, <1>3, <1>4

LEMMA AnswerManageKeeps ==
  ASSUME PageInv, AnswerManage
  PROVE  PageInv'
<1>1. Busy("manage") /\ "manage" \in Flows \ {"plan"} /\ flows' = [flows EXCEPT !["manage"] = Idle]
      /\ (listing' = listing \/ listing' = Listed) /\ UNCHANGED <<drafts, schema, runs, page, active, dialog, recovery>>
  BY DEF AnswerManage, Outcomes, End, Flows
<1>2. PICK w \in Handlers : w = flows["manage"] /\ HandlerOK("manage", w, m, drafts)
  BY <1>1, HandlerFacts
<1>3. Has(drafts, w.id, w.rev)
  BY <1>2 DEF HandlerOK, Carries
<1>4. m' = m \/ m' = Heard(w)
  BY <1>2 DEF AnswerManage
<1>5. m' \in Documents /\ DocumentOK(m', drafts) /\ Forward(m, m') /\ m'.id = m.id
  <2>1. CASE m' = m
    BY <2>1, Unchanged
  <2>2. CASE m' = Heard(w)
    BY <1>3, <2>2, HeardIs
  <2> QED BY <1>4, <2>1, <2>2
<1> QED BY <1>1, <1>5, StepKeeps

(***************************************************************************)
(* The execution dialog, and the page.                                     *)
(***************************************************************************)
Kept(w, v) == v = w \/ (w # Idle /\ v # Idle /\ Same(w, v))

\* The server stays; the handlers of C end or go on.
LEMMA MovesKeep ==
  ASSUME PageInv, UNCHANGED <<drafts, schema, runs, listing>>,
         m' \in Documents, DocumentOK(m', drafts), Forward(m, m'),
         page' \in {"loading", "workbench", "away"}, active' \in Nat, dialog' \in Dialogs \cup {Closed},
         recovery' \in Optional(Recoveries), flows' \in [Flows -> Handlers \cup {Idle}], NEW C \in SUBSET Flows,
         \A f \in C : flows'[f] = Idle \/ HandlerOK(f, flows'[f], m', drafts), \A f \in Flows \ C : Kept(flows[f], flows'[f]),
         PlacesOK', DialogOK'
  PROVE  PageInv'
<1>1. Shapes' /\ DocumentOK(m, drafts)'
  BY DEF PageInv, Shapes
<1>2. HandlersOK'
  <2>1. Grown(drafts, drafts') /\ drafts' \in Seq(Drafts)
    BY DEF Grown, PageInv, Shapes
  <2>2. \A f \in C : flows'[f] = Idle \/ HandlerOK(f, flows'[f], m', drafts')
    OBVIOUS
  <2>3. \A f \in Flows \ C : flows'[f] = flows[f] \/ (flows[f] # Idle /\ flows'[f] # Idle /\ Same(flows[f], flows'[f]))
    BY DEF Kept
  <2> QED BY <2>1, <2>2, <2>3, HandlersKeep DEF PageInv
<1>3. RunsOK'
  BY DEF PageInv, RunsOK, RunsAreAsSeen
<1> QED BY <1>1, <1>2, <1>3 DEF PageInv

\* The document stays as well.
LEMMA PageSteps ==
  ASSUME PageInv, UNCHANGED <<m, drafts, schema, runs, listing>>,
         page' \in {"loading", "workbench", "away"}, active' \in Nat, dialog' \in Dialogs \cup {Closed},
         recovery' \in Optional(Recoveries), flows' \in [Flows -> Handlers \cup {Idle}], NEW C \in SUBSET Flows,
         \A f \in C : flows'[f] = Idle \/ HandlerOK(f, flows'[f], m, drafts), \A f \in Flows \ C : Kept(flows[f], flows'[f]),
         PlacesOK', DialogOK'
  PROVE  PageInv'
<1>1. m' \in Documents /\ Forward(m, m') /\ DocumentOK(m', drafts)
  BY Unchanged
<1>2. \A f \in C : flows'[f] = Idle \/ HandlerOK(f, flows'[f], m', drafts)
  OBVIOUS
<1> QED BY <1>1, <1>2, MovesKeep

LEMMA OrphanedIs ==
  ASSUME NEW fs \in [Flows -> Handlers \cup {Idle}]
  PROVE  /\ Orphaned(fs) \in [Flows -> Handlers \cup {Idle}]
         /\ \A f \in Flows : Kept(fs[f], Orphaned(fs)[f])
         /\ \A f \in Flows \ {"plan", "run"} : Orphaned(fs)[f] = fs[f]
         /\ Orphaned(fs)["plan"].step # "idle" => ~Orphaned(fs)["plan"].shown
<1>1. ASSUME NEW f \in Flows
      PROVE  /\ Orphaned(fs)[f] \in Handlers \cup {Idle} /\ Kept(fs[f], Orphaned(fs)[f])
             /\ f \notin {"plan", "run"} => Orphaned(fs)[f] = fs[f]
             /\ f = "plan" /\ Orphaned(fs)[f].step # "idle" => ~Orphaned(fs)[f].shown
  <2>1. CASE f \in {"plan", "run"} /\ fs[f].step # "idle"
    <3>1. PICK w \in Handlers : w = fs[f]
      BY <2>1, BusyMeans
    <3> DEFINE v == [w EXCEPT !.shown = FALSE]
    <3>2. v \in Handlers /\ Same(w, v) /\ v.shown = FALSE /\ v.step = w.step
      BY DEF Handlers, Same
    <3>3. Orphaned(fs)[f] = v
      BY <2>1, <3>1 DEF Orphaned
    <3> HIDE DEF v
    <3>4. w # Idle /\ v # Idle
      BY <2>1, <3>1, <3>2 DEF Idle
    <3> QED BY <2>1, <3>1, <3>2, <3>3, <3>4 DEF Kept
  <2>2. CASE ~(f \in {"plan", "run"} /\ fs[f].step # "idle")
    <3>1. Orphaned(fs)[f] = fs[f]
      BY <2>2 DEF Orphaned
    <3> QED BY <2>2, <3>1 DEF Kept
  <2> QED BY <2>1, <2>2
<1>2. Orphaned(fs) \in [Flows -> Handlers \cup {Idle}]
  <2>1. Orphaned(fs) = [f \in Flows |-> Orphaned(fs)[f]]
    BY DEF Orphaned
  <2> QED BY <1>1, <2>1
<1>3. "plan" \in Flows
  BY DEF Flows
<1> QED BY <1>1, <1>2, <1>3

LEMMA UnmountedIs ==
  ASSUME NEW fs \in [Flows -> Handlers \cup {Idle}], fs["open"] = flows["open"]
  PROVE  /\ Unmounted(fs) \in [Flows -> Handlers \cup {Idle}]
         /\ \A f \in Flows \ {"ask"} : Kept(fs[f], Unmounted(fs)[f])
         /\ \A f \in Flows \ {"plan", "run", "open", "ask"} : Unmounted(fs)[f] = fs[f]
         /\ Unmounted(fs)["ask"] = Idle
         /\ Unmounted(fs)["plan"].step # "idle" => ~Unmounted(fs)["plan"].shown
<1> DEFINE os == Orphaned(fs)
<1>1. /\ os \in [Flows -> Handlers \cup {Idle}] /\ (\A f \in Flows : Kept(fs[f], os[f]))
      /\ (\A f \in Flows \ {"plan", "run"} : os[f] = fs[f]) /\ (os["plan"].step # "idle" => ~os["plan"].shown)
  BY OrphanedIs
<1>2. {"open", "ask", "plan"} \subseteq Flows
  BY DEF Flows
<1>3. PICK v : v = (IF Busy("open") THEN [os["open"] EXCEPT !.shown = FALSE] ELSE Idle)
  OBVIOUS
<1>4. Unmounted(fs) = [[os EXCEPT !["open"] = v] EXCEPT !["ask"] = Idle]
  BY <1>3 DEF Unmounted
<1>5. v \in Handlers \cup {Idle} /\ Kept(fs["open"], v)
  <2>0. os["open"] = fs["open"] /\ fs["open"] \in Handlers \cup {Idle}
    BY <1>1, <1>2
  <2>1. CASE Busy("open")
    <3>1. PICK w \in Handlers : w = fs["open"]
      BY <2>0, <2>1, BusyMeans DEF Busy
    <3>2. v = [w EXCEPT !.shown = FALSE]
      BY <1>3, <2>0, <2>1, <3>1
    <3>3. v \in Handlers /\ Same(w, v)
      BY <3>2 DEF Handlers, Same
    <3>4. w # Idle /\ v # Idle
      BY <3>1, <3>3, BusyMeans DEF Idle, Handlers, Steps
    <3> QED BY <3>1, <3>3, <3>4 DEF Kept
  <2>2. CASE ~Busy("open")
    <3>1. v = Idle /\ fs["open"] = Idle
      BY <1>3, <2>0, <2>2, BusyMeans DEF Busy
    <3> QED BY <3>1 DEF Kept
  <2> QED BY <2>1, <2>2
<1> HIDE DEF os
<1>6. /\ Unmounted(fs) \in [Flows -> Handlers \cup {Idle}] /\ Unmounted(fs)["open"] = v /\ Unmounted(fs)["ask"] = Idle
      /\ \A f \in Flows \ {"open", "ask"} : Unmounted(fs)[f] = os[f]
  BY <1>1, <1>2, <1>4, <1>5
<1> QED BY <1>1, <1>2, <1>5, <1>6

LEMMA OpenDialog ==
  ASSUME PageInv, dialog.open
  PROVE  dialog \in Dialogs /\ page = "workbench" /\ ~Busy("op")
BY DEF PageInv, Shapes, PlacesOK, Closed

LEMMA ContextIs ==
  ASSUME PageInv, NEW state \in {"checking", "blocked", "ok", "reviewed", "pending"}
  PROVE  LET c == Context(state, m.doc)
         IN c \in Optional(Recoveries) /\ c # <<>> /\ c[1].epoch = m.epoch /\ c[1].doc = m.doc /\ m.epoch \in Nat
<1>1. [epoch |-> m.epoch, lifecycle |-> m.lifecycle, state |-> state, doc |-> m.doc] \in Recoveries /\ m.epoch \in Nat
  BY DEF PageInv, Shapes, Documents, Recoveries
<1> QED BY <1>1 DEF Context, Optional

LEMMA TicketIs ==
  ASSUME PageInv
  PROVE  Ticket \in Tickets /\ AtEpoch(Ticket, m) /\ Behind(Ticket, m) /\ Ticket.active = active /\ Ticket.lifecycle = m.lifecycle
BY DEF Ticket, TicketOf, Tickets, AtEpoch, Behind, PageInv, Shapes, Documents

LEMMA SelectAppendKeeps ==
  ASSUME PageInv, SelectAppend
  PROVE  PageInv'
<1>1. dialog \in Dialogs /\ page = "workbench" /\ ~Busy("op") /\ dialog.open
  BY OpenDialog DEF SelectAppend
<1>2. /\ dialog' \in Dialogs /\ dialog'.open = TRUE /\ dialog'.ticket = dialog.ticket /\ dialog'.plan = <<>>
  <2>1. dialog' = [dialog EXCEPT !.replace = FALSE, !.plan = <<>>] /\ <<>> \in Optional(Docs)
    BY DEF SelectAppend, Optional
  <2> QED BY <1>1, <2>1 DEF Dialogs
<1>3. recovery' \in {recovery, <<>>} /\ recovery' \in Optional(Recoveries)
  BY DEF SelectAppend, PageInv, Shapes, Optional
<1>4. UNCHANGED <<m, drafts, schema, runs, page, active, listing>>
  BY DEF SelectAppend
<1>5. /\ flows' \in [Flows -> Handlers \cup {Idle}] /\ (\A f \in Flows : Kept(flows[f], flows'[f]))
      /\ (\A f \in Flows \ {"plan"} : flows'[f] = flows[f]) /\ {"plan", "op", "route"} \subseteq Flows
      /\ (Busy("plan")' => Busy("plan") /\ flows'["plan"].shown = flows["plan"].shown /\ flows'["plan"].ticket = flows["plan"].ticket)
  <2>0. flows \in [Flows -> Handlers \cup {Idle}] /\ {"plan", "op", "route"} \subseteq Flows
    BY DEF PageInv, Shapes, Flows
  <2>1. CASE Busy("plan")
    <3>1. PICK w \in Handlers : w = flows["plan"] /\ w # Idle
      BY <2>0, <2>1, HandlerFacts
    <3> DEFINE v == [w EXCEPT !.fresh = FALSE]
    <3>2. v \in Handlers /\ Same(w, v) /\ v.shown = w.shown
      BY DEF Handlers, Same
    <3>3. flows' = [flows EXCEPT !["plan"] = v]
      BY <2>1, <3>1 DEF SelectAppend
    <3> HIDE DEF v
    <3>4. v # Idle
      BY <3>2, BusyMeans DEF Idle
    <3>5. flows'["plan"] = v /\ (\A f \in Flows \ {"plan"} : flows'[f] = flows[f]) /\ flows' \in [Flows -> Handlers \cup {Idle}]
      BY <2>0, <3>2, <3>3
    <3> QED BY <2>0, <2>1, <3>1, <3>2, <3>4, <3>5 DEF Kept, Same
  <2>2. CASE ~Busy("plan")
    BY <2>0, <2>2 DEF SelectAppend, Kept, Busy
  <2> QED BY <2>1, <2>2
<1>6. PlacesOK'
  BY <1>1, <1>2, <1>3, <1>4, <1>5 DEF PageInv, PlacesOK, Busy
<1>7. DialogOK'
  BY <1>1, <1>2, <1>3, <1>4 DEF PageInv, DialogOK
<1>8. {} \in SUBSET Flows /\ page' \in {"loading", "workbench", "away"} /\ active' \in Nat
  BY <1>4 DEF PageInv, Shapes
<1> QED BY <1>2, <1>3, <1>4, <1>5, <1>6, <1>7, <1>8, PageSteps

LEMMA SelectReplaceKeeps ==
  ASSUME PageInv, SelectReplace
  PROVE  PageInv'
<1>1. dialog \in Dialogs /\ page = "workbench" /\ ~Busy("op") /\ dialog.open /\ dialog.ticket = Ticket
  BY OpenDialog DEF SelectReplace, isCurrent
<1>2. /\ dialog' \in Dialogs /\ dialog'.open = TRUE /\ dialog'.ticket = dialog.ticket /\ dialog'.plan = <<>>
  <2>1. dialog' = [dialog EXCEPT !.replace = TRUE, !.plan = <<>>] /\ <<>> \in Optional(Docs)
    BY DEF SelectReplace, Optional
  <2> QED BY <1>1, <2>1 DEF Dialogs
<1>3. recovery' \in Optional(Recoveries) /\ recovery' # <<>> /\ recovery'[1].epoch = m.epoch /\ recovery'[1].doc = m.doc
      /\ m.epoch \in Nat
  <2>1. recovery' = Context("checking", m.doc) \/ recovery' = Context("blocked", m.doc)
    BY DEF SelectReplace
  <2> QED BY <2>1, ContextIs
<1>4. UNCHANGED <<m, drafts, schema, runs, page, active, listing>>
  BY DEF SelectReplace
<1>5. flows \in [Flows -> Handlers \cup {Idle}] /\ {"plan", "op", "route"} \subseteq Flows /\ flows["plan"] = Idle
  BY IdleFacts DEF PageInv, Shapes, Flows, SelectReplace
<1>6. PICK w \in Handlers \cup {Idle} :
        /\ flows' = [flows EXCEPT !["plan"] = w]
        /\ w = Idle \/ (HandlerOK("plan", w, m, drafts) /\ w.ticket = Ticket)
  <2>1. CASE CanRun
    <3> DEFINE b == Flow("plan", "plan")
               w == [b EXCEPT !.doc = m.check[1].doc]
    <3>1. active \in Nat /\ drafts \in Seq(Drafts) /\ m \in Documents /\ DocumentOK(m, drafts)
      BY DEF PageInv, Shapes
    <3>2. "plan" \in Steps /\ "plan" \in StepsOf("plan") /\ "plan" \in Kinds
      BY DEF Steps, StepsOf, Kinds
    <3>3. Begun(b, "plan", m, drafts, "plan", "plan")
      BY <3>1, <3>2, HandlerBegins DEF Flow
    <3>4. m.check[1].doc = m.doc /\ m.doc \in Docs
      BY <2>1, <3>1 DEF CanRun, DocumentOK, Documents
    <3>5. flows' = [flows EXCEPT !["plan"] = w]
      BY <2>1 DEF SelectReplace, PlanFlow, Begin
    <3> HIDE DEF b
    <3>6. b \in Handlers /\ b.step = "plan" /\ b.ticket = Ticket /\ b.doc = m.doc /\ Remembers("plan", b, m, drafts)
      BY <3>3 DEF Begun, Ticket
    <3>7. w = b
      BY <3>4, <3>6 DEF Handlers
    <3> HIDE DEF w
    <3>8. Carries("plan", w, m, drafts)
      BY DEF Carries
    <3>9. HandlerOK("plan", w, m, drafts) /\ w.ticket = Ticket /\ w \in Handlers
      BY <3>6, <3>7, <3>8 DEF HandlerOK
    <3> QED BY <3>5, <3>9
  <2>2. CASE ~CanRun
    <3>1. flows' = [flows EXCEPT !["plan"] = Idle]
      BY <1>5, <2>2 DEF SelectReplace
    <3> QED BY <3>1
  <2> QED BY <2>1, <2>2
<1>7. flows' \in [Flows -> Handlers \cup {Idle}] /\ flows'["plan"] = w /\ (\A f \in Flows \ {"plan"} : flows'[f] = flows[f])
  BY <1>5, <1>6
<1>8. PlacesOK'
  BY <1>1, <1>2, <1>4, <1>5, <1>6, <1>7 DEF PageInv, PlacesOK, Busy, Idle
<1>9. DialogOK'
  BY <1>1, <1>2, <1>3, <1>4 DEF PageInv, DialogOK
<1>10. /\ {"plan"} \in SUBSET Flows /\ page' \in {"loading", "workbench", "away"} /\ active' \in Nat
       /\ \A f \in {"plan"} : flows'[f] = Idle \/ HandlerOK(f, flows'[f], m, drafts)
       /\ \A f \in Flows \ {"plan"} : Kept(flows[f], flows'[f])
  BY <1>4, <1>5, <1>6, <1>7 DEF PageInv, Shapes, Kept
<1> QED BY <1>2, <1>3, <1>4, <1>7, <1>8, <1>9, <1>10, PageSteps

LEMMA AnswerPlanKeeps ==
  ASSUME PageInv, AnswerPlan
  PROVE  PageInv'
<1>1. Busy("plan") /\ flows' = [flows EXCEPT !["plan"] = Idle] /\ UNCHANGED <<m, drafts, schema, runs, page, active, listing>>
  BY DEF AnswerPlan, Outcomes, End
<1>2. flows \in [Flows -> Handlers \cup {Idle}] /\ {"plan", "op", "route"} \subseteq Flows
  BY DEF PageInv, Shapes, Flows
<1>3. PICK w \in Handlers : w = flows["plan"] /\ HandlerOK("plan", w, m, drafts)
  BY <1>1, <1>2, HandlerFacts
<1>4. flows' \in [Flows -> Handlers \cup {Idle}] /\ flows'["plan"] = Idle /\ (\A f \in Flows \ {"plan"} : flows'[f] = flows[f])
  BY <1>1, <1>2
<1>5. CASE Expected
  <2>1. dialog \in Dialogs /\ page = "workbench" /\ ~Busy("op") /\ dialog.open /\ dialog.ticket = Ticket /\ w.shown
    BY <1>3, <1>5, OpenDialog DEF Expected, isCurrent
  <2>2. w.ticket = Ticket
    BY <1>1, <1>3, <2>1 DEF PageInv, PlacesOK
  <2>3. w.doc = m.doc /\ m.doc \in Docs
    <3>1. AtEpoch(w.ticket, m) /\ w.step \in StepsOf("plan")
      BY <1>3, <2>2, TicketIs DEF HandlerOK, Remembers
    <3> QED BY <1>3, <3>1 DEF HandlerOK, Remembers, StepsOf, Handlers
  <2>4. recovery' \in Optional(Recoveries) /\ recovery'[1].epoch = m.epoch /\ recovery'[1].doc = m.doc /\ m.epoch \in Nat
    <3>1. recovery' = Context("ok", m.doc) \/ recovery' = Context("blocked", m.doc)
      BY <1>3, <1>5, <2>3 DEF AnswerPlan
    <3> QED BY <3>1, ContextIs
  <2>5. dialog' \in Dialogs /\ dialog'.open = TRUE /\ dialog'.ticket = dialog.ticket /\ dialog'.plan \in {dialog.plan, <<m.doc>>}
    <3>1. dialog' = [dialog EXCEPT !.plan = <<m.doc>>] \/ dialog' = dialog
      BY <1>3, <2>3 DEF AnswerPlan
    <3>2. <<m.doc>> \in Optional(Docs)
      BY <2>3 DEF Optional
    <3> QED BY <2>1, <3>1, <3>2 DEF Dialogs
  <2>6. PlacesOK'
    BY <1>1, <1>2, <1>4, <2>1, <2>5 DEF PageInv, PlacesOK, Busy, Idle
  <2>7. DialogOK'
    BY <1>1, <2>1, <2>4, <2>5 DEF PageInv, DialogOK
  <2>8. /\ {"plan"} \in SUBSET Flows /\ page' \in {"loading", "workbench", "away"} /\ active' \in Nat
        /\ (\A f \in {"plan"} : flows'[f] = Idle \/ HandlerOK(f, flows'[f], m, drafts))
        /\ \A f \in Flows \ {"plan"} : Kept(flows[f], flows'[f])
    BY <1>1, <1>2, <1>4 DEF PageInv, Shapes, Kept
  <2> QED BY <1>1, <1>4, <2>4, <2>5, <2>6, <2>7, <2>8, PageSteps
<1>6. CASE ~Expected
  <2>1. dialog' = dialog /\ recovery' = recovery
    BY <1>6 DEF AnswerPlan
  <2>2. PlacesOK'
    BY <1>1, <1>2, <1>4, <2>1 DEF PageInv, PlacesOK, Busy, Idle
  <2>3. DialogOK'
    BY <1>1, <2>1 DEF PageInv, DialogOK
  <2>4. /\ {"plan"} \in SUBSET Flows /\ page' \in {"loading", "workbench", "away"} /\ active' \in Nat
        /\ (\A f \in {"plan"} : flows'[f] = Idle \/ HandlerOK(f, flows'[f], m, drafts))
        /\ (\A f \in Flows \ {"plan"} : Kept(flows[f], flows'[f]))
        /\ dialog' \in Dialogs \cup {Closed} /\ recovery' \in Optional(Recoveries)
    BY <1>1, <1>2, <1>4, <2>1 DEF PageInv, Shapes, Kept
  <2> QED BY <1>1, <1>4, <2>2, <2>3, <2>4, PageSteps
<1> QED BY <1>5, <1>6

LEMMA SubmitKeeps ==
  ASSUME PageInv, Submit
  PROVE  PageInv'
<1>1. dialog \in Dialogs /\ page = "workbench" /\ ~Busy("op") /\ dialog.open /\ dialog.ticket = Ticket
  BY OpenDialog DEF Submit, isCurrent
<1>2. dialog' \in Dialogs /\ dialog'.open = TRUE /\ dialog'.ticket = dialog.ticket /\ dialog'.plan = dialog.plan
  <2>1. dialog' = [dialog EXCEPT !.busy = TRUE]
    BY DEF Submit
  <2> QED BY <1>1, <2>1 DEF Dialogs
<1>3. UNCHANGED <<m, drafts, schema, runs, page, active, recovery, listing>>
  BY DEF Submit
<1>4. flows \in [Flows -> Handlers \cup {Idle}] /\ {"run", "plan", "op", "route"} \subseteq Flows
  BY DEF PageInv, Shapes, Flows
<1>5. active \in Nat /\ drafts \in Seq(Drafts) /\ m \in Documents /\ DocumentOK(m, drafts)
  BY DEF PageInv, Shapes
<1> DEFINE p == IF dialog.replace THEN dialog.plan ELSE <<>>
           b == Flow("run", "run")
           g == <<[doc |-> m.doc, plan |-> p]>>
           w == [b EXCEPT !.doc = m.check[1].doc, !.got = g]
<1>6. m.check[1].doc = m.doc /\ m.doc \in Docs
  BY <1>5 DEF Submit, CanRun, DocumentOK, Documents
<1>7. p \in {<<>>, <<m.doc>>}
  <2>1. CASE dialog.plan # <<>>
    <3>1. dialog.plan[1] = m.doc
      BY <1>1, <2>1, TicketIs DEF PageInv, DialogOK
    <3>2. PICK d \in Docs : dialog.plan = <<d>>
      BY <1>1, <2>1 DEF Dialogs, Optional
    <3> QED BY <3>1, <3>2
  <2> QED BY <2>1
<1>8. flows' = [flows EXCEPT !["run"] = w]
  BY DEF Submit, Begin
<1>9. g \in Gots
  <2>1. p \in Optional(Docs)
    BY <1>6, <1>7 DEF Optional
  <2>2. [doc |-> m.doc, plan |-> p] \in Confirmed
    BY <1>6, <2>1 DEF Confirmed
  <2> QED BY <2>2 DEF Gots, Optional
<1>10. Begun(b, "run", m, drafts, "run", "run")
  <2>1. "run" \in Steps /\ "run" \in StepsOf("run") /\ "run" \in Kinds
    BY DEF Steps, StepsOf, Kinds
  <2> QED BY <1>5, <2>1, HandlerBegins DEF Flow
<1> HIDE DEF b, p
<1>11. /\ b \in Handlers /\ b.step = "run" /\ b.ok = FALSE /\ b.served = FALSE /\ Behind(b.ticket, m) /\ b.schema = m.schema
       /\ b.doc = m.doc /\ Remembers("run", b, m, drafts)
  BY <1>10 DEF Begun
<1>12. /\ w \in Handlers /\ w.step = "run" /\ w.doc = m.doc /\ w.got = <<[doc |-> m.doc, plan |-> p]>> /\ w.ok = FALSE
       /\ w.ticket = b.ticket /\ w.schema = b.schema
  <2>1. \A d \in Docs, q \in Gots : [b EXCEPT !.doc = d, !.got = q] \in Handlers
    BY <1>11 DEF Handlers, Gots
  <2> HIDE DEF g
  <2>2. w \in Handlers /\ w.step = "run" /\ w.doc = m.doc /\ w.got = g /\ w.ok = FALSE /\ w.ticket = b.ticket /\ w.schema = b.schema
    <3>1. w \in Handlers
      BY <1>6, <1>9, <2>1
    <3> QED BY <1>6, <1>11, <3>1 DEF Handlers
  <2> QED BY <2>2 DEF g
<1> HIDE DEF w
<1>13. HandlerOK("run", w, m, drafts)
  <2>1. Remembers("run", w, m, drafts)
    BY <1>11, <1>12 DEF Remembers
  <2>2. Carries("run", w, m, drafts)
    BY <1>7, <1>12 DEF Carries
  <2> QED BY <2>1, <2>2 DEF HandlerOK
<1>14. flows' \in [Flows -> Handlers \cup {Idle}] /\ flows'["run"] = w /\ (\A f \in Flows \ {"run"} : flows'[f] = flows[f])
  BY <1>4, <1>8, <1>12
<1>15. PlacesOK'
  BY <1>1, <1>2, <1>3, <1>4, <1>14 DEF PageInv, PlacesOK, Busy
<1>16. DialogOK'
  BY <1>1, <1>2, <1>3 DEF PageInv, DialogOK
<1>17. /\ {"run"} \in SUBSET Flows /\ page' \in {"loading", "workbench", "away"} /\ active' \in Nat
       /\ (\A f \in {"run"} : flows'[f] = Idle \/ HandlerOK(f, flows'[f], m, drafts))
       /\ (\A f \in Flows \ {"run"} : Kept(flows[f], flows'[f])) /\ recovery' \in Optional(Recoveries)
  BY <1>3, <1>4, <1>13, <1>14 DEF PageInv, Shapes, Kept
<1> QED BY <1>2, <1>3, <1>14, <1>15, <1>16, <1>17, PageSteps

LEMMA CloseDialogKeeps ==
  ASSUME PageInv, CloseDialog
  PROVE  PageInv'
<1>1. /\ dialog.open /\ dialog' = Closed /\ flows' = Orphaned(flows) /\ UNCHANGED <<m, drafts, schema, runs, page, active, listing>>
      /\ page = "workbench"
  BY OpenDialog DEF CloseDialog
<1>2. flows \in [Flows -> Handlers \cup {Idle}] /\ {"plan", "op", "route"} \subseteq Flows
  BY DEF PageInv, Shapes, Flows
<1>3. /\ flows' \in [Flows -> Handlers \cup {Idle}] /\ (\A f \in Flows : Kept(flows[f], flows'[f]))
      /\ flows'["op"] = flows["op"] /\ flows'["route"] = flows["route"]
      /\ flows'["plan"].step # "idle" => ~flows'["plan"].shown
  BY <1>1, <1>2, OrphanedIs
<1>4. /\ recovery' \in Optional(Recoveries)
      /\ recovery' # <<>> => recovery # <<>> /\ recovery'[1].epoch = recovery[1].epoch /\ recovery'[1].doc = recovery[1].doc
  <2>1. CASE recovery' = recovery
    BY <2>1 DEF PageInv, Shapes
  <2>2. CASE recovery # <<>> /\ \E s \in {"reviewed", "pending"} : recovery' = [recovery EXCEPT ![1].state = s]
    <3>1. PICK s \in {"reviewed", "pending"} : recovery' = [recovery EXCEPT ![1].state = s]
      BY <2>2
    <3>2. PICK r \in Recoveries : recovery = <<r>>
      BY <2>2 DEF PageInv, Shapes, Optional
    <3> DEFINE e == [r EXCEPT !.state = s]
    <3>3. e \in Recoveries /\ e.epoch = r.epoch /\ e.doc = r.doc
      BY DEF Recoveries
    <3>4. recovery' = <<e>>
      BY <3>1, <3>2
    <3> HIDE DEF e
    <3> QED BY <3>2, <3>3, <3>4 DEF Optional
  <2>3. recovery' = recovery \/ (recovery # <<>> /\ \E s \in {"reviewed", "pending"} : recovery' = [recovery EXCEPT ![1].state = s])
    <3>1. CASE ~dialog.replace \/ recovery = <<>> \/ recovery[1].state = "blocked"
      BY <3>1 DEF CloseDialog
    <3>2. CASE ~(~dialog.replace \/ recovery = <<>> \/ recovery[1].state = "blocked")
      <4>1. recovery' = [recovery EXCEPT ![1].state = IF @ \in {"ok", "reviewed"} THEN "reviewed" ELSE "pending"]
        BY <3>2 DEF CloseDialog
      <4>2. PICK r \in Recoveries : recovery = <<r>>
        BY <3>2 DEF PageInv, Shapes, Optional
      <4>3. CASE r.state \in {"ok", "reviewed"}
        <5>1. recovery' = [recovery EXCEPT ![1].state = "reviewed"]
          BY <4>1, <4>2, <4>3 DEF Recoveries
        <5> QED BY <3>2, <5>1
      <4>4. CASE r.state \notin {"ok", "reviewed"}
        <5>1. recovery' = [recovery EXCEPT ![1].state = "pending"]
          BY <4>1, <4>2, <4>4 DEF Recoveries
        <5> QED BY <3>2, <5>1
      <4> QED BY <4>3, <4>4
    <3> QED BY <3>1, <3>2
  <2> QED BY <2>1, <2>2, <2>3
<1>5. PlacesOK'
  BY <1>1, <1>3, <1>4 DEF PageInv, PlacesOK, Busy, Closed
<1>6. DialogOK'
  BY <1>1, <1>4 DEF PageInv, DialogOK, Closed
<1>7. {} \in SUBSET Flows /\ page' \in {"loading", "workbench", "away"} /\ active' \in Nat /\ dialog' \in Dialogs \cup {Closed}
  BY <1>1 DEF PageInv, Shapes
<1> QED BY <1>1, <1>3, <1>4, <1>5, <1>6, <1>7, PageSteps

LEMMA ReviewScopeKeeps ==
  ASSUME PageInv, ReviewScope
  PROVE  PageInv'
<1> DEFINE w == Flow("check", "scope")
           os == Orphaned(flows)
<1>1. /\ dialog.open /\ dialog' = Closed /\ flows' = [os EXCEPT !["op"] = w] /\ page = "workbench"
      /\ UNCHANGED <<m, drafts, schema, runs, page, active, recovery, listing>>
  BY OpenDialog DEF ReviewScope
<1>2. flows \in [Flows -> Handlers \cup {Idle}] /\ {"plan", "op", "route"} \subseteq Flows
  BY DEF PageInv, Shapes, Flows
<1>3. /\ os \in [Flows -> Handlers \cup {Idle}] /\ (\A f \in Flows : Kept(flows[f], os[f])) /\ os["route"] = flows["route"]
      /\ os["plan"].step # "idle" => ~os["plan"].shown
  BY <1>2, OrphanedIs
<1>4. Begun(w, "op", m, drafts, "check", "scope")
  <2>1. active \in Nat /\ drafts \in Seq(Drafts) /\ m \in Documents /\ DocumentOK(m, drafts)
    BY DEF PageInv, Shapes
  <2>2. "check" \in Steps /\ "check" \in StepsOf("op") /\ "scope" \in Kinds
    BY DEF Steps, StepsOf, Kinds
  <2> QED BY <2>1, <2>2, HandlerBegins DEF Flow
<1> HIDE DEF w, os
<1>5. w \in Handlers /\ HandlerOK("op", w, m, drafts)
  BY <1>4 DEF Begun, HandlerOK, Carries
<1>6. flows' \in [Flows -> Handlers \cup {Idle}] /\ flows'["op"] = w /\ (\A f \in Flows \ {"op"} : flows'[f] = os[f])
  BY <1>1, <1>2, <1>3, <1>5
<1>7. PlacesOK'
  BY <1>1, <1>2, <1>3, <1>6 DEF PageInv, PlacesOK, Busy, Closed
<1>8. DialogOK'
  BY <1>1 DEF PageInv, DialogOK, Closed
<1>9. /\ {"op"} \in SUBSET Flows /\ page' \in {"loading", "workbench", "away"} /\ active' \in Nat /\ dialog' \in Dialogs \cup {Closed}
      /\ recovery' \in Optional(Recoveries) /\ (\A f \in {"op"} : flows'[f] = Idle \/ HandlerOK(f, flows'[f], m, drafts))
      /\ (\A f \in Flows \ {"op"} : Kept(flows[f], flows'[f]))
  BY <1>1, <1>2, <1>3, <1>5, <1>6 DEF PageInv, Shapes
<1> QED BY <1>1, <1>6, <1>7, <1>8, <1>9, PageSteps

\* The page is left, or mounted again.
LEMMA LeavesKeeps ==
  ASSUME PageInv, UNCHANGED <<m, drafts, schema, runs, listing>>, page' \in {"loading", "away"}, active' \in Nat,
         dialog' = Closed, recovery' = <<>>,
         flows' \in [Flows -> Handlers \cup {Idle}], NEW C \in SUBSET Flows, {"plan", "op"} \cap C = {},
         \A f \in C : flows'[f] = Idle \/ HandlerOK(f, flows'[f], m, drafts), \A f \in Flows \ C : Kept(flows[f], flows'[f]),
         flows'["plan"].step # "idle" => ~flows'["plan"].shown,
         Busy("route")' => flows'["route"].ticket.active <= active' /\ (flows'["route"].ticket.active = active' => page' = "loading")
  PROVE  PageInv'
<1>1. PlacesOK'
  BY DEF PlacesOK, Busy, Closed
<1>2. DialogOK'
  BY DEF DialogOK, Closed
<1>3. page' \in {"loading", "workbench", "away"} /\ dialog' \in Dialogs \cup {Closed} /\ recovery' \in Optional(Recoveries)
  BY DEF Optional
<1> QED BY <1>1, <1>2, <1>3, PageSteps

LEMMA LeaveKeeps ==
  ASSUME PageInv, Leave
  PROVE  PageInv'
<1>1. /\ page' = "away" /\ active' = active + 1 /\ dialog' = Closed /\ recovery' = <<>> /\ flows' = Unmounted(flows)
      /\ UNCHANGED <<m, drafts, schema, runs, listing>>
  BY DEF Leave, Leaving, Count
<1>2. flows \in [Flows -> Handlers \cup {Idle}] /\ {"plan", "op", "route", "ask"} \subseteq Flows /\ active \in Nat
  BY DEF PageInv, Shapes, Flows
<1>3. /\ flows' \in [Flows -> Handlers \cup {Idle}] /\ (\A f \in Flows \ {"ask"} : Kept(flows[f], flows'[f]))
      /\ flows'["route"] = flows["route"] /\ flows'["ask"] = Idle
      /\ flows'["plan"].step # "idle" => ~flows'["plan"].shown
  BY <1>1, <1>2, UnmountedIs
<1>4. Busy("route")' => flows'["route"].ticket.active <= active' /\ flows'["route"].ticket.active # active'
  <2> SUFFICES ASSUME Busy("route") PROVE flows["route"].ticket.active <= active /\ flows["route"].ticket.active \in Nat
    BY <1>1, <1>2, <1>3 DEF Busy
  <2>1. flows["route"] \in Handlers
    BY <1>2, HandlerFacts
  <2> QED BY <2>1 DEF PageInv, PlacesOK, Handlers, Tickets
<1>5. /\ {"ask"} \in SUBSET Flows /\ {"plan", "op"} \cap {"ask"} = {} /\ page' \in {"loading", "away"} /\ active' \in Nat
      /\ (\A f \in {"ask"} : flows'[f] = Idle \/ HandlerOK(f, flows'[f], m, drafts))
  BY <1>1, <1>2, <1>3
<1> QED BY <1>1, <1>3, <1>4, <1>5, LeavesKeeps

LEMMA AnswerRunKeeps ==
  ASSUME PageInv, AnswerRun
  PROVE  PageInv'
<1>1. Busy("run") /\ UNCHANGED <<m, drafts, schema, runs, listing>>
  BY DEF AnswerRun, Outcomes
<1>2. flows \in [Flows -> Handlers \cup {Idle}] /\ {"run", "plan", "op", "route", "ask", "open"} \subseteq Flows /\ active \in Nat
  BY DEF PageInv, Shapes, Flows
<1> DEFINE fs == [flows EXCEPT !["run"] = Idle]
<1>3. fs \in [Flows -> Handlers \cup {Idle}] /\ fs["run"] = Idle /\ (\A f \in Flows \ {"run"} : fs[f] = flows[f])
  BY <1>2
<1> HIDE DEF fs
<1>4. CASE isCurrent /\ page' = "away" /\ Leaving /\ flows' = Unmounted(fs)
  <2>1. page = "workbench"
    BY <1>4, OpenDialog DEF isCurrent
  <2>2. active' = active + 1 /\ dialog' = Closed /\ recovery' = <<>>
    BY <1>4, <2>1 DEF Leaving, Count
  <2>3. /\ flows' \in [Flows -> Handlers \cup {Idle}] /\ (\A f \in Flows \ {"ask"} : Kept(fs[f], flows'[f]))
        /\ flows'["route"] = fs["route"] /\ flows'["ask"] = Idle
        /\ flows'["plan"].step # "idle" => ~flows'["plan"].shown
    <3>1. fs["open"] = flows["open"]
      BY <1>2, <1>3
    <3> QED BY <1>2, <1>3, <1>4, <3>1, UnmountedIs
  <2>4. flows'["run"] = Idle /\ flows'["route"] = flows["route"]
    BY <1>2, <1>3, <2>3 DEF Kept
  <2>5. Busy("route")' => flows'["route"].ticket.active <= active' /\ flows'["route"].ticket.active # active'
    <3> SUFFICES ASSUME Busy("route") PROVE flows["route"].ticket.active <= active /\ flows["route"].ticket.active \in Nat
      BY <1>2, <2>2, <2>4 DEF Busy
    <3>1. flows["route"] \in Handlers
      BY <1>2, HandlerFacts
    <3> QED BY <3>1 DEF PageInv, PlacesOK, Handlers, Tickets
  <2>6. /\ {"ask", "run"} \in SUBSET Flows /\ {"plan", "op"} \cap {"ask", "run"} = {} /\ page' \in {"loading", "away"} /\ active' \in Nat
        /\ (\A f \in {"ask", "run"} : flows'[f] = Idle \/ HandlerOK(f, flows'[f], m, drafts))
        /\ (\A f \in Flows \ {"ask", "run"} : Kept(flows[f], flows'[f]))
    BY <1>2, <1>3, <1>4, <2>2, <2>3, <2>4
  <2> QED BY <1>1, <1>4, <2>2, <2>3, <2>5, <2>6, LeavesKeeps
<1>5. CASE /\ isCurrent /\ dialog' = [dialog EXCEPT !.busy = FALSE, !.plan = <<>>]
           /\ recovery' = (IF dialog.replace THEN Context("pending", m.doc) ELSE recovery)
           /\ flows' = fs /\ UNCHANGED <<page, active>>
  <2>1. dialog \in Dialogs /\ page = "workbench" /\ ~Busy("op") /\ dialog.open
    BY <1>5, OpenDialog DEF isCurrent
  <2>2. /\ dialog' \in Dialogs /\ dialog'.open = TRUE /\ dialog'.ticket = dialog.ticket /\ dialog'.plan = <<>>
    <3>1. <<>> \in Optional(Docs)
      BY DEF Optional
    <3> QED BY <1>5, <2>1, <3>1 DEF Dialogs
  <2>3. /\ recovery' \in Optional(Recoveries) /\ m.epoch \in Nat
        /\ recovery' = recovery \/ (recovery'[1].epoch = m.epoch /\ recovery'[1].doc = m.doc)
    <3>1. CASE recovery' = recovery
      BY <3>1 DEF PageInv, Shapes, Documents
    <3>2. CASE recovery' = Context("pending", m.doc)
      BY <3>2, ContextIs
    <3> QED BY <1>5, <3>1, <3>2
  <2>4. PlacesOK'
    BY <1>2, <1>3, <1>5, <2>1, <2>2 DEF PageInv, PlacesOK, Busy
  <2>5. DialogOK'
    BY <1>1, <2>1, <2>2, <2>3 DEF PageInv, DialogOK
  <2>6. /\ {"run"} \in SUBSET Flows /\ page' \in {"loading", "workbench", "away"} /\ active' \in Nat
        /\ (\A f \in {"run"} : flows'[f] = Idle \/ HandlerOK(f, flows'[f], m, drafts))
        /\ (\A f \in Flows \ {"run"} : Kept(flows[f], flows'[f]))
    BY <1>2, <1>3, <1>5, <2>1 DEF Kept
  <2> QED BY <1>1, <1>3, <1>5, <2>2, <2>3, <2>4, <2>5, <2>6, PageSteps
<1>6. CASE flows' = fs /\ UNCHANGED <<page, active, dialog, recovery>>
  <2>1. "run" \in Flows \ {"plan", "route"} /\ flows' = [flows EXCEPT !["run"] = Idle]
    BY <1>2, <1>6 DEF fs
  <2> QED BY <1>1, <1>6, <2>1, HandlerSteps
<1> QED BY <1>4, <1>5, <1>6 DEF AnswerRun, End, fs

LEMMA NavigateKeeps ==
  ASSUME PageInv, Navigate
  PROVE  PageInv'
<1>1. PICK kind \in {"plain", "new", "draft", "run"} : \E id \in IF kind = "draft" THEN DOMAIN drafts ELSE {0},
             d \in IF kind = "run" THEN {r.doc : r \in runs} ELSE {m.doc} :
        flows' = [Unmounted(flows) EXCEPT !["route"] =
                        [Flow("schema", kind) EXCEPT !.id = id, !.doc = d, !.ticket = [Ticket EXCEPT !.active = Count]]]
  BY DEF Navigate
<1>2. PICK id \in IF kind = "draft" THEN DOMAIN drafts ELSE {0}, d \in IF kind = "run" THEN {r.doc : r \in runs} ELSE {m.doc} :
        flows' = [Unmounted(flows) EXCEPT !["route"] =
                        [Flow("schema", kind) EXCEPT !.id = id, !.doc = d, !.ticket = [Ticket EXCEPT !.active = Count]]]
  BY <1>1
<1>3. UNCHANGED <<m, drafts, schema, runs, listing>> /\ page' = "loading" /\ active' = Count /\ dialog' = Closed /\ recovery' = <<>>
  BY DEF Navigate, Leaving
<1>4. /\ flows \in [Flows -> Handlers \cup {Idle}] /\ {"route", "ask", "plan", "op"} \subseteq Flows /\ active \in Nat /\ Count \in Nat
      /\ drafts \in Seq(Drafts) /\ m \in Documents /\ DocumentOK(m, drafts)
  BY DEF PageInv, Shapes, Flows, Count
<1>5. id \in Nat /\ d \in Docs /\ (kind = "draft" => id \in DOMAIN drafts)
  BY <1>4 DEF PageInv, RunsOK, Documents
<1> DEFINE us == Unmounted(flows)
           b == Flow("schema", kind)
           t == [Ticket EXCEPT !.active = Count]
           w == [b EXCEPT !.id = id, !.doc = d, !.ticket = t]
<1>6. /\ us \in [Flows -> Handlers \cup {Idle}] /\ (\A f \in Flows \ {"ask"} : Kept(flows[f], us[f]))
      /\ us["ask"] = Idle /\ (us["plan"].step # "idle" => ~us["plan"].shown)
  BY <1>4, UnmountedIs
<1>7. Begun(b, "route", m, drafts, "schema", kind)
  <2>1. "schema" \in Steps /\ "schema" \in StepsOf("route") /\ kind \in Kinds
    BY DEF Steps, StepsOf, Kinds
  <2> QED BY <1>4, <2>1, HandlerBegins DEF Flow
<1>8. t \in Tickets /\ t.active = Count /\ Behind(t, m)
  BY <1>4, TicketIs DEF Tickets, Behind
<1>9. flows' = [us EXCEPT !["route"] = w]
  BY <1>2
<1> HIDE DEF us, b, t
<1>10. b \in Handlers /\ b.step = "schema" /\ b.kind = kind /\ b.ok = FALSE /\ b.served = FALSE
  BY <1>7 DEF Begun
<1>11. w \in Handlers /\ w.step = "schema" /\ w.kind = kind /\ w.ok = FALSE /\ w.id = id /\ w.ticket = t
  <2>1. w \in Handlers
    BY <1>5, <1>8, <1>10 DEF Handlers
  <2> QED BY <1>10, <2>1 DEF Handlers
<1> HIDE DEF w
<1>12. HandlerOK("route", w, m, drafts)
  <2>1. Remembers("route", w, m, drafts)
    BY <1>8, <1>11 DEF Remembers, StepsOf
  <2>2. Carries("route", w, m, drafts)
    BY <1>5, <1>11 DEF Carries
  <2> QED BY <2>1, <2>2 DEF HandlerOK
<1>13. flows' \in [Flows -> Handlers \cup {Idle}] /\ flows'["route"] = w /\ (\A f \in Flows \ {"route"} : flows'[f] = us[f])
  BY <1>4, <1>6, <1>9, <1>11
<1>14. /\ {"route", "ask"} \in SUBSET Flows /\ {"plan", "op"} \cap {"route", "ask"} = {} /\ page' \in {"loading", "away"}
       /\ active' \in Nat /\ (\A f \in {"route", "ask"} : flows'[f] = Idle \/ HandlerOK(f, flows'[f], m, drafts))
       /\ (\A f \in Flows \ {"route", "ask"} : Kept(flows[f], flows'[f]))
       /\ (flows'["plan"].step # "idle" => ~flows'["plan"].shown)
       /\ (Busy("route")' => flows'["route"].ticket.active <= active' /\ (flows'["route"].ticket.active = active' => page' = "loading"))
  BY <1>3, <1>4, <1>6, <1>8, <1>11, <1>12, <1>13
<1> QED BY <1>3, <1>13, <1>14, LeavesKeeps

(***************************************************************************)
(* Answers that change the document.                                       *)
(***************************************************************************)
\* Only what is known of the document changes.
Learnt(y) ==
  /\ y \in Documents /\ DocumentOK(y, drafts) /\ Forward(m, y) /\ Forward(y, m)
  /\ y.id = m.id /\ y.epoch = m.epoch /\ y.doc = m.doc /\ y.schema = m.schema /\ y.lifecycle = m.lifecycle

LEMMA LearntNothing ==
  ASSUME PageInv
  PROVE  Learnt(m)
BY DEF PageInv, Shapes, Forward, Learnt

LEMMA SavedIs ==
  ASSUME PageInv, NEW f \in Flows, Busy(f), flows[f].step = "save", flows[f].ok
  PROVE  Learnt(Saved(f)) /\ Holds(drafts, flows[f])
<1>1. PICK w \in Handlers : w = flows[f] /\ HandlerOK(f, w, m, drafts)
  BY HandlerFacts
<1>2. m \in Documents /\ DocumentOK(m, drafts) /\ drafts \in Seq(Drafts)
  BY DEF PageInv, Shapes
<1>3. Holds(drafts, w)
  BY <1>1 DEF HandlerOK, Remembers
<1>4. w.id > 0 /\ w.rev > 0
  <2>1. w.id \in DOMAIN drafts /\ w.rev \in DOMAIN drafts[w.id].revisions
    BY <1>3 DEF Holds, Has
  <2>2. drafts[w.id] \in Drafts
    BY <1>2, <2>1
  <2>3. drafts[w.id].revisions \in Seq(Contents)
    BY <2>2 DEF Drafts
  <2> QED BY <1>2, <2>1, <2>3
<1>5. CASE Noted(f)
  <2> DEFINE y == markSaved(m, w)
  <2>1. w.step = "save" /\ w.ok /\ w.ticket.id = m.id
    BY <1>1, <1>5 DEF Noted
  <2>2. /\ y \in Documents /\ DocumentOK(y, drafts) /\ Forward(m, y)
        /\ y.id = m.id /\ y.epoch = m.epoch /\ y.doc = m.doc /\ y.schema = m.schema /\ y.lifecycle = m.lifecycle
    BY <1>1, <1>2, <1>4, <2>1, DocumentSaved
  <2>3. Saved(f) = y
    BY <1>1, <1>5 DEF Saved
  <2> HIDE DEF y
  <2>4. Learnt(y)
    BY <2>2 DEF Learnt, Forward
  <2> QED BY <1>1, <1>3, <2>3, <2>4
<1>6. CASE ~Noted(f)
  BY <1>1, <1>3, <1>6, LearntNothing DEF Saved
<1> QED BY <1>5, <1>6

LEMMA CheckedIs ==
  ASSUME PageInv, NEW f \in Flows, Busy(f), flows[f].step # "schema"
  PROVE  Learnt(Checked(f))
<1>1. PICK w \in Handlers : w = flows[f] /\ HandlerOK(f, w, m, drafts)
  BY HandlerFacts
<1>2. m \in Documents /\ DocumentOK(m, drafts) /\ drafts \in Seq(Drafts)
  BY DEF PageInv, Shapes
<1>3. CASE SameRules(f)
  <2> DEFINE c == [doc |-> w.doc, schema |-> w.schema]
             y == [m EXCEPT !.check = <<c>>]
  <2>1. w.doc = m.doc /\ w.schema = m.schema
    BY <1>1, <1>3 DEF SameRules, HandlerOK, Remembers, AtEpoch
  <2>2. c \in Contents /\ c = [doc |-> m.doc, schema |-> m.schema]
    BY <1>1, <2>1 DEF Contents, Handlers
  <2>3. Checked(f) = y
    BY <1>1, <1>3 DEF Checked
  <2> HIDE DEF c
  <2>4. \E e \in Contents : e = [doc |-> m.doc, schema |-> m.schema] /\ y = [m EXCEPT !.check = <<e>>]
    BY <2>2
  <2> HIDE DEF y
  <2>5. /\ y \in Documents /\ DocumentOK(y, drafts) /\ Forward(m, y)
        /\ y.id = m.id /\ y.epoch = m.epoch /\ y.doc = m.doc /\ y.schema = m.schema /\ y.lifecycle = m.lifecycle
    BY <1>2, <2>4, DocumentLearns
  <2> QED BY <2>3, <2>5 DEF Learnt, Forward
<1>4. CASE ~SameRules(f)
  BY <1>4, LearntNothing DEF Checked
<1> QED BY <1>3, <1>4

\* The handler f ends, or goes on as a request about the document as it is.
LEMMA LearntKeeps ==
  ASSUME PageInv, UNCHANGED <<drafts, schema, runs, page, active, dialog, listing>>, Learnt(m'), recovery' \in {recovery, <<>>},
         NEW f \in Flows \ {"plan"}, NEW w \in Handlers \cup {Idle}, flows' = [flows EXCEPT ![f] = w],
         w = Idle \/ HandlerOK(f, w, m, drafts), f = "op" /\ w # Idle => ~dialog.open,
         f = "route" /\ w # Idle => page = "loading" /\ w.ticket.active <= active
  PROVE  PageInv'
<1>1. m' \in Documents /\ DocumentOK(m', drafts) /\ Forward(m, m') /\ m'.id = m.id
  BY DEF Learnt
<1>2. w = Idle \/ HandlerOK(f, w, m', drafts)
  <2> SUFFICES ASSUME w \in Handlers, HandlerOK(f, w, m, drafts) PROVE HandlerOK(f, w, m', drafts)
    OBVIOUS
  <2>1. drafts \in Seq(Drafts) /\ m \in Documents /\ Grown(drafts, drafts) /\ Same(w, w)
    BY DEF PageInv, Shapes, Grown, Same
  <2> QED BY <1>1, <2>1, HandlerStays
<1> QED BY <1>1, <1>2, StepKeeps

\* A request for a draft begins.
LEMMA GetBegins ==
  ASSUME PageInv, NEW id \in DOMAIN drafts, m.doc = Empty \/ Somewhere(drafts, m.doc)
  PROVE  LET w == [Flow("get", "open") EXCEPT !.id = id]
         IN  w \in Handlers /\ HandlerOK("open", w, m, drafts)
<1> DEFINE b == Flow("get", "open")
           w == [b EXCEPT !.id = id]
<1>1. active \in Nat /\ drafts \in Seq(Drafts) /\ m \in Documents /\ DocumentOK(m, drafts) /\ id \in Nat
  BY DEF PageInv, Shapes
<1>2. "get" \in Steps /\ "get" \in StepsOf("open") /\ "open" \in Kinds
  BY DEF Steps, StepsOf, Kinds
<1>3. Begun(b, "open", m, drafts, "get", "open")
  BY <1>1, <1>2, HandlerBegins DEF Flow
<1> HIDE DEF b
<1>4. b \in Handlers /\ Remembers("open", b, m, drafts) /\ b.step = "get" /\ b.kind = "open" /\ b.ok = FALSE
  BY <1>3 DEF Begun
<1>5. w \in Handlers
  BY <1>1, <1>4 DEF Handlers
<1>6. /\ w.step = b.step /\ w.kind = b.kind /\ w.ticket = b.ticket /\ w.served = b.served /\ w.ok = b.ok /\ w.doc = b.doc
      /\ w.schema = b.schema /\ w.id = id
  BY <1>4 DEF Handlers
<1> HIDE DEF w
<1>7. Remembers("open", w, m, drafts)
  BY <1>4, <1>6 DEF Remembers
<1>8. Carries("open", w, m, drafts)
  BY <1>4, <1>6 DEF Carries
<1>9. w \in Handlers /\ HandlerOK("open", w, m, drafts)
  BY <1>5, <1>7, <1>8 DEF HandlerOK
<1> QED BY <1>9 DEF w, b

\* A draft that was fetched becomes the next document.
LEMMA OpenedIs ==
  ASSUME PageInv, NEW got \in Answers, Holds(drafts, got), NEW x \in Documents, NEW y, NEW e \in {-1, 0}, schema \in Nat,
         y = Document(x.id + 1, got.doc, <<[id |-> got.id, rev |-> got.rev, doc |-> got.doc]>>, e)
  PROVE  y \in Documents /\ DocumentOK(y, drafts) /\ Forward(x, y)
<1> DEFINE n == [id |-> got.id, rev |-> got.rev, doc |-> got.doc]
<1>1. n \in Names /\ n.id = got.id /\ n.rev = got.rev /\ n.doc = got.doc
  BY DEF Names, Answers
<1>2. <<n>> \in Optional(Names) /\ <<>> \in Optional(Contents) /\ <<>> \in Optional([epoch : Nat, doc : Docs])
      /\ x.id + 1 \in Nat /\ got.doc \in Docs /\ e \in Int
  BY <1>1 DEF Optional, Documents, Answers
<1>3. y = [id |-> x.id + 1, doc |-> got.doc, epoch |-> 0, savedEpoch |-> e, lifecycle |-> 0, saved |-> <<n>>,
           check |-> <<>>, cache |-> <<>>, schema |-> schema]
  BY DEF Document
<1> HIDE DEF n
<1>4. y \in Documents
  BY <1>2, <1>3 DEF Documents
<1>5. /\ y.id = x.id + 1 /\ y.epoch = 0 /\ y.check = <<>> /\ y.cache = <<>> /\ y.saved = <<n>> /\ y.doc = got.doc
      /\ y.savedEpoch = e
  BY <1>3
<1>6. y.saved # <<>> /\ Holds(drafts, y.saved[1]) /\ y.saved[1].doc = y.doc /\ y.savedEpoch \in {-1, 0}
  BY <1>1, <1>5 DEF Holds
<1> QED BY <1>4, <1>5, <1>6, DocumentReplaced

LEMMA AnswerOpenKeeps ==
  ASSUME PageInv, AnswerOpen
  PROVE  PageInv'
<1>1. Busy("open") /\ "open" \in Flows \ {"plan"} /\ UNCHANGED <<drafts, schema, runs, page, active, dialog, listing>>
  BY DEF AnswerOpen, Outcomes, Flows
<1>2. PICK w \in Handlers : w = flows["open"] /\ HandlerOK("open", w, m, drafts)
  BY <1>1, HandlerFacts
<1>3. PICK ok \in Outcomes("open") :
        CASE ok /\ w.step = "save" ->
               /\ m' = Saved("open")
               /\ flows' = [flows EXCEPT !["open"] = IF Noted("open") /\ MayOpen("open") THEN [Flow("get", "open") EXCEPT !.id = w.got[1]] ELSE Idle]
               /\ UNCHANGED recovery
          [] ok /\ w.step = "get" /\ MayOpen("open") -> m' = Opened(w.got[1]) /\ End("open") /\ recovery' = <<>>
          [] OTHER -> End("open") /\ UNCHANGED <<m, recovery>>
  BY <1>2 DEF AnswerOpen
<1>4. ok => w.ok
  BY <1>1, <1>2 DEF Outcomes, Handlers
<1>5. CASE ok /\ w.step = "save"
  <2>1. Learnt(m') /\ Holds(drafts, w)
    BY <1>1, <1>2, <1>3, <1>4, <1>5, SavedIs
  <2>2. CASE MayOpen("open") /\ flows' = [flows EXCEPT !["open"] = [Flow("get", "open") EXCEPT !.id = w.got[1]]]
    <3>1. w.doc = m.doc
      <4>1. AtEpoch(w.ticket, m)
        BY <1>2, <2>2, TicketIs DEF MayOpen, Current
      <4> QED BY <1>2, <1>5, <4>1 DEF HandlerOK, Remembers
    <3>2. Somewhere(drafts, m.doc)
      BY <2>1, <3>1, HoldsSomewhere
    <3>3. w.got[1] \in DOMAIN drafts
      BY <1>2, <1>5 DEF HandlerOK, Carries
    <3> DEFINE v == [Flow("get", "open") EXCEPT !.id = w.got[1]]
    <3>4. v \in Handlers /\ HandlerOK("open", v, m, drafts)
      BY <3>2, <3>3, GetBegins
    <3>5. flows' = [flows EXCEPT !["open"] = v]
      BY <2>2
    <3> HIDE DEF v
    <3>6. recovery' \in {recovery, <<>>}
      BY <1>3, <1>5
    <3> QED BY <1>1, <2>1, <3>4, <3>5, <3>6, LearntKeeps
  <2>3. CASE flows' = [flows EXCEPT !["open"] = Idle]
    <3>1. recovery' \in {recovery, <<>>}
      BY <1>3, <1>5
    <3> QED BY <1>1, <2>1, <2>3, <3>1, LearntKeeps
  <2> QED BY <1>3, <1>5, <2>2, <2>3
<1>6. CASE ok /\ w.step = "get" /\ MayOpen("open")
  <2>1. PICK got \in Answers : w.got = <<got>> /\ Holds(drafts, got)
    BY <1>2, <1>4, <1>6 DEF HandlerOK, Carries
  <2>2. m' = Opened(got) /\ flows' = [flows EXCEPT !["open"] = Idle] /\ recovery' = <<>>
    BY <1>3, <1>6, <2>1 DEF End
  <2>3. PICK e \in {-1, 0} : m' = Document(m.id + 1, got.doc, <<[id |-> got.id, rev |-> got.rev, doc |-> got.doc]>>, e)
    BY <2>2 DEF Opened
  <2>4. m \in Documents /\ schema \in Nat
    BY DEF PageInv, Shapes
  <2>5. m' \in Documents /\ DocumentOK(m', drafts) /\ Forward(m, m')
    BY <2>1, <2>3, <2>4, OpenedIs
  <2> QED BY <1>1, <2>2, <2>5, StepKeeps
<1>7. CASE flows' = [flows EXCEPT !["open"] = Idle] /\ UNCHANGED <<m, recovery>>
  <2>1. Learnt(m') /\ recovery' \in {recovery, <<>>}
    BY <1>7, LearntNothing
  <2> QED BY <1>1, <1>7, <2>1, LearntKeeps
<1> QED BY <1>3, <1>5, <1>6, <1>7 DEF End

LEMMA FinishKeeps ==
  ASSUME PageInv, Busy("op"), NEW k \in BOOLEAN, k => flows["op"].ok /\ flows["op"].step # "parse", FinishOperation(k),
         UNCHANGED <<drafts, schema, runs, page, active, listing>>
  PROVE  PageInv'
<1>1. "op" \in Flows \ {"plan"} /\ flows' = [flows EXCEPT !["op"] = Idle] /\ UNCHANGED <<dialog, recovery>>
  BY DEF FinishOperation, End, Flows
<1>2. PICK w \in Handlers : w = flows["op"] /\ HandlerOK("op", w, m, drafts)
  BY <1>1, HandlerFacts
<1>3. w.step \in {"save", "check", "preview", "schema", "parse"}
  BY <1>2 DEF HandlerOK, Remembers, StepsOf
<1>4. ASSUME Learnt(m')
      PROVE  PageInv'
  BY <1>1, <1>4, LearntKeeps
<1>5. CASE ~k
  <2>1. m' = m
    BY <1>5 DEF FinishOperation
  <2> QED BY <1>4, <2>1, LearntNothing
<1>6. CASE k /\ w.step = "save"
  <2>1. m' = Saved("op")
    BY <1>2, <1>6 DEF FinishOperation
  <2>2. flows["op"].step = "save" /\ flows["op"].ok /\ "op" \in Flows
    BY <1>1, <1>2, <1>6
  <2> QED BY <1>4, <2>1, <2>2, SavedIs
<1>7. CASE k /\ w.step = "check"
  <2>1. m' = Checked("op")
    BY <1>2, <1>7 DEF FinishOperation
  <2>2. flows["op"].step # "schema" /\ "op" \in Flows
    BY <1>1, <1>2, <1>7
  <2> QED BY <1>4, <2>1, <2>2, CheckedIs
<1>8. CASE k /\ w.step = "preview"
  <2>1. m' = IF SameRules("op") /\ Noted("op") THEN [m EXCEPT !.cache = <<[epoch |-> m.epoch, doc |-> w.doc]>>] ELSE m
    BY <1>2, <1>8 DEF FinishOperation
  <2>2. CASE SameRules("op") /\ m' = [m EXCEPT !.cache = <<[epoch |-> m.epoch, doc |-> w.doc]>>]
    <3>1. w.doc = m.doc
      BY <1>2, <1>8, <2>2 DEF SameRules, HandlerOK, Remembers, AtEpoch
    <3>2. m \in Documents /\ DocumentOK(m, drafts) /\ m.epoch \in Nat /\ m.doc \in Docs
      BY DEF PageInv, Shapes, Documents
    <3> DEFINE c == [epoch |-> m.epoch, doc |-> m.doc]
    <3>3. c \in [epoch : Nat, doc : Docs] /\ m' = [m EXCEPT !.cache = <<c>>] /\ c = [epoch |-> m.epoch, doc |-> m.doc]
      BY <2>2, <3>1, <3>2
    <3> HIDE DEF c
    <3>4. \E e \in [epoch : Nat, doc : Docs] : e = [epoch |-> m.epoch, doc |-> m.doc] /\ m' = [m EXCEPT !.cache = <<e>>]
      BY <3>3
    <3>5. /\ m' \in Documents /\ DocumentOK(m', drafts) /\ Forward(m, m')
          /\ m'.id = m.id /\ m'.epoch = m.epoch /\ m'.doc = m.doc /\ m'.schema = m.schema /\ m'.lifecycle = m.lifecycle
      BY <3>2, <3>4, DocumentLearns
    <3> QED BY <1>4, <3>5 DEF Learnt, Forward
  <2>3. CASE m' = m
    BY <1>4, <2>3, LearntNothing
  <2> QED BY <2>1, <2>2, <2>3
<1>9. CASE k /\ w.step = "schema"
  <2>1. m' = IF w.ticket.active = active THEN [touch(m) EXCEPT !.schema = w.schema] ELSE m
    BY <1>2, <1>9 DEF FinishOperation
  <2>2. CASE m' = [touch(m) EXCEPT !.schema = w.schema]
    <3>1. w.schema \in Nat /\ m.doc \in Docs
      BY DEF Handlers, PageInv, Shapes, Documents
    <3>2. m' \in Documents /\ DocumentOK(m', drafts) /\ Forward(m, m') /\ m'.id = m.id
      BY <2>2, <3>1, EditIs
    <3> QED BY <1>1, <3>2, StepKeeps
  <2>3. CASE m' = m
    BY <1>4, <2>3, LearntNothing
  <2> QED BY <2>1, <2>2, <2>3
<1> QED BY <1>2, <1>3, <1>5, <1>6, <1>7, <1>8, <1>9

\* summary: the execution dialog opens, and asks for a plan if its user was about to replace.
LEMMA DialogOpens ==
  ASSUME PageInv, Busy("op"), UNCHANGED <<drafts, schema, runs, page, active, listing>>, page = "workbench", Current("op"),
         flows["op"].step = "check", NEW replace \in BOOLEAN, replace => ~Busy("plan"), m' = Checked("op"),
         dialog' = [open |-> TRUE, ticket |-> Ticket, replace |-> replace, busy |-> FALSE, plan |-> <<>>],
         flows' = [flows EXCEPT !["op"] = Idle,
                     !["plan"] = IF replace THEN [Flow("plan", "plan") EXCEPT !.doc = flows["op"].doc] ELSE @],
         recovery' = IF replace THEN Context("checking", flows["op"].doc) ELSE <<>>
  PROVE  PageInv'
<1>1. flows \in [Flows -> Handlers \cup {Idle}] /\ {"op", "plan", "route"} \subseteq Flows /\ active \in Nat
  BY DEF PageInv, Shapes, Flows
<1>2. PICK w \in Handlers : w = flows["op"] /\ HandlerOK("op", w, m, drafts)
  BY <1>1, HandlerFacts
<1>3. w.doc = m.doc /\ m.doc \in Docs
  <2>1. AtEpoch(w.ticket, m)
    BY <1>2, TicketIs DEF Current
  <2> QED BY <1>2, <2>1 DEF HandlerOK, Remembers, PageInv, Shapes, Documents
<1>4. Learnt(m')
  <2>1. flows["op"].step # "schema" /\ "op" \in Flows
    BY <1>1
  <2> QED BY <2>1, CheckedIs
<1>5. ~dialog.open
  BY DEF PageInv, PlacesOK
<1>6. dialog' \in Dialogs /\ dialog'.open = TRUE /\ dialog'.ticket = Ticket /\ dialog'.plan = <<>>
  <2>1. Ticket \in Tickets /\ <<>> \in Optional(Docs)
    BY TicketIs DEF Optional
  <2> QED BY <2>1 DEF Dialogs
<1>7. recovery' \in Optional(Recoveries) /\ (recovery' # <<>> => recovery'[1].epoch = m.epoch /\ recovery'[1].doc = m.doc)
      /\ m.epoch \in Nat
  <2>1. CASE replace
    <3>1. recovery' = Context("checking", m.doc)
      BY <1>2, <1>3, <2>1
    <3> QED BY <3>1, ContextIs
  <2>2. CASE ~replace
    BY <2>2 DEF Optional, PageInv, Shapes, Documents
  <2> QED BY <2>1, <2>2
<1>8. PICK v \in Handlers \cup {Idle} :
        /\ flows' = [[flows EXCEPT !["op"] = Idle] EXCEPT !["plan"] = v]
        /\ v = flows["plan"] \/ (HandlerOK("plan", v, m, drafts) /\ v.ticket = Ticket)
  <2>1. CASE replace
    <3> DEFINE b == Flow("plan", "plan")
               v == [b EXCEPT !.doc = flows["op"].doc]
    <3>1. active \in Nat /\ drafts \in Seq(Drafts) /\ m \in Documents /\ DocumentOK(m, drafts)
      BY DEF PageInv, Shapes
    <3>2. "plan" \in Steps /\ "plan" \in StepsOf("plan") /\ "plan" \in Kinds
      BY DEF Steps, StepsOf, Kinds
    <3>3. Begun(b, "plan", m, drafts, "plan", "plan")
      BY <3>1, <3>2, HandlerBegins DEF Flow
    <3>4. flows' = [[flows EXCEPT !["op"] = Idle] EXCEPT !["plan"] = v]
      BY <2>1
    <3> HIDE DEF b
    <3>5. b \in Handlers /\ b.ticket = Ticket /\ b.doc = m.doc /\ Remembers("plan", b, m, drafts)
      BY <3>3 DEF Begun, Ticket
    <3>6. v = b
      BY <1>2, <1>3, <3>5 DEF Handlers
    <3> HIDE DEF v
    <3>7. HandlerOK("plan", v, m, drafts) /\ v.ticket = Ticket /\ v \in Handlers
      BY <3>5, <3>6 DEF HandlerOK, Carries
    <3> QED BY <3>4, <3>7
  <2>2. CASE ~replace
    <3>1. flows' = [[flows EXCEPT !["op"] = Idle] EXCEPT !["plan"] = flows["plan"]]
      BY <1>1, <2>2
    <3> QED BY <1>1, <3>1
  <2> QED BY <2>1, <2>2
<1>9. /\ flows' \in [Flows -> Handlers \cup {Idle}] /\ flows'["plan"] = v /\ flows'["op"] = Idle
      /\ \A f \in Flows \ {"plan", "op"} : flows'[f] = flows[f]
  BY <1>1, <1>8
<1>10. \A f \in {"plan", "op"} : flows'[f] = Idle \/ HandlerOK(f, flows'[f], m', drafts)
  <2>1. flows'["plan"] = Idle \/ HandlerOK("plan", flows'["plan"], m, drafts)
    BY <1>1, <1>8, <1>9, HandlerFacts, IdleFacts
  <2>2. flows'["plan"] = Idle \/ HandlerOK("plan", flows'["plan"], m', drafts)
    <3>1. CASE flows'["plan"] # Idle
      <4>1. flows'["plan"] \in Handlers /\ HandlerOK("plan", flows'["plan"], m, drafts)
        BY <1>1, <1>9, <2>1, <3>1
      <4>2. drafts \in Seq(Drafts) /\ m \in Documents /\ Grown(drafts, drafts) /\ Same(flows'["plan"], flows'["plan"])
        BY DEF PageInv, Shapes, Grown, Same
      <4>3. m' \in Documents /\ Forward(m, m')
        BY <1>4 DEF Learnt
      <4> QED BY <4>1, <4>2, <4>3, HandlerStays
    <3> QED BY <3>1
  <2> QED BY <1>9, <2>2
<1>11. PlacesOK'
  <2>1. flows'["route"] = flows["route"] /\ ~Busy("op")' /\ page' = "workbench" /\ dialog'.open
    BY <1>1, <1>6, <1>9 DEF Busy, Idle
  <2>2. Busy("route")' => flows'["route"].ticket.active <= active' /\ flows'["route"].ticket.active # active'
    BY <2>1 DEF PageInv, PlacesOK, Busy
  <2>3. Busy("plan") => ~flows["plan"].shown
    BY <1>5 DEF PageInv, PlacesOK
  <2>4. Busy("plan")' /\ flows'["plan"].shown => flows'["plan"].ticket = dialog'.ticket
    BY <1>6, <1>8, <1>9, <2>3 DEF Busy
  <2> QED BY <2>1, <2>2, <2>4 DEF PlacesOK
<1>12. DialogOK'
  <2>1. Behind(Ticket, m')
    BY <1>4, TicketIs DEF Learnt, Behind
  <2> QED BY <1>4, <1>6, <1>7, <2>1 DEF DialogOK, Learnt
<1>13. /\ {"plan", "op"} \in SUBSET Flows /\ page' \in {"loading", "workbench", "away"} /\ active' \in Nat
       /\ m' \in Documents /\ DocumentOK(m', drafts) /\ Forward(m, m')
       /\ \A f \in Flows \ {"plan", "op"} : Kept(flows[f], flows'[f])
  BY <1>1, <1>4, <1>9 DEF Learnt, Kept
<1> QED BY <1>6, <1>7, <1>9, <1>10, <1>11, <1>12, <1>13, MovesKeep

\* reviewClearScope goes on with a larger document.
LEMMA ScopeGrows ==
  ASSUME PageInv, Busy("op"), UNCHANGED <<drafts, schema, runs, page, active, dialog, listing>>, recovery # <<>>,
         NEW d \in Docs, NEW y, y = [touch(m) EXCEPT !.doc = d], m' = y,
         flows' = [flows EXCEPT !["op"] = IF Saving THEN Idle ELSE FlowOf(y, "save", "summary")],
         recovery' = <<[epoch |-> y.epoch, lifecycle |-> m.lifecycle, state |-> "pending", doc |-> d]>>
  PROVE  PageInv'
<1>1. flows \in [Flows -> Handlers \cup {Idle}] /\ {"op", "plan", "route"} \subseteq Flows /\ active \in Nat
      /\ drafts \in Seq(Drafts) /\ m \in Documents
  BY DEF PageInv, Shapes, Flows
<1>2. y \in Documents /\ DocumentOK(y, drafts) /\ Forward(m, y) /\ y.id = m.id
  BY <1>1, EditIs DEF Documents
<1>3. y.epoch = m.epoch + 1 /\ y.doc = d /\ y.epoch \in Nat
  BY <1>1 DEF touch, Documents
<1>4. recovery' \in Optional(Recoveries) /\ recovery'[1].epoch = y.epoch /\ recovery'[1].doc = d
  <2>1. [epoch |-> y.epoch, lifecycle |-> m.lifecycle, state |-> "pending", doc |-> d] \in Recoveries
    BY <1>1, <1>3 DEF Recoveries, Documents
  <2> QED BY <2>1 DEF Optional
<1>5. ~dialog.open /\ page = "workbench"
  BY DEF PageInv, PlacesOK
<1> DEFINE v == FlowOf(y, "save", "summary")
<1>6. v \in Handlers /\ HandlerOK("op", v, y, drafts)
  <2>1. "save" \in Steps /\ "save" \in StepsOf("op") /\ "summary" \in Kinds
    BY DEF Steps, StepsOf, Kinds
  <2>2. Begun(v, "op", y, drafts, "save", "summary")
    BY <1>1, <1>2, <2>1, HandlerBegins
  <2> HIDE DEF v
  <2> QED BY <2>2 DEF Begun, HandlerOK, Carries
<1>7. PICK u \in Handlers \cup {Idle} : flows' = [flows EXCEPT !["op"] = u] /\ (u = Idle \/ HandlerOK("op", u, y, drafts))
  BY <1>6
<1> HIDE DEF v
<1>8. flows' \in [Flows -> Handlers \cup {Idle}] /\ flows'["op"] = u /\ (\A f \in Flows \ {"op"} : flows'[f] = flows[f])
  BY <1>1, <1>7
<1>9. PlacesOK'
  BY <1>1, <1>5, <1>8 DEF PageInv, PlacesOK, Busy
<1>10. DialogOK'
  BY <1>3, <1>4, <1>5 DEF DialogOK
<1>11. /\ {"op"} \in SUBSET Flows /\ page' \in {"loading", "workbench", "away"} /\ active' \in Nat /\ dialog' \in Dialogs \cup {Closed}
       /\ (\A f \in {"op"} : flows'[f] = Idle \/ HandlerOK(f, flows'[f], m', drafts))
       /\ (\A f \in Flows \ {"op"} : Kept(flows[f], flows'[f]))
  BY <1>1, <1>5, <1>7, <1>8 DEF PageInv, Shapes, Kept
<1> QED BY <1>2, <1>4, <1>8, <1>9, <1>10, <1>11, MovesKeep

LEMMA AnswerOperationKeeps ==
  ASSUME PageInv, AnswerOperation
  PROVE  PageInv'
<1>1. Busy("op") /\ "op" \in Flows \ {"plan"} /\ UNCHANGED <<drafts, schema, runs, page, active, listing>> /\ ~dialog.open
  BY DEF AnswerOperation, Outcomes, Flows, PageInv, PlacesOK
<1>2. PICK w \in Handlers : w = flows["op"] /\ HandlerOK("op", w, m, drafts)
  BY <1>1, HandlerFacts
<1>3. PICK ok \in Outcomes("op") :
        CASE ok /\ w.kind = "summary" /\ w.step = "save" ->
               /\ m' = Saved("op")
               /\ flows' = [flows EXCEPT !["op"] = IF Noted("op") /\ ModalCurrent("op") THEN [Flow("check", "summary") EXCEPT !.schema = m.schema] ELSE Idle]
               /\ UNCHANGED <<dialog, recovery>>
          [] ok /\ w.kind = "summary" /\ w.step = "check" /\ ModalCurrent("op") /\ page = "workbench" ->
               LET replace == recovery # <<>>
               IN  /\ ~(replace /\ Busy("plan"))
                   /\ m' = Checked("op")
                   /\ dialog' = [open |-> TRUE, ticket |-> Ticket, replace |-> replace, busy |-> FALSE, plan |-> <<>>]
                   /\ flows' = [flows EXCEPT !["op"] = Idle,
                                  !["plan"] = IF replace THEN [Flow("plan", "plan") EXCEPT !.doc = w.doc] ELSE @]
                   /\ recovery' = IF replace THEN Context("checking", w.doc) ELSE <<>>
          [] ok /\ w.kind = "scope" ->
               \/ FinishOperation(FALSE)
               \/ /\ Current("op") /\ recovery # <<>> /\ m.epoch < MaxEpoch
                  /\ \E d \in Docs \ {Empty, m.doc} :
                       LET added == [touch(m) EXCEPT !.doc = d]
                       IN  /\ m' = added
                           /\ flows' = [flows EXCEPT !["op"] = IF Saving THEN Idle ELSE FlowOf(added, "save", "summary")]
                           /\ recovery' = <<[epoch |-> added.epoch, lifecycle |-> m.lifecycle, state |-> "pending", doc |-> d]>>
                           /\ UNCHANGED dialog
          [] ok /\ w.kind = "document" -> ApplyDocument \/ FinishOperation(FALSE)
          [] OTHER -> FinishOperation(ok)
  BY <1>2 DEF AnswerOperation
<1>4. (ok => w.ok) /\ ok \in BOOLEAN
  BY <1>1, <1>2 DEF Outcomes, Handlers
<1>5. w.step = "parse" => w.kind = "document"
  BY <1>2 DEF HandlerOK, Carries
<1>6. CASE ok /\ w.kind = "summary" /\ w.step = "save"
  <2>1. Learnt(m')
    BY <1>1, <1>2, <1>3, <1>4, <1>6, SavedIs
  <2>2. recovery' \in {recovery, <<>>} /\ dialog' = dialog
    BY <1>3, <1>6
  <2> DEFINE b == Flow("check", "summary")
             v == [b EXCEPT !.schema = m.schema]
  <2>3. flows' = [flows EXCEPT !["op"] = v] \/ flows' = [flows EXCEPT !["op"] = Idle]
    BY <1>3, <1>6
  <2>4. Begun(b, "op", m, drafts, "check", "summary")
    <3>1. active \in Nat /\ drafts \in Seq(Drafts) /\ m \in Documents /\ DocumentOK(m, drafts)
      BY DEF PageInv, Shapes
    <3>2. "check" \in Steps /\ "check" \in StepsOf("op") /\ "summary" \in Kinds
      BY DEF Steps, StepsOf, Kinds
    <3> QED BY <3>1, <3>2, HandlerBegins DEF Flow
  <2> HIDE DEF b
  <2>5. v = b /\ v \in Handlers
    BY <2>4 DEF Begun, Handlers
  <2>6. HandlerOK("op", v, m, drafts)
    BY <2>4, <2>5 DEF Begun, HandlerOK, Carries
  <2> HIDE DEF v
  <2> QED BY <1>1, <2>1, <2>2, <2>3, <2>5, <2>6, LearntKeeps
<1>7. CASE ok /\ w.kind = "summary" /\ w.step = "check" /\ ModalCurrent("op") /\ page = "workbench"
  <2> DEFINE replace == recovery # <<>>
  <2>1. /\ ~(replace /\ Busy("plan")) /\ m' = Checked("op")
        /\ dialog' = [open |-> TRUE, ticket |-> Ticket, replace |-> replace, busy |-> FALSE, plan |-> <<>>]
        /\ flows' = [flows EXCEPT !["op"] = Idle,
                       !["plan"] = IF replace THEN [Flow("plan", "plan") EXCEPT !.doc = w.doc] ELSE @]
        /\ recovery' = IF replace THEN Context("checking", w.doc) ELSE <<>>
    BY <1>3, <1>7
  <2>2. replace \in BOOLEAN /\ Current("op")
    BY <1>7 DEF ModalCurrent
  <2> HIDE DEF replace
  <2> QED BY <1>1, <1>2, <1>7, <2>1, <2>2, DialogOpens
<1>8. ASSUME FinishOperation(FALSE)
      PROVE  PageInv'
  BY <1>1, <1>8, FinishKeeps
<1>9. CASE ok /\ w.kind = "scope"
  <2>1. CASE /\ recovery # <<>>
             /\ \E d \in Docs \ {Empty, m.doc} :
                  LET added == [touch(m) EXCEPT !.doc = d]
                  IN  /\ m' = added
                      /\ flows' = [flows EXCEPT !["op"] = IF Saving THEN Idle ELSE FlowOf(added, "save", "summary")]
                      /\ recovery' = <<[epoch |-> added.epoch, lifecycle |-> m.lifecycle, state |-> "pending", doc |-> d]>>
                      /\ UNCHANGED dialog
    <3>1. PICK d \in Docs \ {Empty, m.doc} :
                  LET added == [touch(m) EXCEPT !.doc = d]
                  IN  /\ m' = added
                      /\ flows' = [flows EXCEPT !["op"] = IF Saving THEN Idle ELSE FlowOf(added, "save", "summary")]
                      /\ recovery' = <<[epoch |-> added.epoch, lifecycle |-> m.lifecycle, state |-> "pending", doc |-> d]>>
                      /\ UNCHANGED dialog
      BY <2>1
    <3> DEFINE y == [touch(m) EXCEPT !.doc = d]
    <3>2. /\ m' = y /\ flows' = [flows EXCEPT !["op"] = IF Saving THEN Idle ELSE FlowOf(y, "save", "summary")]
          /\ recovery' = <<[epoch |-> y.epoch, lifecycle |-> m.lifecycle, state |-> "pending", doc |-> d]>> /\ UNCHANGED dialog
      BY <3>1
    <3> HIDE DEF y
    <3>3. y = [touch(m) EXCEPT !.doc = d] /\ d \in Docs
      BY DEF y
    <3> QED BY <1>1, <2>1, <3>2, <3>3, ScopeGrows
  <2> QED BY <1>3, <1>8, <1>9, <2>1
<1>10. CASE ok /\ w.kind = "document"
  <2>1. CASE ApplyDocument
    <3>1. PICK d \in Docs : m' = [touch(m) EXCEPT !.doc = d]
      BY <2>1 DEF ApplyDocument
    <3>2. m' \in Documents /\ DocumentOK(m', drafts) /\ Forward(m, m') /\ m'.id = m.id
      BY <3>1, EditIs DEF PageInv, Shapes
    <3>3. flows' = [flows EXCEPT !["op"] = Idle] /\ recovery' = <<>> /\ dialog' = dialog
      BY <2>1 DEF ApplyDocument, End
    <3> QED BY <1>1, <3>2, <3>3, StepKeeps
  <2> QED BY <1>3, <1>8, <1>10, <2>1
<1>11. CASE FinishOperation(ok) /\ ~(ok /\ w.kind = "document")
  <2>1. ok => flows["op"].ok /\ flows["op"].step # "parse"
    BY <1>2, <1>4, <1>5, <1>11
  <2> QED BY <1>1, <1>4, <1>11, <2>1, FinishKeeps
<1> QED BY <1>3, <1>6, <1>7, <1>9, <1>10, <1>11

LEMMA ForwardOn ==
  ASSUME NEW x \in Documents, NEW y \in Documents, NEW z \in Documents, Forward(x, y), Forward(y, z)
  PROVE  Forward(x, z)
BY DEF Forward, Documents

\* What the link w leads to takes the place of the document x.
LEMMA ReplacementIs ==
  ASSUME PageInv, NEW w \in Handlers, w.kind \in {"plain", "new", "draft", "run"},
         w.kind = "draft" => w.got \in {<<r>> : r \in Answers} /\ Holds(drafts, w.got[1]),
         w.kind = "run" => w.got \in {<<d>> : d \in Docs},
         NEW x \in Documents, DocumentOK(x, drafts), Forward(m, x), Empty \in Docs
  PROVE  Replacement(w, x) \in Documents /\ DocumentOK(Replacement(w, x), drafts) /\ Forward(m, Replacement(w, x))
<1> DEFINE y == Replacement(w, x)
<1>1. schema \in Nat /\ m \in Documents
  BY DEF PageInv, Shapes
<1>2. ASSUME y \in Documents, DocumentOK(y, drafts), Forward(x, y)
      PROVE  y \in Documents /\ DocumentOK(y, drafts) /\ Forward(m, y)
  <2> HIDE DEF y
  <2> QED BY <1>1, <1>2, ForwardOn
<1>3. CASE w.kind = "new"
  <2>1. y = Document(x.id + 1, Empty, <<>>, -1)
    BY <1>3 DEF Replacement
  <2>2. y = [id |-> x.id + 1, doc |-> Empty, epoch |-> 0, savedEpoch |-> -1, lifecycle |-> 0, saved |-> <<>>,
             check |-> <<>>, cache |-> <<>>, schema |-> schema]
    BY <2>1 DEF Document
  <2> HIDE DEF y
  <2>3. <<>> \in Optional(Names) /\ <<>> \in Optional(Contents) /\ <<>> \in Optional([epoch : Nat, doc : Docs])
        /\ x.id + 1 \in Nat /\ -1 \in Int
    BY DEF Optional, Documents
  <2>4. y \in Documents
    BY <1>1, <2>2, <2>3 DEF Documents
  <2>5. /\ y.id = x.id + 1 /\ y.epoch = 0 /\ y.check = <<>> /\ y.cache = <<>> /\ y.saved = <<>> /\ y.savedEpoch = -1
        /\ y.doc = Empty
    BY <2>2
  <2>6. DocumentOK(y, drafts) /\ Forward(x, y)
    BY <2>4, <2>5, DocumentReplaced
  <2> QED BY <1>2, <2>4, <2>6 DEF y
<1>4. CASE w.kind = "draft"
  <2>1. PICK got \in Answers : w.got = <<got>> /\ Holds(drafts, got)
    BY <1>4
  <2>2. PICK e \in {-1, 0} : y = Document(x.id + 1, got.doc, <<[id |-> got.id, rev |-> got.rev, doc |-> got.doc]>>, e)
    BY <1>4, <2>1 DEF Replacement
  <2> HIDE DEF y
  <2>3. y \in Documents /\ DocumentOK(y, drafts) /\ Forward(x, y)
    BY <1>1, <2>1, <2>2, OpenedIs
  <2> QED BY <1>2, <2>3 DEF y
<1>5. CASE w.kind = "run"
  <2>1. PICK d \in Docs : w.got = <<d>>
    BY <1>5
  <2>2. y = [touch(x) EXCEPT !.doc = d, !.saved = <<>>]
    BY <1>5, <2>1 DEF Replacement
  <2> HIDE DEF y
  <2>3. /\ y.id = x.id /\ y.epoch = x.epoch + 1 /\ y.savedEpoch = x.savedEpoch /\ y.saved = <<>> /\ y.check = <<>> /\ y.cache = x.cache
    BY <2>2 DEF touch, Documents
  <2>4. y \in Documents
    <3>1. <<>> \in Optional(Contents) /\ <<>> \in Optional(Names) /\ x.epoch + 1 \in Nat
      BY DEF Optional, Documents
    <3>2. \A e \in Nat, c \in Optional(Contents) : [x EXCEPT !.epoch = e, !.check = c] \in Documents
      BY DEF Documents
    <3>3. touch(x) \in Documents
      BY <3>1, <3>2 DEF touch
    <3>4. \A t \in Documents, s \in Optional(Names) : [t EXCEPT !.doc = d, !.saved = s] \in Documents
      BY DEF Documents
    <3> QED BY <2>2, <3>1, <3>3, <3>4
  <2>5. y.saved \in {x.saved, <<>>}
    BY <2>3
  <2>6. DocumentOK(y, drafts) /\ Forward(x, y)
    BY <2>3, <2>4, <2>5, DocumentTouched
  <2> QED BY <1>2, <2>4, <2>6 DEF y
<1>6. CASE w.kind = "plain"
  <2>1. y = x
    BY <1>6 DEF Replacement
  <2> QED BY <2>1
<1> QED BY <1>3, <1>4, <1>5, <1>6

\* mount saves what is unsaved before the link it followed takes its place.
LEMMA SaveFirstKeeps ==
  ASSUME PageInv, UNCHANGED <<drafts, schema, runs, active, dialog, recovery, listing>>, Empty \in Docs, page = "loading",
         NEW w \in Handlers, w.kind \in {"plain", "new", "draft", "run"},
         w.kind = "draft" => w.got \in {<<r>> : r \in Answers} /\ Holds(drafts, w.got[1]),
         w.kind = "run" => w.got \in {<<d>> : d \in Docs},
         NEW x \in Documents, DocumentOK(x, drafts), Forward(m, x), x.id = m.id, SaveFirst(w, x)
  PROVE  PageInv'
<1>1. CASE Drawn(Replacement(w, x))
  <2>1. m' = Replacement(w, x) /\ page' \in {"workbench", "away"} /\ flows' = [flows EXCEPT !["route"] = Idle]
    BY <1>1 DEF Drawn, End
  <2>2. m' \in Documents /\ DocumentOK(m', drafts) /\ Forward(m, m')
    BY <2>1, ReplacementIs
  <2> QED BY <2>1, <2>2, RouteEnds
<1>2. CASE Failed(x)
  <2>1. m' = x /\ page' \in {"workbench", "away"} /\ flows' = [flows EXCEPT !["route"] = Idle]
    BY <1>2 DEF Failed, End
  <2>2. m' \in Documents /\ DocumentOK(m', drafts) /\ Forward(m, m')
    BY <2>1
  <2> QED BY <2>1, <2>2, RouteEnds
<1>3. CASE Begin("route", [FlowOf(x, "save", w.kind) EXCEPT !.got = w.got]) /\ m' = x /\ UNCHANGED page
  <2> DEFINE b == FlowOf(x, "save", w.kind)
             v == [b EXCEPT !.got = w.got]
  <2>1. Begun(b, "route", x, drafts, "save", w.kind)
    <3>1. active \in Nat /\ drafts \in Seq(Drafts)
      BY DEF PageInv, Shapes
    <3>2. "save" \in Steps /\ "save" \in StepsOf("route") /\ w.kind \in Kinds
      BY DEF Steps, StepsOf, Kinds
    <3> QED BY <3>1, <3>2, HandlerBegins
  <2>2. flows' = [flows EXCEPT !["route"] = v]
    BY <1>3 DEF Begin
  <2> HIDE DEF b
  <2>3. b \in Handlers /\ Remembers("route", b, x, drafts) /\ b.step = "save" /\ b.kind = w.kind /\ b.ticket.active = active
    BY <2>1 DEF Begun
  <2>4. v \in Handlers /\ v.got = w.got
    BY <2>3 DEF Handlers
  <2>5. /\ v.step = b.step /\ v.kind = b.kind /\ v.ticket = b.ticket /\ v.served = b.served /\ v.ok = b.ok /\ v.doc = b.doc
        /\ v.schema = b.schema /\ v.id = b.id /\ v.rev = b.rev
    BY <2>3 DEF Handlers
  <2> HIDE DEF v
  <2>6. Remembers("route", v, x, drafts)
    BY <2>3, <2>5 DEF Remembers, Holds
  <2>7. Carries("route", v, x, drafts)
    BY <2>3, <2>4, <2>5 DEF Carries
  <2>8. HandlerOK("route", v, m', drafts)
    BY <1>3, <2>6, <2>7 DEF HandlerOK
  <2>9. m' \in Documents /\ DocumentOK(m', drafts) /\ Forward(m, m') /\ m'.id = m.id /\ page' = page
    BY <1>3
  <2>10. "route" \in Flows \ {"plan"} /\ v.ticket.active <= active /\ active \in Nat
    BY <2>3, <2>5 DEF Flows, PageInv, Shapes
  <2> QED BY <2>2, <2>4, <2>8, <2>9, <2>10, StepKeeps
<1> QED BY <1>1, <1>2, <1>3 DEF SaveFirst

LEMMA AnswerRouteKeeps ==
  ASSUME PageInv, Empty \in Docs, AnswerRoute
  PROVE  PageInv'
<1>1. Busy("route") /\ "route" \in Flows \ {"plan"} /\ UNCHANGED <<drafts, schema, runs, active, dialog, recovery, listing>>
  BY DEF AnswerRoute, Outcomes, Flows
<1>2. PICK w \in Handlers : w = flows["route"] /\ HandlerOK("route", w, m, drafts)
  BY <1>1, HandlerFacts
<1> DEFINE adopted == IF w.schema = m.schema THEN m ELSE [touch(m) EXCEPT !.schema = w.schema]
           begun == [FlowOf(adopted, "get", w.kind) EXCEPT !.id = w.id, !.got = IF w.kind = "run" THEN <<w.doc>> ELSE <<>>]
<1>3. PICK ok \in Outcomes("route") :
        CASE w.step = "save" /\ ok ->
               IF Noted("route") /\ Mounted /\ Current("route")
               THEN Drawn(Replacement(w, Saved("route")))
               ELSE m' = Saved("route") /\ End("route") /\ UNCHANGED page
          [] w.step # "save" /\ ~Mounted -> End("route") /\ UNCHANGED <<m, page>>
          [] ~ok /\ Mounted -> Failed(m)
          [] ok /\ Mounted /\ w.step = "schema" ->
               IF w.kind \in {"plain", "new"} THEN SaveFirst(w, adopted)
               ELSE Begin("route", begun) /\ m' = adopted /\ UNCHANGED page
          [] ok /\ Mounted /\ w.step = "get" ->
               IF Current("route") THEN SaveFirst(w, m) ELSE End("route") /\ UNCHANGED <<m, page>>
          [] OTHER -> End("route") /\ UNCHANGED <<m, page>>
  BY <1>2 DEF AnswerRoute
<1>4. ok => w.ok
  BY <1>1, <1>2 DEF Outcomes, Handlers
<1>5. m \in Documents /\ DocumentOK(m, drafts) /\ Forward(m, m) /\ drafts \in Seq(Drafts) /\ active \in Nat
  BY DEF PageInv, Shapes, Forward
<1>6. Mounted => page = "loading"
  BY <1>1 DEF Mounted, PageInv, PlacesOK
<1>7. /\ w.kind \in {"plain", "new", "draft", "run"}
      /\ w.step = "get" => w.kind \in {"draft", "run"}
      /\ w.kind = "draft" /\ w.step # "save" => w.id \in DOMAIN drafts
      /\ w.kind = "draft" /\ (w.step = "save" \/ (w.step = "get" /\ w.ok)) =>
           w.got \in {<<r>> : r \in Answers} /\ Holds(drafts, w.got[1])
      /\ w.kind = "run" /\ w.step \in {"get", "save"} => w.got \in {<<d>> : d \in Docs}
  BY <1>2 DEF HandlerOK, Carries
<1>8. ASSUME End("route"), UNCHANGED page, Learnt(m')
      PROVE  PageInv'
  BY <1>1, <1>8, LearntKeeps DEF End
<1>9. CASE w.step = "save" /\ ok
  <2>1. Learnt(Saved("route"))
    BY <1>1, <1>2, <1>4, <1>9, SavedIs
  <2>2. CASE Mounted /\ Drawn(Replacement(w, Saved("route")))
    <3> DEFINE x == Saved("route")
    <3>1. x \in Documents /\ DocumentOK(x, drafts) /\ Forward(m, x)
      BY <2>1 DEF Learnt
    <3>2. m' = Replacement(w, x) /\ page' \in {"workbench", "away"} /\ flows' = [flows EXCEPT !["route"] = Idle]
      BY <2>2 DEF Drawn, End
    <3> HIDE DEF x
    <3>3. m' \in Documents /\ DocumentOK(m', drafts) /\ Forward(m, m')
      BY <1>7, <1>9, <3>1, <3>2, ReplacementIs
    <3> QED BY <1>1, <1>6, <2>2, <3>2, <3>3, RouteEnds
  <2>3. CASE m' = Saved("route") /\ End("route") /\ UNCHANGED page
    BY <1>8, <2>1, <2>3
  <2> QED BY <1>3, <1>9, <2>2, <2>3
<1>10. CASE End("route") /\ UNCHANGED <<m, page>>
  BY <1>8, <1>10, LearntNothing
<1>11. CASE Mounted /\ Failed(m)
  <2>1. m' = m /\ page' \in {"workbench", "away"} /\ flows' = [flows EXCEPT !["route"] = Idle]
    BY <1>11 DEF Failed, End
  <2> QED BY <1>1, <1>5, <1>6, <1>11, <2>1, RouteEnds
<1>12. adopted \in Documents /\ DocumentOK(adopted, drafts) /\ Forward(m, adopted) /\ adopted.id = m.id
  <2>1. CASE w.schema = m.schema
    BY <1>5, <2>1
  <2>2. CASE w.schema # m.schema
    <3> DEFINE y == [touch(m) EXCEPT !.schema = w.schema]
    <3>1. adopted = y /\ w.schema \in Nat /\ m.doc \in Docs
      BY <1>5, <2>2 DEF Handlers, Documents
    <3> HIDE DEF adopted
    <3> QED BY <3>1, EditIs
  <2> QED BY <2>1, <2>2
<1>13. CASE ok /\ Mounted /\ w.step = "schema"
  <2>1. CASE w.kind \in {"plain", "new"} /\ SaveFirst(w, adopted)
    <3> HIDE DEF adopted
    <3> QED BY <1>1, <1>6, <1>7, <1>12, <1>13, <2>1, SaveFirstKeeps
  <2>2. CASE w.kind \in {"draft", "run"} /\ Begin("route", begun) /\ m' = adopted /\ UNCHANGED page
    <3> HIDE DEF adopted
    <3> DEFINE b == FlowOf(adopted, "get", w.kind)
               g == IF w.kind = "run" THEN <<w.doc>> ELSE <<>>
               v == [b EXCEPT !.id = w.id, !.got = g]
    <3>1. Begun(b, "route", adopted, drafts, "get", w.kind)
      <4>1. "get" \in Steps /\ "get" \in StepsOf("route") /\ w.kind \in Kinds
        BY DEF Steps, StepsOf, Handlers
      <4> QED BY <1>5, <1>12, <4>1, HandlerBegins
    <3>2. flows' = [flows EXCEPT !["route"] = v]
      BY <2>2 DEF Begin
    <3>3. g \in Optional(Nat \cup Docs \cup Answers \cup Confirmed) /\ (w.kind = "run" => g \in {<<d>> : d \in Docs})
      <4>1. w.doc \in Docs
        BY DEF Handlers
      <4> QED BY <4>1 DEF Optional
    <3> HIDE DEF b, g
    <3>4. b \in Handlers /\ Remembers("route", b, adopted, drafts) /\ b.step = "get" /\ b.kind = w.kind /\ b.ticket.active = active
          /\ b.ok = FALSE
      BY <3>1 DEF Begun
    <3>5. v \in Handlers /\ v.got = g /\ v.id = w.id
      <4>1. w.id \in Nat
        BY DEF Handlers
      <4> QED BY <3>3, <3>4, <4>1 DEF Handlers
    <3>6. /\ v.step = b.step /\ v.kind = b.kind /\ v.ticket = b.ticket /\ v.served = b.served /\ v.ok = b.ok /\ v.doc = b.doc
          /\ v.schema = b.schema
      BY <3>4 DEF Handlers
    <3> HIDE DEF v
    <3>7. Remembers("route", v, adopted, drafts)
      BY <3>4, <3>6 DEF Remembers
    <3>8. Carries("route", v, adopted, drafts)
      BY <1>7, <1>13, <2>2, <3>3, <3>4, <3>5, <3>6 DEF Carries
    <3>9. HandlerOK("route", v, m', drafts) /\ v.ticket.active <= active
      BY <1>5, <2>2, <3>4, <3>6, <3>7, <3>8 DEF HandlerOK
    <3>10. m' \in Documents /\ DocumentOK(m', drafts) /\ Forward(m, m') /\ m'.id = m.id /\ page' = page /\ page = "loading"
      BY <1>6, <1>12, <1>13, <2>2
    <3> QED BY <1>1, <3>2, <3>5, <3>9, <3>10, StepKeeps
  <2> QED BY <1>3, <1>7, <1>13, <2>1, <2>2
<1>14. CASE ok /\ Mounted /\ w.step = "get"
  <2>1. CASE SaveFirst(w, m)
    <3>1. m.id = m.id /\ page = "loading"
      BY <1>6, <1>14
    <3> QED BY <1>1, <1>4, <1>5, <1>7, <1>14, <2>1, <3>1, SaveFirstKeeps
  <2> QED BY <1>3, <1>10, <1>14, <2>1
<1>15. w.step \in {"schema", "get", "save"} /\ ok \in BOOLEAN
  BY <1>1, <1>2 DEF HandlerOK, Remembers, StepsOf, Outcomes, Handlers
<1> HIDE DEF adopted, begun
<1> QED BY <1>3, <1>9, <1>10, <1>11, <1>13, <1>14, <1>15

(***************************************************************************)
(* The invariant.                                                          *)
(***************************************************************************)
LEMMA Beginning ==
  ASSUME PageAssumption, Init
  PROVE  PageInv
<1>1. <<>> \in Optional(Names) /\ <<>> \in Optional(Contents) /\ <<>> \in Optional([epoch : Nat, doc : Docs])
      /\ <<>> \in Optional(Recoveries) /\ <<>> \in Seq(Drafts) /\ DOMAIN <<>> = {}
  BY DEF Optional
<1>2. m = [id |-> 1, doc |-> Empty, epoch |-> 0, savedEpoch |-> -1, lifecycle |-> 0, saved |-> <<>>,
           check |-> <<>>, cache |-> <<>>, schema |-> 0]
  BY DEF Init, Document
<1>3. m \in Documents
  BY <1>1, <1>2 DEF Documents, PageAssumption
<1>4. DocumentOK(m, drafts)
  BY <1>2 DEF DocumentOK, Dirty
<1>5. Shapes
  BY <1>1, <1>3 DEF Init, Shapes, PageAssumption
<1>6. \A f \in Flows : ~Busy(f)
  BY DEF Init, Busy, Idle
<1>7. {"route", "op", "plan"} \subseteq Flows
  BY DEF Flows
<1>8. HandlersOK /\ PlacesOK /\ DialogOK /\ RunsOK
  BY <1>6, <1>7 DEF Init, HandlersOK, PlacesOK, DialogOK, RunsOK, RunsAreAsSeen, Closed
<1> QED BY <1>4, <1>5, <1>8 DEF PageInv

LEMMA Standing ==
  ASSUME PageInv, UNCHANGED vars
  PROVE  PageInv'
<1>1. UNCHANGED <<m, drafts, schema, runs, page, active, flows, dialog, recovery, listing>>
  BY DEF vars
<1>2. Shapes' /\ DocumentOK(m, drafts)' /\ RunsOK'
  BY <1>1 DEF PageInv, Shapes, RunsOK, RunsAreAsSeen
<1>3. HandlersOK'
  BY <1>1 DEF PageInv, HandlersOK, Busy
<1>4. PlacesOK' /\ DialogOK'
  BY <1>1 DEF PageInv, PlacesOK, DialogOK, Busy
<1> QED BY <1>2, <1>3, <1>4 DEF PageInv

LEMMA NextKeeps ==
  ASSUME PageAssumption, PageInv, [Next]_vars
  PROVE  PageInv'
<1>1. Empty \in Docs
  BY DEF PageAssumption
<1>2. CASE Serve \/ OtherTab \/ Migrate
  BY <1>2, ServeKeeps, OtherTabKeeps, MigrateKeeps
<1>3. CASE Edit \/ AnswerOperation
  BY <1>3, EditKeeps, AnswerOperationKeeps
<1>4. CASE \E kind \in {"save", "check", "preview", "schema", "document", "summary"} : StartOperation(kind)
  BY <1>4, StartOperationKeeps
<1>5. CASE SelectAppend \/ SelectReplace \/ AnswerPlan \/ Submit \/ AnswerRun \/ CloseDialog \/ ReviewScope
  BY <1>5, SelectAppendKeeps, SelectReplaceKeeps, AnswerPlanKeeps, SubmitKeeps, AnswerRunKeeps, CloseDialogKeeps, ReviewScopeKeeps
<1>6. CASE OpenDraft \/ AnswerOpen \/ CloseList \/ Navigate \/ Leave \/ AnswerRoute
  BY <1>1, <1>6, OpenDraftKeeps, AnswerOpenKeeps, CloseListKeeps, NavigateKeeps, LeaveKeeps, AnswerRouteKeeps
<1>7. CASE OpenAI \/ OpenSettings \/ OpenRule \/ AnswerAsk \/ Apply \/ CloseAsk
  <2>1. OpenAI => Ask("suggest", "ai")
    BY DEF OpenAI
  <2>2. OpenSettings => Ask("providers", "settings")
    BY DEF OpenSettings
  <2>3. OpenRule => Ask("review", "rule")
    BY DEF OpenRule
  <2> QED BY <1>7, <2>1, <2>2, <2>3, AskKeeps, AnswerAskKeeps, ApplyKeeps, CloseAskKeeps
<1>8. CASE List \/ AnswerManage \/ \E step \in {"rename", "delete"} : Manage(step)
  BY <1>8, ListKeeps, AnswerManageKeeps, ManageKeeps
<1>9. CASE UNCHANGED vars
  BY <1>9, Standing
<1> QED BY <1>2, <1>3, <1>4, <1>5, <1>6, <1>7, <1>8, <1>9 DEF Next

\* Whatever the tabs, the schema and the user do between a request and its answer, each handler of the page, the clear
\* dialog and the recovery remember a document that is not ahead of the one on the page, and its content when the
\* epochs agree; what a save or a read was told is in a draft of the server.
THEOREM PageIsSound ==
  ASSUME PageAssumption
  PROVE  Spec => []PageInv
<1>1. Init => PageInv
  BY Beginning
<1>2. PageInv /\ [Next]_vars => PageInv'
  BY NextKeeps
<1> QED BY <1>1, <1>2, PTL DEF Spec

(***************************************************************************)
(* What makes way for another document.                                    *)
(***************************************************************************)
LEMMA DocStands ==
  ASSUME m'.doc = m.doc \/ (flows'["open"] = flows["open"] /\ flows'["route"] = flows["route"])
  PROVE  KeptOrEmpty
BY DEF KeptOrEmpty, Opening

LEMMA DocIsStored ==
  ASSUME Somewhere(drafts, m.doc) \/ m.doc = Empty
  PROVE  KeptOrEmpty
BY DEF KeptOrEmpty, Somewhere, InSomeDraft

LEMMA AnswerOpenStores ==
  ASSUME PageInv, AnswerOpen
  PROVE  KeptOrEmpty
<1>1. Busy("open") /\ "open" \in Flows
  BY DEF AnswerOpen, Outcomes, Flows
<1>2. PICK w \in Handlers : w = flows["open"] /\ HandlerOK("open", w, m, drafts)
  BY <1>1, HandlerFacts
<1>3. PICK ok \in Outcomes("open") :
        CASE ok /\ w.step = "save" -> m' = Saved("open")
          [] ok /\ w.step = "get" /\ MayOpen("open") -> m' = Opened(w.got[1])
          [] OTHER -> UNCHANGED m
  BY <1>2 DEF AnswerOpen
<1>4. ok => w.ok
  BY <1>1, <1>2 DEF Outcomes, Handlers
<1>5. CASE ok /\ w.step = "save"
  <2>1. Learnt(m')
    BY <1>1, <1>2, <1>3, <1>4, <1>5, SavedIs
  <2> QED BY <2>1, DocStands DEF Learnt
<1>6. CASE ok /\ w.step = "get" /\ MayOpen("open")
  <2>1. AtEpoch(w.ticket, m)
    BY <1>2, <1>6, TicketIs DEF MayOpen, Current
  <2>2. m.doc = Empty \/ Somewhere(drafts, m.doc)
    BY <1>2, <1>6, <2>1 DEF HandlerOK, Carries
  <2> QED BY <2>2, DocIsStored
<1>7. CASE UNCHANGED m
  BY <1>7, DocStands
<1> QED BY <1>3, <1>5, <1>6, <1>7

LEMMA SaveFirstStores ==
  ASSUME PageInv, NEW w, NEW x \in Documents, DocumentOK(x, drafts), x.doc = m.doc, SaveFirst(w, x)
  PROVE  KeptOrEmpty
<1>1. CASE m' = x
  BY <1>1, DocStands
<1>2. CASE w.kind = "plain" /\ Drawn(Replacement(w, x))
  BY <1>1, <1>2 DEF Drawn, Replacement
<1>3. CASE ~Unsaved(x)
  <2>1. CASE x.saved = <<>>
    <3>1. x.epoch = 0
      BY <1>3, <2>1 DEF Unsaved, DocumentOK, Documents
    <3> QED BY <3>1, DocIsStored DEF DocumentOK
  <2>2. CASE x.saved # <<>>
    <3>1. ~Dirty(x)
      BY <1>3, <2>2 DEF Unsaved
    <3>2. Somewhere(drafts, m.doc)
      BY <2>2, <3>1 DEF DocumentOK
    <3> QED BY <3>2, DocIsStored
  <2> QED BY <2>1, <2>2
<1> QED BY <1>1, <1>2, <1>3 DEF SaveFirst, Failed

LEMMA AnswerRouteStores ==
  ASSUME PageInv, Empty \in Docs, AnswerRoute
  PROVE  KeptOrEmpty
<1>1. Busy("route") /\ "route" \in Flows
  BY DEF AnswerRoute, Outcomes, Flows
<1>2. PICK w \in Handlers : w = flows["route"] /\ HandlerOK("route", w, m, drafts)
  BY <1>1, HandlerFacts
<1> DEFINE adopted == IF w.schema = m.schema THEN m ELSE [touch(m) EXCEPT !.schema = w.schema]
<1>3. PICK ok \in Outcomes("route") :
        CASE w.step = "save" /\ ok ->
               IF Noted("route") /\ Mounted /\ Current("route") THEN Drawn(Replacement(w, Saved("route"))) ELSE m' = Saved("route")
          [] w.step # "save" /\ ~Mounted -> UNCHANGED m
          [] ~ok /\ Mounted -> Failed(m)
          [] ok /\ Mounted /\ w.step = "schema" -> IF w.kind \in {"plain", "new"} THEN SaveFirst(w, adopted) ELSE m' = adopted
          [] ok /\ Mounted /\ w.step = "get" -> IF Current("route") THEN SaveFirst(w, m) ELSE UNCHANGED m
          [] OTHER -> UNCHANGED m
  BY <1>2 DEF AnswerRoute
<1>4. (ok => w.ok) /\ m \in Documents /\ DocumentOK(m, drafts)
  BY <1>1, <1>2 DEF Outcomes, Handlers, PageInv, Shapes
<1>5. CASE w.step = "save" /\ ok
  <2>1. Learnt(Saved("route")) /\ Holds(drafts, w)
    BY <1>1, <1>2, <1>4, <1>5, SavedIs
  <2>2. CASE Current("route")
    <3>1. w.doc = m.doc
      <4>1. AtEpoch(w.ticket, m)
        BY <1>2, <2>2, TicketIs DEF Current
      <4> QED BY <1>2, <1>5, <4>1 DEF HandlerOK, Remembers
    <3>2. Somewhere(drafts, m.doc)
      BY <2>1, <3>1, HoldsSomewhere
    <3> QED BY <3>2, DocIsStored
  <2>3. CASE m' = Saved("route")
    BY <2>1, <2>3, DocStands DEF Learnt
  <2> QED BY <1>3, <1>5, <2>2, <2>3
<1>6. CASE UNCHANGED m
  BY <1>6, DocStands
<1>7. CASE Failed(m)
  BY <1>7, DocStands DEF Failed
<1>8. adopted \in Documents /\ DocumentOK(adopted, drafts) /\ adopted.doc = m.doc
  <2>1. CASE w.schema = m.schema
    BY <1>4, <2>1
  <2>2. CASE w.schema # m.schema
    <3>1. adopted = [touch(m) EXCEPT !.schema = w.schema] /\ w.schema \in Nat /\ m.doc \in Docs
      BY <1>4, <2>2 DEF Handlers, Documents
    <3>2. adopted.doc = m.doc
      BY <1>4, <3>1 DEF touch, Documents
    <3> HIDE DEF adopted
    <3> QED BY <3>1, <3>2, EditIs
  <2> QED BY <2>1, <2>2
<1> HIDE DEF adopted
<1>9. CASE SaveFirst(w, adopted)
  BY <1>8, <1>9, SaveFirstStores
<1>10. CASE m' = adopted
  BY <1>8, <1>10, DocStands
<1>11. CASE SaveFirst(w, m)
  BY <1>4, <1>11, SaveFirstStores
<1>12. w.step \in {"schema", "get", "save"} /\ ok \in BOOLEAN
  BY <1>1, <1>2 DEF HandlerOK, Remembers, StepsOf, Outcomes, Handlers
<1> QED BY <1>3, <1>5, <1>6, <1>7, <1>9, <1>10, <1>11, <1>12

LEMMA StepStores ==
  ASSUME PageAssumption, PageInv, [Next]_vars
  PROVE  KeptOrEmpty
<1>1. flows \in [Flows -> Handlers \cup {Idle}] /\ {"open", "route"} \subseteq Flows /\ Empty \in Docs
  BY DEF PageInv, Shapes, Flows, PageAssumption
<1>2. CASE UNCHANGED m
  BY <1>2, DocStands
<1>3. CASE Edit
  BY <1>3, DocStands DEF Edit
<1>4. CASE AnswerOperation
  <2>1. PICK ok \in Outcomes("op") : TRUE
    BY <1>4 DEF AnswerOperation
  <2>2. flows'["open"] = flows["open"] /\ flows'["route"] = flows["route"]
    <3>1. \A k : FinishOperation(k) => flows' = [flows EXCEPT !["op"] = Idle]
      BY DEF FinishOperation, End
    <3>2. ApplyDocument => flows' = [flows EXCEPT !["op"] = Idle]
      BY DEF ApplyDocument, End
    <3>3. \/ \E u : flows' = [flows EXCEPT !["op"] = u]
          \/ \E u, v : flows' = [flows EXCEPT !["op"] = u, !["plan"] = v]
      BY <1>4, <3>1, <3>2 DEF AnswerOperation
    <3> QED BY <1>1, <3>3
  <2> QED BY <2>2, DocStands
<1>5. CASE Apply
  <2>1. flows' = [flows EXCEPT !["ask"] = Idle]
    BY <1>5 DEF Apply, End
  <2> QED BY <1>1, <2>1, DocStands
<1>6. CASE AnswerManage
  <2>1. m'.doc = m.doc
    <3>1. \A w : Heard(w).doc = m.doc
      BY DEF Heard, PageInv, Shapes, Documents
    <3> QED BY <1>6, <3>1 DEF AnswerManage
  <2> QED BY <2>1, DocStands
<1>7. CASE AnswerOpen \/ AnswerRoute
  BY <1>1, <1>7, AnswerOpenStores, AnswerRouteStores
<1>8. Serve \/ OtherTab \/ Migrate \/ (\E kind \in {"save", "check", "preview", "schema", "document", "summary"} : StartOperation(kind))
        => UNCHANGED m
  BY DEF Serve, OtherTab, Migrate, StartOperation
<1>9. SelectAppend \/ SelectReplace \/ AnswerPlan \/ Submit \/ AnswerRun \/ CloseDialog \/ ReviewScope => UNCHANGED m
  BY DEF SelectAppend, SelectReplace, AnswerPlan, Submit, AnswerRun, CloseDialog, ReviewScope
<1>10. OpenDraft \/ CloseList \/ Navigate \/ Leave => UNCHANGED m
  BY DEF OpenDraft, CloseList, Navigate, Leave
<1>11. OpenAI \/ OpenSettings \/ OpenRule \/ AnswerAsk \/ CloseAsk \/ List \/ (\E step \in {"rename", "delete"} : Manage(step))
         => UNCHANGED m
  BY DEF OpenAI, OpenSettings, OpenRule, Ask, AnswerAsk, CloseAsk, List, Manage
<1>12. UNCHANGED vars => UNCHANGED m
  BY DEF vars
<1> QED BY <1>2, <1>3, <1>4, <1>5, <1>6, <1>7, <1>8, <1>9, <1>10, <1>11, <1>12 DEF Next

\* The answer to a draft or a task the user asked for replaces no edit made since it was asked for: openDraft and the
\* page's navigation compare the ticket they took, and abandon what is out of date.
THEOREM EditsAreKept ==
  ASSUME PageAssumption
  PROVE  Spec => NoEditIsDiscarded
<1>1. PageInv /\ [Next]_vars => KeptOrEmpty
  BY StepStores
<1>2. PageInv /\ [Next]_vars => [KeptOrEmpty]_vars
  BY <1>1
<1>3. Spec => []PageInv
  BY PageIsSound
<1> QED BY <1>2, <1>3, PTL DEF Spec, NoEditIsDiscarded

(***************************************************************************)
(* What a rename is about to tell the page.                                *)
(***************************************************************************)
Known(x, ds) == x.saved # <<>> => Holds(ds, x.saved[1])
InStepWith(id, rev) ==
  /\ m.saved # <<>> /\ m.saved[1].id = id => m.saved[1].rev = rev
  /\ \A f \in Flows : flows[f].step = "save" /\ flows[f].ok /\ flows[f].id = id => flows[f].rev = rev

\* A rename w builds on the revision the page has, or will be refused; once it is done, the draft
\* holds the same content twice, and no save can follow the revision the page has.
RenameFits(w) ==
  /\ ~w.served => w.rev < Len(drafts[w.id].revisions) \/ InStepWith(w.id, w.rev)
  /\ w.ok =>
       /\ w.rev - 1 \in DOMAIN drafts[w.id].revisions /\ Stored(w.id, w.rev).doc = Stored(w.id, w.rev - 1).doc
       /\ InStepWith(w.id, w.rev - 1)
       /\ \A f \in Flows : flows[f].step = "save" /\ flows[f].id = w.id => flows[f].rev < w.rev
RenameOK == flows["manage"].step = "rename" => RenameFits(flows["manage"])
ManagedAway == Busy("manage") => page = "away"
ListShown == Busy("open") /\ flows["open"].shown => page = "workbench"
RenameInv == Known(m, drafts) /\ RenameOK /\ ManagedAway /\ ListShown

\* No save begins or is answered, and what the page takes note of is the answer to one.
SavesAsBefore ==
  \A f \in Flows : flows'[f].step = "save" =>
    flows[f].step = "save" /\ flows'[f].id = flows[f].id /\ flows'[f].rev = flows[f].rev /\ flows'[f].ok = flows[f].ok
SavedAsBefore ==
  \/ m'.saved \in {m.saved, <<>>}
  \/ \E f \in Flows : /\ flows[f].step = "save" /\ flows[f].ok
                      /\ m'.saved = <<[id |-> flows[f].id, rev |-> flows[f].rev, doc |-> flows[f].doc]>>

LEMMA InStepStays ==
  ASSUME SavesAsBefore, SavedAsBefore, NEW id, NEW rev, InStepWith(id, rev)
  PROVE  InStepWith(id, rev)'
<1>1. \A f \in Flows : flows'[f].step = "save" /\ flows'[f].ok /\ flows'[f].id = id => flows'[f].rev = rev
  BY DEF SavesAsBefore, InStepWith
<1>2. m'.saved # <<>> /\ m'.saved[1].id = id => m'.saved[1].rev = rev
  <2>1. CASE m'.saved \in {m.saved, <<>>}
    BY <2>1 DEF InStepWith
  <2>2. CASE \E f \in Flows : /\ flows[f].step = "save" /\ flows[f].ok
                              /\ m'.saved = <<[id |-> flows[f].id, rev |-> flows[f].rev, doc |-> flows[f].doc]>>
    <3>1. PICK f \in Flows : /\ flows[f].step = "save" /\ flows[f].ok
                             /\ m'.saved = <<[id |-> flows[f].id, rev |-> flows[f].rev, doc |-> flows[f].doc]>>
      BY <2>2
    <3>2. m'.saved[1].id = flows[f].id /\ m'.saved[1].rev = flows[f].rev
      BY <3>1
    <3>3. flows[f].id = id => flows[f].rev = rev
      BY <3>1 DEF InStepWith
    <3> QED BY <3>2, <3>3
  <2> QED BY <2>1, <2>2 DEF SavedAsBefore
<1> QED BY <1>1, <1>2 DEF InStepWith

LEMMA KnownStays ==
  ASSUME PageInv, PageInv', Known(m, drafts), Grown(drafts, drafts'), SavedAsBefore
  PROVE  Known(m, drafts)'
<1>1. drafts \in Seq(Drafts) /\ drafts' \in Seq(Drafts)
  BY DEF PageInv, Shapes
<1>2. \A s : Holds(drafts, s) => Holds(drafts', s)
  BY <1>1, GrownKeeps
<1>3. CASE m'.saved \in {m.saved, <<>>}
  BY <1>2, <1>3 DEF Known
<1>4. CASE \E f \in Flows : /\ flows[f].step = "save" /\ flows[f].ok
                            /\ m'.saved = <<[id |-> flows[f].id, rev |-> flows[f].rev, doc |-> flows[f].doc]>>
  <2>1. PICK f \in Flows : /\ flows[f].step = "save" /\ flows[f].ok
                           /\ m'.saved = <<[id |-> flows[f].id, rev |-> flows[f].rev, doc |-> flows[f].doc]>>
    BY <1>4
  <2>2. Busy(f)
    BY <2>1 DEF Busy
  <2>3. Holds(drafts, flows[f])
    BY <2>1, <2>2, HandlerFacts DEF HandlerOK, Remembers
  <2>4. Holds(drafts', flows[f])
    BY <1>2, <2>3
  <2> QED BY <2>1, <2>4 DEF Known, Holds
<1> QED BY <1>3, <1>4 DEF SavedAsBefore

LEMMA RenameStays ==
  ASSUME PageInv, PageInv', RenameOK, Grown(drafts, drafts'), SavesAsBefore, SavedAsBefore, flows'["manage"] = flows["manage"]
  PROVE  RenameOK'
<1> SUFFICES ASSUME flows["manage"].step = "rename"
             PROVE  RenameFits(flows["manage"])'
  BY DEF RenameOK
<1>1. PICK w \in Handlers : w = flows["manage"] /\ HandlerOK("manage", w, m, drafts)
  BY HandlerFacts DEF Flows, Busy
<1>2. Has(drafts, w.id, w.rev) /\ RenameFits(w) /\ w.id \in Nat /\ w.rev \in Nat
  BY <1>1 DEF HandlerOK, Carries, RenameOK, Handlers
<1>3. drafts \in Seq(Drafts) /\ drafts' \in Seq(Drafts) /\ w.id \in DOMAIN drafts /\ w.id \in DOMAIN drafts'
      /\ Len(drafts[w.id].revisions) <= Len(drafts'[w.id].revisions)
      /\ Len(drafts[w.id].revisions) \in Nat /\ Len(drafts'[w.id].revisions) \in Nat
  <2>1. drafts \in Seq(Drafts) /\ drafts' \in Seq(Drafts) /\ w.id \in DOMAIN drafts
    BY <1>2 DEF PageInv, Shapes, Has
  <2>2. w.id \in DOMAIN drafts' /\ Len(drafts[w.id].revisions) <= Len(drafts'[w.id].revisions)
    BY <2>1, GrownKeeps
  <2>3. drafts[w.id] \in Drafts /\ drafts'[w.id] \in Drafts
    BY <2>1, <2>2
  <2> QED BY <2>1, <2>2, <2>3 DEF Drafts
<1>4. \A rev : InStepWith(w.id, rev) => InStepWith(w.id, rev)'
  BY InStepStays
<1>5. ~w.served => w.rev < Len(drafts'[w.id].revisions) \/ InStepWith(w.id, w.rev)'
  BY <1>2, <1>3, <1>4 DEF RenameFits
<1>6. w.ok => InStepWith(w.id, w.rev - 1)'
  BY <1>2, <1>4 DEF RenameFits
<1>7. w.ok => /\ w.rev - 1 \in DOMAIN drafts'[w.id].revisions
              /\ drafts'[w.id].revisions[w.rev].doc = drafts'[w.id].revisions[w.rev - 1].doc
  BY <1>2, <1>3 DEF RenameFits, Grown, Has, Stored
<1>8. w.ok => \A f \in Flows : flows'[f].step = "save" /\ flows'[f].id = w.id => flows'[f].rev < w.rev
  BY <1>2 DEF RenameFits, SavesAsBefore
<1>9. flows'["manage"] = w
  BY <1>1
<1> QED BY <1>5, <1>6, <1>7, <1>8, <1>9 DEF RenameFits, Stored

\* The page, and the handler that manages drafts, stay.
LEMMA QuietKeeps ==
  ASSUME PageInv, PageInv', RenameInv, Grown(drafts, drafts'), page' = page, flows'["manage"] = flows["manage"], ListShown',
         SavedAsBefore, page = "away" => SavesAsBefore
  PROVE  RenameInv'
<1>1. Known(m, drafts)' /\ ManagedAway'
  BY KnownStays DEF RenameInv, ManagedAway, Busy
<1>2. CASE page = "away"
  <2>1. RenameOK'
    BY <1>2, RenameStays DEF RenameInv
  <2> QED BY <1>1, <2>1 DEF RenameInv
<1>3. CASE page # "away"
  <2>1. RenameOK'
    BY <1>3 DEF RenameInv, ManagedAway, Busy, RenameOK
  <2> QED BY <1>1, <2>1 DEF RenameInv
<1> QED BY <1>2, <1>3

\* Nobody manages drafts.
LEMMA UnmanagedKeeps ==
  ASSUME ~Busy("manage")', Known(m, drafts)', ListShown'
  PROVE  RenameInv'
BY DEF RenameInv, RenameOK, ManagedAway, Busy

LEMMA WorkbenchKeeps ==
  ASSUME RenameInv, page = "workbench", page' = page, drafts' = drafts, m'.saved = m.saved, flows'["manage"] = flows["manage"]
  PROVE  RenameInv'
<1>1. ~Busy("manage")' /\ ListShown' /\ Known(m, drafts)'
  BY DEF RenameInv, ManagedAway, ListShown, Known, Busy
<1> QED BY <1>1, UnmanagedKeeps

\* The server saves f, or refuses to.
LEMMA SaveServed ==
  ASSUME PageInv, NEW f \in Flows, Busy(f), ~flows[f].served, flows[f].step = "save", ServeSave(f)
  PROVE  \E v \in Handlers, w \in Handlers :
           /\ w = flows[f] /\ flows' = [flows EXCEPT ![f] = v] /\ v.step = "save" /\ v.shown = w.shown
           /\ drafts \in Seq(Drafts) /\ Grown(drafts, drafts')
           /\ \/ v.ok = FALSE /\ v.id = w.id /\ v.rev = w.rev
              \/ v.id = Len(drafts) + 1
              \/ v.id = w.id /\ w.id \in DOMAIN drafts /\ Len(drafts[w.id].revisions) = w.rev /\ v.rev = w.rev + 1
                 /\ Len(drafts'[w.id].revisions) = w.rev + 1
<1>0. PICK w \in Handlers : w = flows[f] /\ HandlerOK(f, w, m, drafts)
  BY HandlerFacts
<1> DEFINE c == [doc |-> w.doc, schema |-> w.schema]
<1>1. w.ok = FALSE
  BY <1>0 DEF HandlerOK, Remembers, Handlers
<1>2. c \in Contents /\ w.rev \in Nat /\ w.id \in Nat /\ w.schema \in Nat /\ w.got \in Gots /\ drafts \in Seq(Drafts)
  BY DEF Contents, Handlers, Gots, PageInv, Shapes
<1>3. CASE /\ drafts' = Append(drafts, [alive |-> TRUE, revisions |-> <<c>>])
           /\ Granted(f, [w EXCEPT !.id = Len(drafts) + 1, !.rev = 1])
  <2>1. Grown(drafts, drafts')
    BY <1>2, <1>3, NewDraft
  <2> DEFINE v == Grant(w, Len(drafts) + 1, 1, w.schema, w.got)
  <2>2. flows' = [flows EXCEPT ![f] = v]
    BY <1>3 DEF Granted, Answered, Grant, Handlers
  <2>3. Len(drafts) + 1 \in Nat
    BY <1>2
  <2>4. Granting(v, w, Len(drafts) + 1, 1, w.schema, w.got)
    BY <1>2, <2>3, GrantIs
  <2> HIDE DEF v
  <2>5. v \in Handlers /\ v.step = "save" /\ v.shown = w.shown /\ v.id = Len(drafts) + 1
    BY <1>0, <2>4 DEF Granting
  <2> QED BY <1>0, <1>2, <2>1, <2>2, <2>5
<1>4. CASE AtRevision(w.id, w.rev) /\ Revise(w.id, c) /\ Granted(f, [w EXCEPT !.rev = @ + 1])
  <2>0. w.id \in DOMAIN drafts /\ Len(drafts[w.id].revisions) = w.rev
    BY <1>4 DEF AtRevision
  <2>1. Grown(drafts, drafts') /\ Len(drafts'[w.id].revisions) = w.rev + 1
    BY <1>2, <1>4, <2>0, RevisedDrafts
  <2> DEFINE v == Grant(w, w.id, w.rev + 1, w.schema, w.got)
  <2>2. flows' = [flows EXCEPT ![f] = v]
    BY <1>4 DEF Granted, Answered, Grant, Handlers
  <2>3. w.rev + 1 \in Nat
    BY <1>2
  <2>4. Granting(v, w, w.id, w.rev + 1, w.schema, w.got)
    BY <1>2, <2>3, GrantIs
  <2> HIDE DEF v
  <2>5. v \in Handlers /\ v.step = "save" /\ v.shown = w.shown /\ v.id = w.id /\ v.rev = w.rev + 1
    BY <1>0, <2>4 DEF Granting
  <2> QED BY <1>0, <1>2, <2>0, <2>1, <2>2, <2>5
<1>5. CASE Refused(f)
  <2> DEFINE v == Refusal(w)
  <2>1. flows' = [flows EXCEPT ![f] = v]
    BY <1>0, <1>1, <1>5 DEF Refused, Answered, Refusal, Handlers
  <2>2. Refusing(v, w)
    BY RefusalIs
  <2> HIDE DEF v
  <2>3. Grown(drafts, drafts')
    BY <1>5 DEF Refused, Server, Grown
  <2>4. v \in Handlers /\ v.step = "save" /\ v.shown = w.shown /\ v.id = w.id /\ v.rev = w.rev /\ v.ok = FALSE
    BY <1>0, <2>2 DEF Refusing
  <2> QED BY <1>0, <1>2, <2>1, <2>3, <2>4
<1> QED BY <1>0, <1>3, <1>4, <1>5 DEF ServeSave

\* A save that is served does not get in the way of a rename.
LEMMA SaveServedFits ==
  ASSUME PageInv, PageInv', RenameInv, NEW f \in Flows, Busy(f), ~flows[f].served, flows[f].step = "save", ServeSave(f),
         UNCHANGED <<m, page>>
  PROVE  RenameInv'
<1>1. PICK v \in Handlers, w \in Handlers :
           /\ w = flows[f] /\ flows' = [flows EXCEPT ![f] = v] /\ v.step = "save" /\ v.shown = w.shown
           /\ drafts \in Seq(Drafts) /\ Grown(drafts, drafts')
           /\ \/ v.ok = FALSE /\ v.id = w.id /\ v.rev = w.rev
              \/ v.id = Len(drafts) + 1
              \/ v.id = w.id /\ w.id \in DOMAIN drafts /\ Len(drafts[w.id].revisions) = w.rev /\ v.rev = w.rev + 1
                 /\ Len(drafts'[w.id].revisions) = w.rev + 1
  BY SaveServed
<1>2. f \notin {"manage"} /\ flows \in [Flows -> Handlers \cup {Idle}] /\ w.rev \in Nat /\ "manage" \in Flows /\ "open" \in Flows
  BY HandlerFacts DEF HandlerOK, Remembers, StepsOf, PageInv, Shapes, Handlers, Flows
<1>3. flows'[f] = v /\ (\A g \in Flows \ {f} : flows'[g] = flows[g]) /\ flows'["manage"] = flows["manage"]
  BY <1>1, <1>2
<1>4. SavedAsBefore /\ ManagedAway'
  BY <1>3 DEF SavedAsBefore, RenameInv, ManagedAway, Busy
<1>5. Known(m, drafts)'
  BY <1>1, <1>4, KnownStays DEF RenameInv
<1>6. RenameOK'
  <2> SUFFICES ASSUME flows["manage"].step = "rename"
               PROVE  RenameFits(flows["manage"])'
    BY <1>3 DEF RenameOK
  <2>1. PICK r \in Handlers : r = flows["manage"] /\ HandlerOK("manage", r, m, drafts)
    BY HandlerFacts DEF Flows, Busy
  <2>2. Has(drafts, r.id, r.rev) /\ RenameFits(r) /\ r.id \in Nat /\ r.rev \in Nat
    BY <2>1 DEF HandlerOK, Carries, RenameInv, RenameOK, Handlers
  <2>3. r.id \in DOMAIN drafts /\ r.id \in DOMAIN drafts' /\ Len(drafts[r.id].revisions) <= Len(drafts'[r.id].revisions)
        /\ Len(drafts[r.id].revisions) \in Nat /\ Len(drafts'[r.id].revisions) \in Nat
        /\ r.rev <= Len(drafts[r.id].revisions) /\ r.id <= Len(drafts)
    <3>1. drafts \in Seq(Drafts) /\ drafts' \in Seq(Drafts) /\ r.id \in DOMAIN drafts
      BY <2>2 DEF PageInv, Shapes, Has
    <3>2. r.id \in DOMAIN drafts' /\ Len(drafts[r.id].revisions) <= Len(drafts'[r.id].revisions)
      BY <1>1, <3>1, GrownKeeps
    <3>3. drafts[r.id] \in Drafts /\ drafts'[r.id] \in Drafts
      BY <3>1, <3>2
    <3> QED BY <2>2, <3>1, <3>2, <3>3 DEF Drafts, Has
  <2>4. ~r.served => r.rev < Len(drafts'[r.id].revisions) \/ InStepWith(r.id, r.rev)'
    <3>1. CASE r.rev < Len(drafts[r.id].revisions)
      BY <2>2, <2>3, <3>1
    <3>2. CASE v.ok /\ v.id = r.id /\ r.id = w.id
      BY <1>1, <1>2, <2>2, <2>3, <3>2
    <3>3. CASE ~(v.ok /\ v.id = r.id) /\ InStepWith(r.id, r.rev)
      BY <1>3, <3>3 DEF InStepWith
    <3> QED BY <1>1, <2>2, <2>3, <3>1, <3>2, <3>3 DEF RenameFits
  <2>5. ASSUME r.ok
        PROVE  /\ InStepWith(r.id, r.rev - 1)'
               /\ \A g \in Flows : flows'[g].step = "save" /\ flows'[g].id = r.id => flows'[g].rev < r.rev
    <3>1. InStepWith(r.id, r.rev - 1) /\ \A g \in Flows : flows[g].step = "save" /\ flows[g].id = r.id => flows[g].rev < r.rev
      BY <2>2, <2>5 DEF RenameFits
    <3>2. w.id = r.id => w.rev < r.rev
      BY <1>1, <3>1
    <3>3. v.id = r.id => v.ok = FALSE /\ w.id = r.id /\ v.rev = w.rev
      BY <1>1, <1>2, <2>2, <2>3, <3>2
    <3>4. InStepWith(r.id, r.rev - 1)'
      BY <1>3, <3>1, <3>3 DEF InStepWith
    <3> QED BY <1>3, <3>1, <3>2, <3>3, <3>4
  <2>6. r.ok => /\ r.rev - 1 \in DOMAIN drafts'[r.id].revisions
                /\ drafts'[r.id].revisions[r.rev].doc = drafts'[r.id].revisions[r.rev - 1].doc
    BY <1>1, <2>2, <2>3 DEF RenameFits, Grown, Has, Stored
  <2>7. flows'["manage"] = r
    BY <1>3, <2>1
  <2> QED BY <2>4, <2>5, <2>6, <2>7 DEF RenameFits, Stored
<1>7. ListShown'
  <2>1. Busy("open")' => Busy("open") /\ flows'["open"].shown = flows["open"].shown
    BY <1>1, <1>2, <1>3 DEF Busy
  <2> QED BY <2>1 DEF RenameInv, ListShown
<1> QED BY <1>4, <1>5, <1>6, <1>7 DEF RenameInv

\* A rename that is served finds the revision it builds on, which is the one the page has.
LEMMA ManageServedFits ==
  ASSUME PageInv, PageInv', RenameInv, Busy("manage"), ~flows["manage"].served, ServeManage, UNCHANGED <<m, page>>
  PROVE  RenameInv'
<1>0. PICK w \in Handlers : w = flows["manage"] /\ HandlerOK("manage", w, m, drafts)
  BY HandlerFacts DEF Flows
<1>1. /\ w.id \in Nat /\ w.rev \in Nat /\ w.schema \in Nat /\ w.got \in Gots /\ w.step \in {"rename", "delete"} /\ w.ok = FALSE
      /\ drafts \in Seq(Drafts) /\ "manage" \in Flows /\ Has(drafts, w.id, w.rev)
  BY <1>0 DEF HandlerOK, Remembers, Carries, StepsOf, Handlers, Gots, PageInv, Shapes, Flows
<1>2. drafts[w.id].revisions \in Seq(Contents) /\ w.id \in DOMAIN drafts
  <2>1. drafts[w.id] \in Drafts
    BY <1>1 DEF Has
  <2> QED BY <1>1, <2>1 DEF Drafts, Has
\* The manager goes on as v.
<1>3. ASSUME NEW v \in Handlers, flows' = [flows EXCEPT !["manage"] = v], Grown(drafts, drafts'), v.step # "rename" \/ RenameFits(v)'
      PROVE  RenameInv'
  <2>1. flows'["manage"] = v /\ (\A g \in Flows \ {"manage"} : flows'[g] = flows[g]) /\ "open" \in Flows \ {"manage"}
    BY <1>1, <1>3 DEF PageInv, Shapes, Flows
  <2>2. SavedAsBefore
    BY DEF SavedAsBefore
  <2>3. Known(m, drafts)'
    BY <1>3, <2>2, KnownStays DEF RenameInv
  <2>4. ManagedAway' /\ ListShown'
    BY <2>1 DEF RenameInv, ManagedAway, ListShown, Busy
  <2>5. RenameOK'
    BY <1>3, <2>1 DEF RenameOK
  <2> QED BY <2>3, <2>4, <2>5 DEF RenameInv
<1>4. CASE /\ AtRevision(w.id, w.rev) /\ w.step = "rename" /\ Revise(w.id, Stored(w.id, w.rev))
           /\ Granted("manage", [w EXCEPT !.rev = @ + 1])
  <2>1. Stored(w.id, w.rev) \in Contents /\ Len(drafts[w.id].revisions) = w.rev /\ w.rev \in DOMAIN drafts[w.id].revisions
    BY <1>1, <1>2, <1>4 DEF Stored, AtRevision, Has
  <2>2. /\ Grown(drafts, drafts') /\ Len(drafts'[w.id].revisions) = w.rev + 1
        /\ drafts'[w.id].revisions[w.rev + 1] = Stored(w.id, w.rev)
    BY <1>1, <1>2, <1>4, <2>1, RevisedDrafts
  <2> DEFINE v == Grant(w, w.id, w.rev + 1, w.schema, w.got)
  <2>3. flows' = [flows EXCEPT !["manage"] = v]
    BY <1>4 DEF Granted, Answered, Grant, Handlers
  <2>4. w.rev + 1 \in Nat
    BY <1>1
  <2>5. Granting(v, w, w.id, w.rev + 1, w.schema, w.got)
    BY <1>1, <2>4, GrantIs
  <2> HIDE DEF v
  <2>6. v \in Handlers /\ v.step = "rename" /\ v.served = TRUE /\ v.id = w.id /\ v.rev = w.rev + 1
    BY <1>4, <2>5 DEF Granting
  <2>7. \A g \in Flows : flows'[g].step = "save" => g # "manage" /\ flows'[g] = flows[g] /\ flows[g].step = "save"
    BY <1>1, <2>3, <2>6 DEF PageInv, Shapes
  <2>8. InStepWith(w.id, w.rev)'
    <3>1. InStepWith(w.id, w.rev)
      <4>1. RenameFits(w) /\ ~w.served
        BY <1>0, <1>4 DEF RenameInv, RenameOK
      <4> QED BY <1>1, <2>1, <4>1 DEF RenameFits
    <3>2. SavesAsBefore /\ SavedAsBefore
      BY <2>7 DEF SavesAsBefore, SavedAsBefore
    <3> QED BY <3>1, <3>2, InStepStays
  <2>9. \A g \in Flows : flows'[g].step = "save" /\ flows'[g].id = w.id => flows'[g].rev < w.rev + 1
    <3> SUFFICES ASSUME NEW g \in Flows, flows[g].step = "save", flows[g].id = w.id
                 PROVE  flows[g].rev < w.rev + 1
      BY <2>7
    <3>1. PICK s \in Handlers : s = flows[g] /\ HandlerOK(g, s, m, drafts)
      BY HandlerFacts DEF Busy
    <3>2. s.rev \in Nat /\ s.rev <= w.rev
      <4>1. CASE s.ok
        <5>1. Has(drafts, s.id, s.rev)
          BY <3>1, <4>1 DEF HandlerOK, Remembers, Holds
        <5> QED BY <1>2, <2>1, <3>1, <5>1 DEF Has, Handlers
      <4>2. CASE ~s.ok
        <5>1. s.id = 0 \/ s.rev <= Len(drafts[s.id].revisions)
          BY <3>1, <4>2 DEF HandlerOK, Remembers
        <5> QED BY <1>1, <1>2, <2>1, <3>1, <5>1 DEF Handlers
      <4> QED BY <4>1, <4>2
    <3> QED BY <1>1, <3>1, <3>2
  <2>10. /\ w.rev \in DOMAIN drafts'[w.id].revisions
         /\ drafts'[w.id].revisions[w.rev + 1].doc = drafts'[w.id].revisions[w.rev].doc
    BY <1>2, <2>1, <2>2 DEF Grown, Stored
  <2>11. v.rev - 1 = w.rev
    BY <1>1, <2>6
  <2>12. RenameFits(v)'
    BY <2>6, <2>8, <2>9, <2>10, <2>11 DEF RenameFits, Stored
  <2> QED BY <1>3, <2>2, <2>3, <2>6, <2>12
<1>5. CASE /\ drafts' = [drafts EXCEPT ![w.id].alive = FALSE] /\ w.step = "delete" /\ Granted("manage", w)
  <2>1. Grown(drafts, drafts')
    BY <1>1, <1>2, <1>5, DeletedDraft
  <2> DEFINE v == Grant(w, w.id, w.rev, w.schema, w.got)
  <2>2. flows' = [flows EXCEPT !["manage"] = v]
    BY <1>5 DEF Granted, Answered, Grant, Handlers
  <2>3. Granting(v, w, w.id, w.rev, w.schema, w.got)
    BY <1>1, GrantIs
  <2> HIDE DEF v
  <2>4. v \in Handlers /\ v.step # "rename"
    BY <1>5, <2>3 DEF Granting
  <2> QED BY <1>3, <2>1, <2>2, <2>4
<1>6. CASE Refused("manage")
  <2> DEFINE v == Refusal(w)
  <2>1. flows' = [flows EXCEPT !["manage"] = v]
    BY <1>0, <1>1, <1>6 DEF Refused, Answered, Refusal, Handlers
  <2>2. Refusing(v, w)
    BY RefusalIs
  <2>3. Grown(drafts, drafts')
    BY <1>6 DEF Refused, Server, Grown
  <2> HIDE DEF v
  <2>4. v \in Handlers /\ v.served = TRUE /\ v.ok = FALSE
    BY <2>2 DEF Refusing
  <2>5. RenameFits(v)'
    BY <2>4 DEF RenameFits
  <2> QED BY <1>3, <2>1, <2>3, <2>4, <2>5
<1> QED BY <1>0, <1>4, <1>5, <1>6 DEF ServeManage

Reply(w, o, t, g) == [w EXCEPT !.ok = o, !.schema = t, !.got = g]

LEMMA ServeFits ==
  ASSUME PageInv, PageInv', RenameInv, Serve
  PROVE  RenameInv'
<1>1. UNCHANGED <<m, page, active, front, dialog, recovery, listing>>
  BY DEF Serve
<1>2. PICK f \in Flows :
        /\ Busy(f) /\ ~flows[f].served /\ flows[f].step # "review"
        /\ CASE flows[f].step = "save" -> ServeSave(f)
             [] f = "run" -> ServeRun
             [] f = "manage" -> ServeManage
             [] OTHER -> ServeRead(f)
  BY DEF Serve
<1>3. flows[f].step \in StepsOf(f)
  BY <1>2, HandlerFacts DEF HandlerOK, Remembers
<1>4. CASE flows[f].step = "save"
  <2>0. f \notin {"run", "manage"}
    BY <1>3, <1>4 DEF StepsOf
  <2>1. ServeSave(f) /\ ~flows[f].served /\ UNCHANGED <<m, page>>
    BY <1>1, <1>2, <1>4, <2>0
  <2> QED BY <1>2, <1>4, <2>1, SaveServedFits
<1>5. CASE f = "manage"
  BY <1>1, <1>2, <1>3, <1>5, ManageServedFits DEF StepsOf
<1>6. CASE flows[f].step # "save" /\ f # "manage"
  <2>1. UNCHANGED drafts /\ \E v : flows' = [flows EXCEPT ![f] = v] /\ v.step = flows[f].step /\ v.shown = flows[f].shown
    <3>1. PICK w \in Handlers : w = flows[f] /\ HandlerOK(f, w, m, drafts)
      BY <1>2, HandlerFacts
    <3>2. UNCHANGED drafts /\ \E h : Answered(f, h) /\ \E o, t, g : h = Reply(w, o, t, g)
      <4>1. Answered(f, w) => Answered(f, Reply(w, w.ok, w.schema, w.got))
        BY DEF Reply, Handlers
      <4>2. \A o : Answered(f, [w EXCEPT !.ok = o]) => Answered(f, Reply(w, o, w.schema, w.got))
        BY DEF Reply, Handlers
      <4>3. Answered(f, [w EXCEPT !.schema = schema, !.ok = TRUE]) => Answered(f, Reply(w, TRUE, schema, w.got))
        BY DEF Reply, Handlers
      <4>4. \A g : Answered(f, [w EXCEPT !.got = g, !.ok = TRUE]) => Answered(f, Reply(w, TRUE, w.schema, g))
        BY DEF Reply, Handlers
      <4>5. CASE f = "run"
        <5>1. UNCHANGED drafts /\ (Answered(f, [w EXCEPT !.ok = TRUE]) \/ Answered(f, w))
          BY <1>2, <1>6, <3>1, <4>5 DEF ServeRun, Granted, Refused, Server
        <5> QED BY <4>1, <4>2, <5>1
      <4>6. CASE f # "run"
        <5>1. ServeRead(f)
          BY <1>2, <1>6, <4>6
        <5>2. UNCHANGED drafts
          BY <5>1 DEF ServeRead, Server
        <5>3. \/ Answered(f, w)
              \/ \E o : Answered(f, [w EXCEPT !.ok = o])
              \/ Answered(f, [w EXCEPT !.schema = schema, !.ok = TRUE])
              \/ \E g : Answered(f, [w EXCEPT !.got = g, !.ok = TRUE])
          <6>1. w.step \in {"check", "preview", "schema", "parse", "get", "plan", "suggest", "providers"}
            BY <1>2, <1>3, <1>6, <3>1, <4>6 DEF StepsOf, Flows
          <6> QED BY <3>1, <5>1, <6>1 DEF ServeRead, Granted
        <5> QED BY <4>1, <4>2, <4>3, <4>4, <5>2, <5>3
      <4> QED BY <4>5, <4>6
    <3>3. PICK o, t, g : Answered(f, Reply(w, o, t, g))
      BY <3>2
    <3> DEFINE v == [Reply(w, o, t, g) EXCEPT !.served = TRUE]
    <3>4. v.step = w.step /\ v.shown = w.shown
      BY DEF Reply, Handlers
    <3>5. flows' = [flows EXCEPT ![f] = v]
      BY <3>3 DEF Answered
    <3> HIDE DEF v
    <3> QED BY <3>1, <3>2, <3>4, <3>5
  <2>2. PICK v : flows' = [flows EXCEPT ![f] = v] /\ v.step = flows[f].step /\ v.shown = flows[f].shown
    BY <2>1
  <2>3. flows'[f] = v /\ (\A g \in Flows \ {f} : flows'[g] = flows[g]) /\ flows'["manage"] = flows["manage"]
    BY <1>6, <2>2 DEF PageInv, Shapes, Flows
  <2>4. SavesAsBefore /\ SavedAsBefore
    BY <1>1, <1>6, <2>2, <2>3 DEF SavesAsBefore, SavedAsBefore
  <2>5. ListShown'
    BY <1>1, <2>2, <2>3 DEF RenameInv, ListShown, Busy, Flows
  <2>6. Grown(drafts, drafts')
    BY <2>1 DEF Grown
  <2> QED BY <1>1, <2>3, <2>4, <2>5, <2>6, QuietKeeps
<1> QED BY <1>4, <1>5, <1>6

LEMMA OutsideFits ==
  ASSUME PageInv, PageInv', RenameInv, Grown(drafts, drafts'), UNCHANGED <<m, page, flows>>
  PROVE  RenameInv'
<1>1. SavesAsBefore /\ SavedAsBefore /\ ListShown' /\ flows'["manage"] = flows["manage"]
  BY DEF SavesAsBefore, SavedAsBefore, RenameInv, ListShown, Busy
<1> QED BY <1>1, QuietKeeps

LEMMA OtherTabGrows ==
  ASSUME PageInv, OtherTab
  PROVE  Grown(drafts, drafts')
<1>1. drafts \in Seq(Drafts) /\ schema \in Nat
  BY DEF PageInv, Shapes
<1>2. PICK id \in DOMAIN drafts, d \in Docs : Revise(id, [doc |-> d, schema |-> schema])
  BY DEF OtherTab
<1>3. [doc |-> d, schema |-> schema] \in Contents
  BY <1>1 DEF Contents
<1> QED BY <1>1, <1>2, <1>3, RevisedDrafts

\* A handler f other than the manager ends, or goes on as w, while the page stays.
LEMMA HandlerFits ==
  ASSUME PageInv, PageInv', RenameInv, UNCHANGED <<drafts, page>>, SavedAsBefore,
         NEW f \in Flows \ {"manage"}, NEW w, flows' = [flows EXCEPT ![f] = w],
         w.step # "save", f = "open" => w.step = "idle" \/ ~w.shown \/ page = "workbench"
  PROVE  RenameInv'
<1>1. flows'[f] = w /\ (\A g \in Flows \ {f} : flows'[g] = flows[g]) /\ {"manage", "open"} \subseteq Flows
  BY DEF PageInv, Shapes, Flows
<1>2. SavesAsBefore /\ flows'["manage"] = flows["manage"] /\ Grown(drafts, drafts')
  BY <1>1 DEF SavesAsBefore, Grown
<1>3. ListShown'
  BY <1>1 DEF RenameInv, ListShown, Busy
<1> QED BY <1>2, <1>3, QuietKeeps

LEMMA SavedFrom ==
  ASSUME NEW f \in Flows, flows[f].step = "save", flows[f].ok, m'.saved = Saved(f).saved, PageInv
  PROVE  SavedAsBefore
<1>1. CASE Noted(f)
  <2>1. m'.saved = <<[id |-> flows[f].id, rev |-> flows[f].rev, doc |-> flows[f].doc]>>
    BY <1>1 DEF Saved, markSaved, PageInv, Shapes, Documents
  <2> QED BY <2>1 DEF SavedAsBefore
<1>2. CASE ~Noted(f)
  BY <1>2 DEF Saved, SavedAsBefore
<1> QED BY <1>1, <1>2

\* What an edit, a check and a sample leave alone.
LEMMA SavedStays ==
  ASSUME PageInv
  PROVE  /\ \A d : [touch(m) EXCEPT !.doc = d].saved = m.saved
         /\ \A s : [touch(m) EXCEPT !.schema = s].saved = m.saved
         /\ \A f : Checked(f).saved = m.saved
         /\ \A c : [m EXCEPT !.cache = c].saved = m.saved
BY DEF PageInv, Shapes, Documents, touch, Checked

LEMMA FinishFits ==
  ASSUME PageInv, PageInv', RenameInv, UNCHANGED <<drafts, page>>, Busy("op"), NEW k \in BOOLEAN,
         k => flows["op"].ok /\ flows["op"].step # "parse", FinishOperation(k)
  PROVE  RenameInv'
<1>1. "op" \in Flows \ {"manage"} /\ flows' = [flows EXCEPT !["op"] = Idle] /\ Idle.step # "save"
  BY DEF FinishOperation, End, Flows, Idle
<1>2. flows["op"].step \in {"save", "check", "preview", "schema", "parse"}
  BY <1>1, HandlerFacts DEF HandlerOK, Remembers, StepsOf
<1>3. SavedAsBefore
  <2>1. CASE m'.saved = m.saved
    BY <2>1 DEF SavedAsBefore
  <2>2. CASE k /\ flows["op"].step = "save"
    <3>1. m' = Saved("op") /\ flows["op"].ok
      BY <2>2 DEF FinishOperation
    <3> QED BY <1>1, <2>2, <3>1, SavedFrom
  <2>3. CASE ~(k /\ flows["op"].step = "save")
    <3>1. CASE ~k
      BY <2>1, <3>1 DEF FinishOperation
    <3>2. CASE k /\ flows["op"].step = "check"
      BY <2>1, <3>2, SavedStays DEF FinishOperation
    <3>3. CASE k /\ flows["op"].step = "preview"
      BY <2>1, <3>3, SavedStays DEF FinishOperation
    <3>4. CASE k /\ flows["op"].step = "schema"
      BY <2>1, <3>4, SavedStays DEF FinishOperation
    <3> QED BY <1>2, <2>3, <3>1, <3>2, <3>3, <3>4
  <2> QED BY <2>2, <2>3
<1> QED BY <1>1, <1>3, HandlerFits

LEMMA AnswerOperationFits ==
  ASSUME PageInv, PageInv', RenameInv, AnswerOperation
  PROVE  RenameInv'
<1>1. Busy("op") /\ "op" \in Flows \ {"manage"} /\ UNCHANGED <<drafts, page>> /\ flows \in [Flows -> Handlers \cup {Idle}]
  BY DEF AnswerOperation, Outcomes, Flows, PageInv, Shapes
<1>2. PICK w \in Handlers : w = flows["op"] /\ HandlerOK("op", w, m, drafts)
  BY <1>1, HandlerFacts
<1>3. PICK ok \in Outcomes("op") :
        CASE ok /\ w.kind = "summary" /\ w.step = "save" ->
               /\ m' = Saved("op")
               /\ flows' = [flows EXCEPT !["op"] = IF Noted("op") /\ ModalCurrent("op") THEN [Flow("check", "summary") EXCEPT !.schema = m.schema] ELSE Idle]
          [] ok /\ w.kind = "summary" /\ w.step = "check" /\ ModalCurrent("op") /\ page = "workbench" ->
               LET replace == recovery # <<>>
               IN  /\ m' = Checked("op")
                   /\ flows' = [flows EXCEPT !["op"] = Idle,
                                  !["plan"] = IF replace THEN [Flow("plan", "plan") EXCEPT !.doc = w.doc] ELSE @]
          [] ok /\ w.kind = "scope" ->
               \/ FinishOperation(FALSE)
               \/ /\ recovery # <<>>
                  /\ \E d \in Docs \ {Empty, m.doc} :
                       LET added == [touch(m) EXCEPT !.doc = d]
                       IN  /\ m' = added
                           /\ flows' = [flows EXCEPT !["op"] = IF Saving THEN Idle ELSE FlowOf(added, "save", "summary")]
          [] ok /\ w.kind = "document" -> ApplyDocument \/ FinishOperation(FALSE)
          [] OTHER -> FinishOperation(ok)
  BY <1>2 DEF AnswerOperation
<1>4. (ok => w.ok) /\ ok \in BOOLEAN /\ (w.step = "parse" => w.kind = "document")
  BY <1>1, <1>2 DEF Outcomes, Handlers, HandlerOK, Carries
<1>5. CASE ok /\ w.kind = "summary" /\ w.step = "save"
  <2>1. SavedAsBefore
    BY <1>1, <1>2, <1>3, <1>4, <1>5, SavedFrom
  <2>2. PICK v : flows' = [flows EXCEPT !["op"] = v] /\ v.step # "save"
    <3>1. [Flow("check", "summary") EXCEPT !.schema = m.schema].step = "check" /\ Idle.step = "idle"
      BY DEF Flow, FlowOf, Idle
    <3> QED BY <1>3, <1>5, <3>1
  <2> QED BY <1>1, <2>1, <2>2, HandlerFits
<1>6. CASE ok /\ w.kind = "summary" /\ w.step = "check" /\ ModalCurrent("op") /\ page = "workbench"
  <2>1. m'.saved = m.saved
    BY <1>3, <1>6, SavedStays
  <2>2. PICK v : flows' = [flows EXCEPT !["op"] = Idle, !["plan"] = v]
    BY <1>3, <1>6
  <2>3. flows'["manage"] = flows["manage"]
    BY <1>1, <2>2 DEF Flows
  <2> QED BY <1>1, <1>6, <2>1, <2>3, WorkbenchKeeps
<1>7. ASSUME FinishOperation(FALSE)
      PROVE  RenameInv'
  BY <1>1, <1>7, FinishFits
<1>8. CASE ok /\ w.kind = "scope"
  <2>1. CASE /\ recovery # <<>>
             /\ \E d \in Docs \ {Empty, m.doc} :
                  LET added == [touch(m) EXCEPT !.doc = d]
                  IN  /\ m' = added
                      /\ flows' = [flows EXCEPT !["op"] = IF Saving THEN Idle ELSE FlowOf(added, "save", "summary")]
    <3>1. page = "workbench"
      BY <2>1 DEF PageInv, PlacesOK
    <3>2. m'.saved = m.saved
      BY <2>1, SavedStays
    <3>3. flows'["manage"] = flows["manage"]
      BY <1>1, <2>1 DEF Flows
    <3> QED BY <1>1, <3>1, <3>2, <3>3, WorkbenchKeeps
  <2> QED BY <1>3, <1>7, <1>8, <2>1
<1>9. CASE ok /\ w.kind = "document"
  <2>1. CASE ApplyDocument
    <3>1. m'.saved = m.saved /\ flows' = [flows EXCEPT !["op"] = Idle] /\ Idle.step # "save"
      BY <2>1, SavedStays DEF ApplyDocument, End, Idle
    <3>2. SavedAsBefore
      BY <3>1 DEF SavedAsBefore
    <3> QED BY <1>1, <3>1, <3>2, HandlerFits
  <2> QED BY <1>3, <1>7, <1>9, <2>1
<1>10. CASE FinishOperation(ok) /\ ~(ok /\ w.kind = "document")
  <2>1. ok => flows["op"].ok /\ flows["op"].step # "parse"
    BY <1>2, <1>4, <1>10
  <2> QED BY <1>1, <1>4, <1>10, <2>1, FinishFits
<1> QED BY <1>3, <1>5, <1>6, <1>8, <1>9, <1>10

\* The steps of a page that is shown.
LEMMA WorkbenchFits ==
  ASSUME PageInv, RenameInv,
         \/ Edit \/ SelectAppend \/ SelectReplace \/ Submit \/ CloseDialog \/ ReviewScope \/ OpenDraft
         \/ OpenAI \/ OpenSettings \/ OpenRule
         \/ \E kind \in {"save", "check", "preview", "schema", "document", "summary"} : StartOperation(kind)
  PROVE  RenameInv'
<1>1. flows \in [Flows -> Handlers \cup {Idle}] /\ "manage" \in Flows
  BY DEF PageInv, Shapes, Flows
<1>2. ASSUME UNCHANGED <<m, drafts, page>>, page = "workbench", flows'["manage"] = flows["manage"]
      PROVE  RenameInv'
  BY <1>2, WorkbenchKeeps
<1>3. dialog.open => page = "workbench"
  BY DEF PageInv, PlacesOK
<1>4. CASE Edit
  <2>1. m'.saved = m.saved /\ page = "workbench" /\ UNCHANGED <<drafts, page, flows>>
    BY <1>4, SavedStays DEF Edit, NoModal
  <2> QED BY <2>1, WorkbenchKeeps
<1>5. CASE SelectAppend
  <2>1. UNCHANGED <<m, drafts, page>> /\ dialog.open
    BY <1>5 DEF SelectAppend
  <2>2. flows'["manage"] = flows["manage"]
    BY <1>1, <1>5 DEF SelectAppend
  <2> QED BY <1>2, <1>3, <2>1, <2>2
<1>6. CASE SelectReplace
  <2>1. UNCHANGED <<m, drafts, page>> /\ dialog.open
    BY <1>6 DEF SelectReplace, isCurrent
  <2>2. flows'["manage"] = flows["manage"]
    BY <1>1, <1>6 DEF SelectReplace, Begin
  <2> QED BY <1>2, <1>3, <2>1, <2>2
<1>7. CASE Submit
  <2>1. UNCHANGED <<m, drafts, page>> /\ dialog.open
    BY <1>7 DEF Submit, isCurrent
  <2>2. flows'["manage"] = flows["manage"]
    BY <1>1, <1>7 DEF Submit, Begin
  <2> QED BY <1>2, <1>3, <2>1, <2>2
<1>8. Orphaned(flows)["manage"] = flows["manage"] /\ Orphaned(flows) \in [Flows -> Handlers \cup {Idle}]
  BY <1>1, OrphanedIs
<1>9. CASE CloseDialog
  BY <1>2, <1>3, <1>8, <1>9 DEF CloseDialog
<1>10. CASE ReviewScope
  <2>1. UNCHANGED <<m, drafts, page>> /\ dialog.open /\ flows' = [Orphaned(flows) EXCEPT !["op"] = Flow("check", "scope")]
    BY <1>10 DEF ReviewScope
  <2>2. flows'["manage"] = flows["manage"]
    BY <1>1, <1>8, <2>1
  <2> QED BY <1>2, <1>3, <2>1, <2>2
<1>11. CASE OpenDraft
  <2>1. UNCHANGED <<m, drafts, page>> /\ page = "workbench"
    BY <1>11 DEF OpenDraft, NoModal
  <2>2. flows'["manage"] = flows["manage"]
    BY <1>1, <1>11 DEF OpenDraft, Begin
  <2> QED BY <1>2, <2>1, <2>2
<1>12. ASSUME NEW step, NEW kind, Ask(step, kind)
       PROVE  RenameInv'
  <2>1. UNCHANGED <<m, drafts, page>> /\ page = "workbench"
    BY <1>12 DEF Ask, NoModal
  <2>2. flows'["manage"] = flows["manage"]
    BY <1>1, <1>12 DEF Ask, Begin
  <2> QED BY <1>2, <2>1, <2>2
<1>13. ASSUME NEW kind \in {"save", "check", "preview", "schema", "document", "summary"}, StartOperation(kind)
       PROVE  RenameInv'
  <2>1. UNCHANGED <<m, drafts, page>> /\ page = "workbench"
    BY <1>13 DEF StartOperation, NoModal
  <2>2. \E b : flows' = [flows EXCEPT !["op"] = b]
    BY <1>13 DEF StartOperation, Begin
  <2>3. flows'["manage"] = flows["manage"]
    BY <1>1, <2>2
  <2> QED BY <1>2, <2>1, <2>3
<1>14. CASE OpenAI \/ OpenSettings \/ OpenRule
  BY <1>12, <1>14 DEF OpenAI, OpenSettings, OpenRule
<1> QED BY <1>4, <1>5, <1>6, <1>7, <1>9, <1>10, <1>11, <1>13, <1>14

LEMMA UnmountedHides ==
  ASSUME NEW fs \in [Flows -> Handlers \cup {Idle}], fs["open"] = flows["open"]
  PROVE  Unmounted(fs)["open"].step # "idle" => ~Unmounted(fs)["open"].shown
<1> DEFINE os == Orphaned(fs)
<1>1. os \in [Flows -> Handlers \cup {Idle}] /\ os["open"] = fs["open"] /\ {"open", "ask"} \subseteq Flows
  BY OrphanedIs DEF Flows
<1>2. PICK v : v = (IF Busy("open") THEN [os["open"] EXCEPT !.shown = FALSE] ELSE Idle)
  OBVIOUS
<1>3. Unmounted(fs) = [[os EXCEPT !["open"] = v] EXCEPT !["ask"] = Idle]
  BY <1>2 DEF Unmounted
<1> HIDE DEF os
<1>4. Unmounted(fs)["open"] = v
  BY <1>1, <1>3
<1>5. v.step # "idle" => v.shown = FALSE
  <2>1. CASE Busy("open")
    <3>1. os["open"] \in Handlers
      BY <1>1, <2>1, BusyMeans DEF Busy
    <3> QED BY <1>2, <2>1, <3>1 DEF Handlers
  <2>2. CASE ~Busy("open")
    BY <1>2, <2>2 DEF Idle
  <2> QED BY <2>1, <2>2
<1> QED BY <1>4, <1>5

\* The page comes and goes.
LEMMA NavigationFits ==
  ASSUME PageInv, PageInv', RenameInv, ~LateRename, Navigate \/ Leave
  PROVE  RenameInv'
<1>1. /\ flows \in [Flows -> Handlers \cup {Idle}] /\ {"manage", "open", "route"} \subseteq Flows
  BY DEF PageInv, Shapes, Flows
<1>2. Unmounted(flows)["manage"] = flows["manage"] /\ Unmounted(flows) \in [Flows -> Handlers \cup {Idle}]
      /\ (Unmounted(flows)["open"].step # "idle" => ~Unmounted(flows)["open"].shown)
  BY <1>1, UnmountedIs, UnmountedHides
<1>3. ~Busy("manage")
  BY DEF Navigate, Leave, RenameInv, ManagedAway
<1>4. \/ flows' = Unmounted(flows)
      \/ \E v : flows' = [Unmounted(flows) EXCEPT !["route"] = v]
  BY DEF Navigate, Leave
<1>5. flows'["manage"] = flows["manage"] /\ flows'["open"] = Unmounted(flows)["open"]
  BY <1>1, <1>2, <1>4
<1>6. ~Busy("manage")' /\ ListShown'
  BY <1>2, <1>3, <1>5 DEF Busy, ListShown
<1>7. UNCHANGED <<m, drafts>>
  BY DEF Navigate, Leave
<1>8. Known(m, drafts)'
  BY <1>7 DEF RenameInv, Known
<1> QED BY <1>6, <1>8, UnmanagedKeeps

LEMMA AnswerRunFits ==
  ASSUME PageInv, PageInv', RenameInv, AnswerRun
  PROVE  RenameInv'
<1>1. Busy("run") /\ UNCHANGED <<m, drafts>> /\ flows \in [Flows -> Handlers \cup {Idle}]
      /\ "run" \in Flows \ {"manage"} /\ {"manage", "open"} \subseteq Flows
  BY DEF AnswerRun, Outcomes, PageInv, Shapes, Flows
<1> DEFINE fs == [flows EXCEPT !["run"] = Idle]
<1>2. CASE isCurrent /\ flows' = Unmounted(fs)
  <2>1. ~Busy("manage")
    BY <1>2, OpenDialog DEF isCurrent, RenameInv, ManagedAway
  <2>2. fs \in [Flows -> Handlers \cup {Idle}] /\ fs["open"] = flows["open"] /\ fs["manage"] = flows["manage"]
    BY <1>1
  <2> HIDE DEF fs
  <2>3. flows'["manage"] = fs["manage"] /\ (flows'["open"].step # "idle" => ~flows'["open"].shown)
    BY <1>1, <1>2, <2>2, UnmountedIs, UnmountedHides
  <2>4. ~Busy("manage")' /\ ListShown'
    BY <2>1, <2>2, <2>3 DEF Busy, ListShown
  <2>5. Known(m, drafts)'
    BY <1>1 DEF RenameInv, Known
  <2> QED BY <2>4, <2>5, UnmanagedKeeps
<1>3. CASE flows' = fs /\ UNCHANGED page
  <2>1. SavedAsBefore /\ Idle.step # "save"
    BY <1>1 DEF SavedAsBefore, Idle
  <2> QED BY <1>1, <1>3, <2>1, HandlerFits
<1> QED BY <1>2, <1>3 DEF AnswerRun, End

LEMMA AnswerOpenFits ==
  ASSUME PageInv, PageInv', RenameInv, AnswerOpen
  PROVE  RenameInv'
<1>1. Busy("open") /\ "open" \in Flows \ {"manage"} /\ UNCHANGED <<drafts, page>> /\ flows \in [Flows -> Handlers \cup {Idle}]
  BY DEF AnswerOpen, Outcomes, Flows, PageInv, Shapes
<1>2. PICK w \in Handlers : w = flows["open"] /\ HandlerOK("open", w, m, drafts)
  BY <1>1, HandlerFacts
<1>3. PICK ok \in Outcomes("open") :
        CASE ok /\ w.step = "save" ->
               /\ m' = Saved("open")
               /\ flows' = [flows EXCEPT !["open"] = IF Noted("open") /\ MayOpen("open") THEN [Flow("get", "open") EXCEPT !.id = w.got[1]] ELSE Idle]
          [] ok /\ w.step = "get" /\ MayOpen("open") -> m' = Opened(w.got[1]) /\ End("open")
          [] OTHER -> End("open") /\ UNCHANGED m
  BY <1>2 DEF AnswerOpen
<1>4. ok => w.ok
  BY <1>1, <1>2 DEF Outcomes, Handlers
<1>5. MayOpen("open") => page = "workbench"
  BY <1>1 DEF MayOpen, RenameInv, ListShown
<1>6. Idle.step = "idle"
  BY DEF Idle
<1>7. CASE ok /\ w.step = "save"
  <2>1. SavedAsBefore
    BY <1>1, <1>2, <1>3, <1>4, <1>7, SavedFrom
  <2>2. PICK v : flows' = [flows EXCEPT !["open"] = v] /\ v.step # "save" /\ (v.step = "idle" \/ page = "workbench")
    <3>1. [Flow("get", "open") EXCEPT !.id = w.got[1]].step = "get"
      BY DEF Flow, FlowOf
    <3> QED BY <1>3, <1>5, <1>6, <1>7, <3>1
  <2> QED BY <1>1, <2>1, <2>2, HandlerFits
<1>8. CASE ok /\ w.step = "get" /\ MayOpen("open")
  <2>1. PICK got \in Answers : w.got = <<got>> /\ Holds(drafts, got)
    BY <1>2, <1>4, <1>8 DEF HandlerOK, Carries
  <2>2. m'.saved = <<[id |-> got.id, rev |-> got.rev, doc |-> got.doc]>>
    BY <1>3, <1>8, <2>1 DEF Opened, Document
  <2>3. Known(m, drafts)'
    BY <1>1, <2>1, <2>2 DEF Known, Holds, Has
  <2>4. flows' = [flows EXCEPT !["open"] = Idle]
    BY <1>3, <1>8 DEF End
  <2>5. ~Busy("manage")' /\ ListShown'
    BY <1>1, <1>5, <1>6, <1>8, <2>4 DEF RenameInv, ManagedAway, ListShown, Busy
  <2> QED BY <2>3, <2>5, UnmanagedKeeps
<1>9. CASE End("open") /\ UNCHANGED m
  <2>1. flows' = [flows EXCEPT !["open"] = Idle] /\ SavedAsBefore
    BY <1>9 DEF End, SavedAsBefore
  <2> QED BY <1>1, <1>6, <2>1, HandlerFits
<1> QED BY <1>3, <1>7, <1>8, <1>9

\* Handlers that end, or hide their dialog, while the page and what it has saved stay.
LEMMA EndingFits ==
  ASSUME PageInv, PageInv', RenameInv, AnswerPlan \/ CloseList \/ AnswerAsk \/ Apply \/ CloseAsk \/ List
  PROVE  RenameInv'
<1>1. /\ flows \in [Flows -> Handlers \cup {Idle}] /\ {"plan", "ask", "open"} \subseteq Flows \ {"manage"} /\ Idle.step = "idle"
  BY DEF PageInv, Shapes, Flows, Idle
<1>2. ASSUME m'.saved = m.saved, UNCHANGED <<drafts, page>>, NEW f \in {"plan", "ask"}, flows' = [flows EXCEPT ![f] = Idle]
      PROVE  RenameInv'
  <2>1. SavedAsBefore
    BY <1>2 DEF SavedAsBefore
  <2> QED BY <1>1, <1>2, <2>1, HandlerFits
<1>3. CASE AnswerPlan
  BY <1>2, <1>3 DEF AnswerPlan, End
<1>4. CASE CloseAsk
  BY <1>2, <1>4 DEF CloseAsk, End
<1>5. CASE Apply
  <2>1. m'.saved = m.saved
    BY <1>5, SavedStays DEF Apply
  <2> QED BY <1>2, <1>5, <2>1 DEF Apply, End
<1>6. CASE List
  <2>1. Grown(drafts, drafts') /\ UNCHANGED <<m, page, flows>>
    BY <1>6 DEF List, Grown
  <2> QED BY <2>1, OutsideFits
<1>7. CASE AnswerAsk
  <2>1. Busy("ask") /\ UNCHANGED <<m, drafts, page>>
    BY <1>7 DEF AnswerAsk, Outcomes
  <2>2. flows["ask"] \in Handlers
    BY <1>1, <2>1, HandlerFacts
  <2>3. PICK v : flows' = [flows EXCEPT !["ask"] = v] /\ v.step # "save"
    <3>1. PICK h : h = [flows["ask"] EXCEPT !.step = "review", !.served = FALSE]
      OBVIOUS
    <3>2. h.step = "review"
      BY <2>2, <3>1 DEF Handlers
    <3>3. flows' = [flows EXCEPT !["ask"] = h] \/ flows' = [flows EXCEPT !["ask"] = Idle]
      BY <1>7, <3>1 DEF AnswerAsk
    <3> QED BY <1>1, <3>2, <3>3
  <2>4. SavedAsBefore
    BY <2>1 DEF SavedAsBefore
  <2> QED BY <1>1, <2>1, <2>3, <2>4, HandlerFits
<1>8. CASE CloseList
  <2>1. Busy("open") /\ UNCHANGED <<m, drafts, page>> /\ flows["open"].shown
    BY <1>8 DEF CloseList
  <2>2. flows["open"] \in Handlers
    BY <1>1, <2>1, HandlerFacts
  <2>3. PICK h : h = [flows["open"] EXCEPT !.shown = FALSE]
    OBVIOUS
  <2>4. h.shown = FALSE /\ h.step = flows["open"].step /\ h.id = flows["open"].id /\ h.rev = flows["open"].rev
        /\ h.ok = flows["open"].ok
    BY <2>2, <2>3 DEF Handlers
  <2>5. flows' = [flows EXCEPT !["open"] = h]
    BY <1>8, <2>3 DEF CloseList
  <2>6. flows'["open"] = h /\ (\A g \in Flows \ {"open"} : flows'[g] = flows[g]) /\ flows'["manage"] = flows["manage"]
    BY <1>1, <2>5 DEF Flows
  <2>7. SavesAsBefore /\ SavedAsBefore /\ ListShown' /\ Grown(drafts, drafts')
    BY <2>1, <2>4, <2>6 DEF SavesAsBefore, SavedAsBefore, ListShown, Grown
  <2> QED BY <2>1, <2>6, <2>7, QuietKeeps
<1> QED BY <1>3, <1>4, <1>5, <1>6, <1>7, <1>8

\* What a link leads to is known as well as the document it replaces.
LEMMA ReplacementKnown ==
  ASSUME NEW w, w.kind = "draft" => w.got \in {<<r>> : r \in Answers} /\ Holds(drafts, w.got[1]), NEW x \in Documents, Known(x, drafts)
  PROVE  Known(Replacement(w, x), drafts)
<1>1. CASE w.kind = "new"
  <2>1. Replacement(w, x).saved = <<>>
    BY <1>1 DEF Replacement, Document
  <2> QED BY <2>1 DEF Known
<1>2. CASE w.kind = "draft"
  <2>1. PICK got \in Answers : w.got = <<got>> /\ Holds(drafts, got)
    BY <1>2
  <2>2. Replacement(w, x).saved = <<[id |-> got.id, rev |-> got.rev, doc |-> got.doc]>>
    BY <1>2, <2>1 DEF Replacement, Document
  <2> QED BY <2>1, <2>2 DEF Known, Holds, Has
<1>3. CASE w.kind = "run"
  <2>1. Replacement(w, x).saved = <<>>
    BY <1>3 DEF Replacement, touch, Documents
  <2> QED BY <2>1 DEF Known
<1>4. CASE w.kind \notin {"new", "draft", "run"}
  BY <1>4 DEF Replacement
<1> QED BY <1>1, <1>2, <1>3, <1>4

LEMMA SaveFirstFits ==
  ASSUME PageInv, RenameInv, UNCHANGED drafts, page = "loading",
         NEW w, w.kind = "draft" => w.got \in {<<r>> : r \in Answers} /\ Holds(drafts, w.got[1]),
         NEW x \in Documents, Known(x, drafts), SaveFirst(w, x)
  PROVE  RenameInv'
<1>1. m' = x \/ m' = Replacement(w, x)
  BY DEF SaveFirst, Drawn, Failed
<1>2. Known(m, drafts)'
  <2>1. Known(m', drafts)
    BY <1>1, ReplacementKnown
  <2> QED BY <2>1 DEF Known
<1>3. \E v : flows' = [flows EXCEPT !["route"] = v]
  BY DEF SaveFirst, Drawn, Failed, Begin, End
<1>4. flows'["manage"] = flows["manage"] /\ flows'["open"] = flows["open"]
  BY <1>3 DEF PageInv, Shapes, Flows
<1>5. ~Busy("manage")' /\ ListShown'
  BY <1>4 DEF RenameInv, ManagedAway, ListShown, Busy
<1> QED BY <1>2, <1>5, UnmanagedKeeps

LEMMA AnswerRouteFits ==
  ASSUME PageInv, PageInv', RenameInv, AnswerRoute
  PROVE  RenameInv'
<1>1. Busy("route") /\ "route" \in Flows \ {"manage"} /\ UNCHANGED drafts
  BY DEF AnswerRoute, Outcomes, Flows
<1>2. PICK w \in Handlers : w = flows["route"] /\ HandlerOK("route", w, m, drafts)
  BY <1>1, HandlerFacts
<1> DEFINE adopted == IF w.schema = m.schema THEN m ELSE [touch(m) EXCEPT !.schema = w.schema]
           begun == [FlowOf(adopted, "get", w.kind) EXCEPT !.id = w.id, !.got = IF w.kind = "run" THEN <<w.doc>> ELSE <<>>]
<1>3. PICK ok \in Outcomes("route") :
        CASE w.step = "save" /\ ok ->
               IF Noted("route") /\ Mounted /\ Current("route")
               THEN Drawn(Replacement(w, Saved("route")))
               ELSE m' = Saved("route") /\ End("route") /\ UNCHANGED page
          [] w.step # "save" /\ ~Mounted -> End("route") /\ UNCHANGED <<m, page>>
          [] ~ok /\ Mounted -> Failed(m)
          [] ok /\ Mounted /\ w.step = "schema" ->
               IF w.kind \in {"plain", "new"} THEN SaveFirst(w, adopted)
               ELSE Begin("route", begun) /\ m' = adopted /\ UNCHANGED page
          [] ok /\ Mounted /\ w.step = "get" ->
               IF Current("route") THEN SaveFirst(w, m) ELSE End("route") /\ UNCHANGED <<m, page>>
          [] OTHER -> End("route") /\ UNCHANGED <<m, page>>
  BY <1>2 DEF AnswerRoute
<1>4. ok => w.ok
  BY <1>1, <1>2 DEF Outcomes, Handlers
<1>5. m \in Documents /\ Known(m, drafts)
  BY DEF PageInv, Shapes, RenameInv
<1>6. Mounted => page = "loading"
  BY <1>1 DEF Mounted, PageInv, PlacesOK
<1>7. w.kind = "draft" /\ (w.step = "save" \/ (w.step = "get" /\ w.ok)) =>
        w.got \in {<<r>> : r \in Answers} /\ Holds(drafts, w.got[1])
  BY <1>2 DEF HandlerOK, Carries
<1>8. ASSUME End("route"), UNCHANGED page, SavedAsBefore
      PROVE  RenameInv'
  <2>1. flows' = [flows EXCEPT !["route"] = Idle] /\ Idle.step # "save"
    BY <1>8 DEF End, Idle
  <2> QED BY <1>1, <1>8, <2>1, HandlerFits
\* A page that is loading: nobody manages drafts, and no list is shown.
<1>9. ASSUME Mounted, NEW v, flows' = [flows EXCEPT !["route"] = v], Known(m', drafts)
      PROVE  RenameInv'
  <2>1. flows'["manage"] = flows["manage"] /\ flows'["open"] = flows["open"]
    BY <1>9 DEF PageInv, Shapes, Flows
  <2>2. ~Busy("manage")' /\ ListShown'
    BY <1>6, <1>9, <2>1 DEF RenameInv, ManagedAway, ListShown, Busy
  <2>3. Known(m, drafts)'
    BY <1>1, <1>9 DEF Known
  <2> QED BY <2>2, <2>3, UnmanagedKeeps
<1>10. CASE w.step = "save" /\ ok
  <2>1. Learnt(Saved("route")) /\ Holds(drafts, w)
    BY <1>1, <1>2, <1>4, <1>10, SavedIs
  <2>2. CASE Mounted /\ Drawn(Replacement(w, Saved("route")))
    <3> DEFINE x == Saved("route")
    <3>1. x \in Documents
      BY <2>1 DEF Learnt
    <3>2. Known(x, drafts)
      <4>1. CASE Noted("route")
        <5>1. x.saved = <<[id |-> w.id, rev |-> w.rev, doc |-> w.doc]>>
          BY <1>2, <1>5, <4>1 DEF Saved, markSaved, Documents
        <5> HIDE DEF x
        <5> QED BY <2>1, <5>1 DEF Known, Holds, Has
      <4>2. CASE ~Noted("route")
        BY <1>5, <4>2 DEF Saved
      <4> QED BY <4>1, <4>2
    <3>3. m' = Replacement(w, x) /\ flows' = [flows EXCEPT !["route"] = Idle]
      BY <2>2 DEF Drawn, End
    <3> HIDE DEF x
    <3>4. Known(m', drafts)
      BY <1>7, <1>10, <3>1, <3>2, <3>3, ReplacementKnown
    <3> QED BY <1>9, <2>2, <3>3, <3>4
  <2>3. CASE m' = Saved("route") /\ End("route") /\ UNCHANGED page
    <3>1. SavedAsBefore
      BY <1>1, <1>2, <1>4, <1>10, <2>3, SavedFrom
    <3> QED BY <1>8, <2>3, <3>1
  <2> QED BY <1>3, <1>10, <2>2, <2>3
<1>11. CASE End("route") /\ UNCHANGED <<m, page>>
  BY <1>8, <1>11 DEF SavedAsBefore
<1>12. CASE Mounted /\ Failed(m)
  <2>1. m' = m /\ flows' = [flows EXCEPT !["route"] = Idle]
    BY <1>12 DEF Failed, End
  <2> QED BY <1>5, <1>9, <1>12, <2>1
<1>13. adopted \in Documents /\ Known(adopted, drafts)
  <2>1. CASE w.schema = m.schema
    BY <1>5, <2>1
  <2>2. CASE w.schema # m.schema
    <3>1. adopted = [touch(m) EXCEPT !.schema = w.schema] /\ w.schema \in Nat /\ m.doc \in Docs
      BY <1>5, <2>2 DEF Handlers, Documents
    <3>2. adopted.saved = m.saved
      BY <3>1, SavedStays
    <3> HIDE DEF adopted
    <3> QED BY <1>5, <3>1, <3>2, EditIs DEF Known
  <2> QED BY <2>1, <2>2
<1> HIDE DEF adopted, begun
<1>14. CASE ok /\ Mounted /\ w.step = "schema"
  <2>1. CASE w.kind \in {"plain", "new"} /\ SaveFirst(w, adopted)
    <3>1. w.kind # "draft" /\ page = "loading"
      BY <1>6, <1>14, <2>1
    <3> QED BY <1>1, <1>13, <2>1, <3>1, SaveFirstFits
  <2>2. CASE Begin("route", begun) /\ m' = adopted /\ UNCHANGED page
    <3>1. flows' = [flows EXCEPT !["route"] = begun] /\ Known(m', drafts)
      BY <1>13, <2>2 DEF Begin
    <3> QED BY <1>9, <1>14, <3>1
  <2> QED BY <1>3, <1>14, <2>1, <2>2
<1>15. CASE ok /\ Mounted /\ w.step = "get"
  <2>1. CASE SaveFirst(w, m)
    <3>1. (w.kind = "draft" => w.got \in {<<r>> : r \in Answers} /\ Holds(drafts, w.got[1])) /\ page = "loading"
      BY <1>4, <1>6, <1>7, <1>15
    <3> QED BY <1>1, <1>5, <2>1, <3>1, SaveFirstFits
  <2> QED BY <1>3, <1>11, <1>15, <2>1
<1>16. w.step \in {"schema", "get", "save"} /\ ok \in BOOLEAN
  BY <1>1, <1>2 DEF HandlerOK, Remembers, StepsOf, Outcomes, Handlers
<1> QED BY <1>3, <1>10, <1>11, <1>12, <1>14, <1>15, <1>16

\* A rename or deletion begins, of a revision the page is in step with.
LEMMA ManageFits ==
  ASSUME PageInv, RenameInv, ~LateRename, NEW step \in {"rename", "delete"}, Manage(step)
  PROVE  RenameInv'
<1>1. UNCHANGED <<m, drafts, page>> /\ page = "away" /\ "open" \in Flows /\ "manage" \in Flows
      /\ flows \in [Flows -> Handlers \cup {Idle}]
  BY DEF Manage, Flows, PageInv, Shapes
<1>2. PICK id \in 1 .. MaxDrafts :
        /\ step = "rename" => InStep(id)
        /\ flows' = [flows EXCEPT !["manage"] = [Flow(step, "manage") EXCEPT !.id = id, !.rev = listing[id]]]
  BY DEF Manage, Begin
<1>3. PICK v : v = [Flow(step, "manage") EXCEPT !.id = id, !.rev = listing[id]]
  OBVIOUS
<1>4. v.step = step /\ v.id = id /\ v.rev = listing[id] /\ v.ok = FALSE
  BY <1>3 DEF Flow, FlowOf
<1>5. flows'["manage"] = v /\ \A g \in Flows \ {"manage"} : flows'[g] = flows[g]
  BY <1>1, <1>2, <1>3
<1>6. Known(m, drafts)' /\ ManagedAway' /\ ListShown'
  BY <1>1, <1>5 DEF RenameInv, Known, ManagedAway, ListShown, Busy
<1>7. RenameOK'
  <2> SUFFICES ASSUME step = "rename"
               PROVE  RenameFits(v)'
    BY <1>4, <1>5 DEF RenameOK
  <2>1. InStepWith(v.id, v.rev)
    BY <1>2, <1>4 DEF InStep, InStepWith
  <2>2. SavesAsBefore /\ SavedAsBefore
    BY <1>1, <1>4, <1>5 DEF SavesAsBefore, SavedAsBefore
  <2>3. InStepWith(v.id, v.rev)'
    BY <2>1, <2>2, InStepStays
  <2> QED BY <1>4, <2>3 DEF RenameFits
<1> QED BY <1>6, <1>7 DEF RenameInv

\* sqlseed:draft-renamed tells the page of a revision with the content it knows.
LEMMA AnswerManageFits ==
  ASSUME PageInv, PageInv', RenameInv, AnswerManage
  PROVE  RenameInv'
<1>1. Busy("manage") /\ {"manage", "open"} \subseteq Flows /\ flows' = [flows EXCEPT !["manage"] = Idle] /\ UNCHANGED <<drafts, page>>
      /\ flows \in [Flows -> Handlers \cup {Idle}]
  BY DEF AnswerManage, Outcomes, End, Flows, PageInv, Shapes
<1>2. PICK w \in Handlers : w = flows["manage"] /\ HandlerOK("manage", w, m, drafts)
  BY <1>1, HandlerFacts
<1>3. m' = m \/ (w.ok /\ m' = Heard(w))
  BY <1>1, <1>2 DEF AnswerManage, Outcomes
<1>4. ~Busy("manage")' /\ ListShown'
  BY <1>1 DEF RenameInv, ListShown, Busy, Idle
<1>5. Known(m', drafts)
  <2>1. CASE m'.saved \in {m.saved, <<>>}
    BY <2>1 DEF RenameInv, Known
  <2>2. CASE w.ok /\ w.step = "rename" /\ m.saved # <<>> /\ m.saved[1].id = w.id /\ m' = Heard(w)
    <3>1. PICK n \in Names : m.saved = <<n>>
      BY <2>2 DEF PageInv, Shapes, Documents, Optional
    <3>2. m'.saved = [m.saved EXCEPT ![1].rev = w.rev]
      BY <2>2 DEF Heard, PageInv, Shapes, Documents
    <3>3. m'.saved = <<[n EXCEPT !.rev = w.rev]>>
      <4>1. [<<n>> EXCEPT ![1] = [n EXCEPT !.rev = w.rev]] = <<[n EXCEPT !.rev = w.rev]>>
        OBVIOUS
      <4>2. [m.saved EXCEPT ![1].rev = w.rev] = [m.saved EXCEPT ![1] = [m.saved[1] EXCEPT !.rev = w.rev]]
        OBVIOUS
      <4> QED BY <3>1, <3>2, <4>1, <4>2
    <3>4. PICK e : e = [n EXCEPT !.rev = w.rev]
      OBVIOUS
    <3>5. e.id = n.id /\ e.doc = n.doc /\ e.rev = w.rev
      BY <3>4 DEF Names
    <3>6. RenameFits(w) /\ Has(drafts, w.id, w.rev)
      BY <1>2, <2>2 DEF RenameInv, RenameOK, HandlerOK, Carries
    <3>7. n.rev = w.rev - 1 /\ n.id = w.id /\ drafts[w.id].revisions[w.rev].doc = drafts[w.id].revisions[w.rev - 1].doc
      BY <2>2, <3>1, <3>6 DEF RenameFits, InStepWith, Stored
    <3>8. drafts[n.id].revisions[n.rev].doc = n.doc
      BY <3>1 DEF RenameInv, Known, Holds
    <3>9. Holds(drafts, e)
      BY <3>5, <3>6, <3>7, <3>8 DEF Holds
    <3> QED BY <3>3, <3>4, <3>9 DEF Known
  <2>3. m'.saved \in {m.saved, <<>>} \/ (w.ok /\ w.step = "rename" /\ m.saved # <<>> /\ m.saved[1].id = w.id /\ m' = Heard(w))
    <3>1. CASE w.step = "delete"
      BY <1>3, <3>1 DEF Heard, PageInv, Shapes, Documents
    <3>2. CASE w.step # "delete"
      BY <1>3, <3>2 DEF Heard
    <3> QED BY <3>1, <3>2
  <2> QED BY <2>1, <2>2, <2>3
<1>6. Known(m, drafts)'
  BY <1>1, <1>5 DEF Known
<1> QED BY <1>4, <1>6, UnmanagedKeeps

LEMMA NextFits ==
  ASSUME PageInv, PageInv', RenameInv, ~LateRename, [Next]_vars
  PROVE  RenameInv'
<1>1. CASE Serve
  BY <1>1, ServeFits
<1>2. CASE OtherTab
  <2>1. UNCHANGED <<m, page, flows>>
    BY <1>2 DEF OtherTab
  <2> QED BY <1>2, <2>1, OtherTabGrows, OutsideFits
<1>3. CASE Migrate \/ UNCHANGED vars
  <2>1. UNCHANGED <<m, page, flows>> /\ Grown(drafts, drafts')
    BY <1>3 DEF Migrate, vars, Grown
  <2> QED BY <2>1, OutsideFits
<1>4. CASE \/ Edit \/ SelectAppend \/ SelectReplace \/ Submit \/ CloseDialog \/ ReviewScope \/ OpenDraft
           \/ OpenAI \/ OpenSettings \/ OpenRule
           \/ \E kind \in {"save", "check", "preview", "schema", "document", "summary"} : StartOperation(kind)
  BY <1>4, WorkbenchFits
<1>5. CASE AnswerOperation \/ AnswerRun \/ AnswerOpen \/ AnswerRoute
  BY <1>5, AnswerOperationFits, AnswerRunFits, AnswerOpenFits, AnswerRouteFits
<1>6. CASE AnswerPlan \/ CloseList \/ AnswerAsk \/ Apply \/ CloseAsk \/ List
  BY <1>6, EndingFits
<1>7. CASE Navigate \/ Leave
  BY <1>7, NavigationFits
<1>8. CASE AnswerManage \/ \E step \in {"rename", "delete"} : Manage(step)
  BY <1>8, AnswerManageFits, ManageFits
<1> QED BY <1>1, <1>2, <1>3, <1>4, <1>5, <1>6, <1>7, <1>8 DEF Next

LEMMA InvIsTruthful ==
  ASSUME PageInv, RenameInv
  PROVE  PageIsTruthful
<1>1. PageTypeOK
  BY DEF PageInv, Shapes, Documents, DocumentOK, PlacesOK, PageTypeOK
<1>2. CleanMeansSaved
  BY DEF PageInv, DocumentOK, CleanMeansSaved
<1>3. RevisionIsKnown
  BY DEF RenameInv, Known, Holds, RevisionIsKnown, Stored
<1>4. ResultsAreCurrent
  BY DEF PageInv, DocumentOK, ResultsAreCurrent
<1>5. ClearingIsCurrent
  <2>1. isCurrent => AtEpoch(dialog.ticket, m)
    BY TicketIs DEF isCurrent
  <2> QED BY <2>1 DEF PageInv, DialogOK, ClearingIsCurrent, isCurrent
<1>6. RunsAreAsSeen
  BY DEF PageInv, RunsOK
<1> QED BY <1>1, <1>2, <1>3, <1>4, <1>5, <1>6 DEF PageIsTruthful

\* What the page says is true of the server at every moment: a clean document is the revision it names, the revision is
\* in the draft with that content, a check belongs to the document and schema shown, the clear dialog's plan to the
\* document it clears, and a run to what its user saw.  Renames build on the revision the page has (~LateRename); a
\* rename that adopts a newer one breaks this, as the run of RevisionIsKnown shows.
THEOREM PageStaysTruthful ==
  ASSUME PageAssumption, ~LateRename
  PROVE  Spec => []PageIsTruthful
<1>1. Init => RenameInv
  BY DEF Init, Document, RenameInv, Known, RenameOK, ManagedAway, ListShown, Busy, Idle, Flows
<1>2. PageInv /\ RenameInv /\ [Next]_vars => PageInv' /\ RenameInv'
  BY NextKeeps, NextFits
<1>3. Init => PageInv
  BY Beginning
<1>4. PageInv /\ RenameInv => PageIsTruthful
  BY InvIsTruthful
<1> QED BY <1>1, <1>2, <1>3, <1>4, PTL DEF Spec
=============================================================================
