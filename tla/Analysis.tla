------------------------------- MODULE Analysis -------------------------------
(***************************************************************************)
(* An AI analysis from the page's modal to the reviewed patches:           *)
(* workbench/ai.js and ai-stream.js on the page, AnalysisOperation in      *)
(* workbench_ai_stream.py around a background worker, and _analyze in      *)
(* workbench_ai.py as its work.  The worker holds the connection only      *)
(* while it reads and while it previews, so the schema may change during   *)
(* the model's call; the page may give up, close or become stale at any    *)
(* time, and a call cannot be interrupted.  The database's columns, the    *)
(* constraints and derivations that tie them together and the columns      *)
(* that are managed are constants; what the model proposes is any set.     *)
(***************************************************************************)
EXTENDS Naturals, FiniteSets, Sequences, SequencesExt

CONSTANTS
  Analyses,    (* the requests the page may send                           *)
  Columns,     (* the columns of the schema                                *)
  Locked,      (* managed by the database, foreign keys, derived columns   *)
  Ties,        (* sets of columns of one constraint or derivation          *)
  First,       (* the first column of each of them                         *)
  Capacity,    (* bound: places in an operation's queue (16 in the code)   *)
  MaxChanges,  (* bound: changes of the schema by others                   *)
  None

AnalysisAssumption ==
  /\ None \notin Analyses
  /\ Locked \subseteq Columns /\ Ties \subseteq SUBSET Columns
  /\ Capacity \in Nat \ {0} /\ MaxChanges \in Nat

VARIABLES
  schema,      (* version of the database's schema                         *)
  worker,      (* the place of each analysis's background worker           *)
  queue,       (* operation.queue                                          *)
  cancelled,   (* operation.cancelled                                      *)
  late,        (* operation.deadline has passed                            *)
  stream,      (* the response, "none", "open" or "closed", read in order  *)
  gone,        (* the page has left the response                           *)
  active,      (* _active: the connection's analysis                       *)
  leases,      (* "ai_analyses" leases of the runtime gate                 *)
  asked,       (* what each analysis was asked: allowed columns            *)
  raw,         (* what the model proposed                                  *)
  ui,          (* the modal                                                *)
  ticket,      (* the analysis the modal waits for                         *)
  suggestions, (* the proposals under review, a rule for each column       *)
  chosen,      (* columns whose proposals are ticked                       *)
  adjusted,    (* columns whose proposals the user has changed             *)
  stale,       (* the page's model or epoch has changed                    *)
  document,    (* the rule of every column in the page's document          *)
  previewed    (* ghost: rules of tied columns the server has sampled      *)

analysisVars == <<schema, worker, queue, cancelled, late, stream, gone, active, leases,
          asked, raw, ui, ticket, suggestions, chosen, adjusted, stale, document, previewed>>
serverVars == <<worker, queue, cancelled, stream, active, leases, raw>>
pageVars == <<ui, ticket, suggestions, chosen, adjusted, stale, document>>
operationVars == <<cancelled, stream, active, leases>>

NoRule == "old"
Nothing == [c \in {} |-> NoRule]
Progress == [type |-> "progress"]
Failure == [type |-> "error"]
Result(rules) == [type |-> "result", rules |-> rules]
Terminal(event) == event.type # "progress"
Tied(rules, t) == [c \in t |-> rules[c]]
Patched(rules) == [c \in Columns |-> IF c \in DOMAIN rules THEN rules[c] ELSE document[c]]

Running(a) == worker[a] \notin {"new", "exited"}

AnalysisInit ==
  /\ schema = 0
  /\ worker = [a \in Analyses |-> "new"] /\ queue = [a \in Analyses |-> <<>>]
  /\ cancelled = [a \in Analyses |-> FALSE] /\ late = [a \in Analyses |-> FALSE]
  /\ stream = [a \in Analyses |-> "none"]
  /\ gone = [a \in Analyses |-> FALSE]
  /\ active = None /\ leases = 0
  /\ asked = [a \in Analyses |-> {}] /\ raw = [a \in Analyses |-> {}]
  /\ ui = "idle" /\ ticket = None /\ suggestions = Nothing /\ chosen = {}
  /\ adjusted = {} /\ stale = FALSE /\ document = [c \in Columns |-> NoRule]
  /\ previewed = {}

----------------------------------------------------------------------------
(* The operation.                                                          *)

\* A mistake: a full queue refuses the new event.
KeepOld(q, event) == IF Len(q) = Capacity THEN q ELSE Append(q, event)

\* publish: a full queue gives up its oldest event.
Publish(q, event) == Append(IF Len(q) = Capacity THEN Tail(q) ELSE q, event)

Published(a, event) == queue' = [queue EXCEPT ![a] = Publish(@, event)]

\* check_cancelled
Stopped(a) == cancelled[a] \/ late[a]

\* AnalysisOperation.__init__ of an accepted request: one analysis for a connection,
\* a lease of the gate unless the runtime is pausing, and a daemon thread.
Accepted(a) ==
  /\ active = None
  /\ active' = a /\ leases' = leases + 1
  /\ worker' = [worker EXCEPT ![a] = "start"]
  /\ stream' = [stream EXCEPT ![a] = "open"]
  /\ ui' = "busy" /\ ticket' = a

\* 409 ai_busy, 503 while the gate is closed, or no thread is left, when what was
\* taken is given back: the page shows the error.
Refused(a) ==
  /\ worker' = [worker EXCEPT ![a] = "exited"]
  /\ ui' = "idle" /\ ticket' = None
  /\ UNCHANGED <<active, leases, stream>>

\* progress and the steps of _analyze: a stopped operation ends at its next check.
Fail(a) ==
  /\ Published(a, Failure)
  /\ worker' = [worker EXCEPT ![a] = "done"]

\* The first progress event, then the schema is read under the connection:
\* the connection may be gone, and another schema than the page's is refused.
ReadContext(a) ==
  /\ worker[a] = "start"
  /\ IF Stopped(a)
     THEN Fail(a)
     ELSE /\ Published(a, Progress)
          /\ worker' = [worker EXCEPT ![a] = "context"]
  /\ UNCHANGED <<schema, late, gone, asked, raw, previewed, pageVars, operationVars>>

AskModel(a) ==
  /\ worker[a] = "context"
  /\ \/ Fail(a)
     \/ /\ schema = 0 /\ ~Stopped(a)
        /\ Published(a, Progress)
        /\ worker' = [worker EXCEPT ![a] = "model"]
  /\ UNCHANGED <<schema, late, gone, asked, raw, previewed, pageVars, operationVars>>

\* _request_model and the check after it; the call itself is not interrupted.
ModelAnswers(a) ==
  /\ worker[a] = "model"
  /\ \/ Fail(a) /\ UNCHANGED raw
     \/ /\ ~Stopped(a)
        /\ \E proposal \in SUBSET Columns : raw' = [raw EXCEPT ![a] = proposal]
        /\ Published(a, Progress)
        /\ worker' = [worker EXCEPT ![a] = "validating"]
  /\ UNCHANGED <<schema, late, gone, asked, previewed, pageVars, operationVars>>

\* _collect_suggestions: only columns of the request that are not managed.  A suggestion whose
\* generator or parameters are not valid is ignored, as if the model had not made it.
Collected(a) == (raw[a] \cap asked[a]) \ Locked

\* The schema is compared again under a new connection_operation; no accepted
\* proposal means a result at once, and a candidate whose derivations are cyclic
\* or lack a source is dropped.
Validate(a) ==
  /\ worker[a] = "validating"
  /\ \/ Fail(a) /\ UNCHANGED raw
     \/ /\ schema = 0 /\ ~Stopped(a)
        /\ raw' = [raw EXCEPT ![a] = Collected(a)]
        /\ \/ Collected(a) # {} /\ Published(a, Progress)
              /\ worker' = [worker EXCEPT ![a] = "previewing"]
           \/ Published(a, Result(Nothing))
              /\ worker' = [worker EXCEPT ![a] = "done"]
  /\ UNCHANGED <<schema, late, gone, asked, previewed, pageVars, operationVars>>

\* _preview_candidate on the whole candidate: sampled rules or a refused set.
\* check_document compares the schema again and asks the guard as it goes.
Preview(a) ==
  /\ worker[a] = "previewing"
  /\ LET rules == [c \in raw[a] |-> a]
     IN  \/ Fail(a) /\ UNCHANGED previewed
         \/ /\ ~Stopped(a) /\ Published(a, Result(Nothing)) /\ UNCHANGED previewed
            /\ worker' = [worker EXCEPT ![a] = "done"]
         \/ /\ schema = 0 /\ ~Stopped(a)
            /\ Published(a, Result(rules))
            /\ previewed' = previewed \cup {Tied(Patched(rules), t) : t \in Ties}
            /\ worker' = [worker EXCEPT ![a] = "done"]
  /\ UNCHANGED <<schema, late, gone, asked, raw, pageVars, operationVars>>

\* finished: after the terminal event the connection and the lease are given back.
Finish(a) ==
  /\ worker[a] = "done"
  /\ worker' = [worker EXCEPT ![a] = "exited"]
  /\ active' = None /\ leases' = leases - 1
  /\ raw' = [raw EXCEPT ![a] = {}]
  /\ UNCHANGED <<schema, queue, cancelled, late, stream, gone, asked, pageVars, previewed>>

\* The connection belongs to the worker until it has exited.
KeptByWorker(a) == UNCHANGED <<active, leases>>

\* events, when it sees that the client has left or the deadline has passed.
EndResponse(a) ==
  /\ stream' = [stream EXCEPT ![a] = "closed"]
  /\ cancelled' = [cancelled EXCEPT ![a] = TRUE]
  /\ KeptByWorker(a)

Abandon(a) ==
  /\ stream[a] = "open" /\ gone[a]
  /\ EndResponse(a)
  /\ UNCHANGED <<schema, worker, queue, late, gone, asked, raw, pageVars, previewed>>

DeadlinePasses(a) ==
  /\ ~late[a] /\ (Running(a) \/ stream[a] = "open")
  /\ late' = [late EXCEPT ![a] = TRUE]
  /\ UNCHANGED <<schema, serverVars, gone, asked, pageVars, previewed>>

\* Another program changes the database.
SchemaChanges ==
  /\ schema < MaxChanges
  /\ schema' = schema + 1
  /\ UNCHANGED <<serverVars, late, gone, asked, pageVars, previewed>>

----------------------------------------------------------------------------
(* The modal.                                                              *)

Cleared == suggestions' = Nothing /\ chosen' = {} /\ adjusted' = {}

\* analyzeScope: a new version, and the review of the last one is discarded.
\* The operation is made when the request arrives.
Analyze(a) ==
  /\ ui \in {"idle", "review"} /\ ~stale /\ worker[a] = "new"
  /\ \E targets \in SUBSET (Columns \ Locked) \ {{}} : asked' = [asked EXCEPT ![a] = targets]
  /\ Cleared
  /\ \/ Accepted(a)
     \/ Refused(a)
  /\ UNCHANGED <<schema, queue, cancelled, late, gone, raw, stale, document, previewed>>

\* failedAnalysis, and the abort that makes the response end.
GiveUp(a) ==
  /\ ui' = "idle" /\ ticket' = None /\ Cleared
  /\ gone' = [gone EXCEPT ![a] = TRUE]

\* The page's own limit of 180 s.
PageTimeout ==
  /\ ui = "busy"
  /\ GiveUp(ticket)
  /\ UNCHANGED <<schema, serverVars, late, asked, stale, document, previewed>>

\* current() in onProgress and after the answer.
StillCurrent == ~stale

Shown(rules) ==
  /\ suggestions' = rules /\ chosen' = {} /\ adjusted' = {}
  /\ ui' = "review" /\ UNCHANGED <<ticket, gone>>

\* The deadline ends the response with an error.
Expire(a) ==
  /\ stream[a] = "open" /\ late[a] /\ ~gone[a]
  /\ EndResponse(a) /\ GiveUp(a)
  /\ UNCHANGED <<schema, worker, queue, late, asked, raw, stale, document, previewed>>

\* The next event of the response: progress, the result or an error.  A handler of
\* an earlier version returns at its first line, so only the awaited one is read.
Receive(a) ==
  /\ stream[a] = "open" /\ ~gone[a] /\ ~late[a] /\ queue[a] # <<>>
  /\ queue' = [queue EXCEPT ![a] = Tail(@)]
  /\ LET event == Head(queue[a])
     IN  /\ IF Terminal(event) THEN EndResponse(a) ELSE UNCHANGED <<stream, cancelled, active, leases>>
         /\ \/ /\ event.type = "progress" /\ StillCurrent
               /\ UNCHANGED <<ui, ticket, suggestions, chosen, adjusted, gone>>
            \/ event.type = "result" /\ StillCurrent /\ Shown(event.rules)
            \/ (event.type = "error" \/ ~StillCurrent) /\ GiveUp(a)
  /\ UNCHANGED <<schema, worker, late, asked, raw, stale, document, previewed>>

\* A mistake: proposals are one unit only when a constraint names both first.
Neighbours(c) == {c} \cup UNION {IF c = First[t] THEN t ELSE {First[t]} : t \in {x \in Ties : c \in x}}

\* group_patches: columns connected through derivations and constraints, found
\* with parents and roots, are one unit (_patch_dependencies links every column
\* of a constraint to its first).
Whole(s) == \A t \in Ties : t \cap s # {} => t \subseteq s
Group(c) == {d \in Columns : \A s \in SUBSET Columns : c \in s /\ Whole(s) => d \in s}

Siblings(c) == Group(c) \cap DOMAIN suggestions

\* The checkbox of a group.
Toggle(c) ==
  /\ ui = "review" /\ ~stale /\ c \in DOMAIN suggestions
  /\ chosen' = IF c \in chosen THEN chosen \ Siblings(c) ELSE chosen \cup Siblings(c)
  /\ UNCHANGED <<schema, serverVars, late, gone, asked, ui, ticket, suggestions, adjusted,
                 stale, document, previewed>>

\* openSuggestionAdjustment: a changed rule clears the tick of its group.
Adjust(c) ==
  /\ ui = "review" /\ ~stale /\ c \in DOMAIN suggestions \ adjusted
  /\ suggestions' = [suggestions EXCEPT ![c] = "mine"]
  /\ adjusted' = adjusted \cup {c} /\ chosen' = chosen \ Siblings(c)
  /\ UNCHANGED <<schema, serverVars, late, gone, asked, ui, ticket, stale, document, previewed>>

ChosenRules == [c \in chosen |-> suggestions[c]]

\* applySuggestions asks the server again when one of the chosen was changed.
Rechecked == chosen \cap adjusted

\* onApply, then the modal closes; a new one starts from the new document.
Applied ==
  /\ document' = Patched(ChosenRules)
  /\ ui' = "idle" /\ ticket' = None /\ Cleared

Apply ==
  /\ ui = "review" /\ ~stale /\ chosen # {}
  /\ IF Rechecked = {} THEN Applied
     ELSE ui' = "checking" /\ UNCHANGED <<document, ticket, suggestions, chosen, adjusted>>
  /\ UNCHANGED <<schema, serverVars, late, gone, asked, stale, previewed>>

\* validateAdjustedSuggestions: the complete candidate, refused or sampled.
Checked ==
  /\ ui = "checking"
  /\ \/ ~stale /\ schema = 0 /\ Applied
        /\ previewed' = previewed \cup {Tied(Patched(ChosenRules), t) : t \in Ties}
     \/ ui' = "review" /\ UNCHANGED <<document, ticket, suggestions, chosen, adjusted, previewed>>
  /\ UNCHANGED <<schema, serverVars, late, gone, asked, stale>>

\* The modal is closed, by the user or by the page, and its response aborted.
Close ==
  /\ ui \notin {"idle", "closed"}
  /\ ui' = (IF stale THEN "closed" ELSE "idle") /\ ticket' = None /\ Cleared
  /\ gone' = IF ticket = None THEN gone ELSE [gone EXCEPT ![ticket] = TRUE]
  /\ UNCHANGED <<schema, serverVars, late, asked, stale, document, previewed>>

\* The page loads another schema, draft or connection under the modal.
Invalidate ==
  /\ ~stale /\ stale' = TRUE
  /\ UNCHANGED <<schema, serverVars, late, gone, asked, ui, ticket, suggestions, chosen,
                 adjusted, document, previewed>>

----------------------------------------------------------------------------
WorkerStep(a) == ReadContext(a) \/ AskModel(a) \/ ModelAnswers(a) \/ Validate(a) \/ Preview(a) \/ Finish(a)

AnalysisNext ==
  \/ \E a \in Analyses : Analyze(a) \/ WorkerStep(a) \/ DeadlinePasses(a)
                      \/ Abandon(a) \/ Expire(a) \/ Receive(a)
  \/ SchemaChanges \/ PageTimeout \/ Apply \/ Checked \/ Close \/ Invalidate
  \/ \E c \in Columns : Toggle(c) \/ Adjust(c)

AnalysisSpec == AnalysisInit /\ [][AnalysisNext]_analysisVars

----------------------------------------------------------------------------
(* Properties.                                                             *)

Rules == Analyses \cup {NoRule, "mine"}

AnalysisTypeOK ==
  /\ schema \in 0 .. MaxChanges /\ leases \in 0 .. 1
  /\ worker \in [Analyses -> {"new", "start", "context", "model", "validating", "previewing", "done", "exited"}]
  /\ queue = [a \in Analyses |-> queue[a]] /\ \A a \in Analyses : Len(queue[a]) <= Capacity
  /\ stream \in [Analyses -> {"none", "open", "closed"}]
  /\ gone \in [Analyses -> BOOLEAN] /\ cancelled \in [Analyses -> BOOLEAN] /\ late \in [Analyses -> BOOLEAN]
  /\ asked \in [Analyses -> SUBSET (Columns \ Locked)] /\ raw \in [Analyses -> SUBSET Columns]
  /\ active \in Analyses \cup {None} /\ ticket \in Analyses \cup {None}
  /\ ui \in {"idle", "busy", "review", "checking", "closed"}
  /\ suggestions \in UNION {[d -> Rules] : d \in SUBSET Columns}
  /\ chosen \subseteq DOMAIN suggestions /\ adjusted \subseteq DOMAIN suggestions
  /\ document \in [Columns -> Rules]

\* The gate and the connection belong to an analysis until its worker has exited,
\* whatever became of the response: the runtime is never paused, and no second
\* analysis started, under a call to the model that is still out.
HeldUntilExit ==
  /\ {a \in Analyses : Running(a)} = (IF active = None THEN {} ELSE {active})
  /\ leases = Cardinality({a \in Analyses : Running(a)})

\* The bounded queue gives up progress but never the outcome: while a finished
\* analysis is still read, its terminal event is queued or already on its way.
OutcomeIsQueued ==
  \A a \in Analyses : worker[a] = "exited" /\ stream[a] = "open"
    => queue[a] # <<>> /\ Terminal(Last(queue[a]))

\* What is reviewed answers what was asked: proposals only for columns of the
\* awaited request, none of them managed by the database, never an earlier answer.
ReviewIsWhatWasAsked ==
  /\ ui \in {"review", "checking"} =>
       /\ DOMAIN suggestions \subseteq asked[ticket] \ Locked
       /\ \A c \in DOMAIN suggestions : suggestions[c] \in {ticket, "mine"}
  /\ \A c \in Locked : document[c] = NoRule

\* Rules that one constraint or derivation ties together are only ever applied as
\* the server has sampled them: ticking part of the proposals, adjusting one and
\* several analyses in a row never mix rules no preview has seen.
TiedAsPreviewed ==
  \A t \in Ties : Tied(document, t) = [c \in t |-> NoRule] \/ Tied(document, t) \in previewed

\* The outcome of an analysis reaches its stream, however full the queue, and its lease and the
\* connection are its own until the worker exits (AnalysisOperation.publish).
OutcomeIsKept == AnalysisTypeOK /\ OutcomeIsQueued /\ HeldUntilExit

\* What is reviewed was asked for, and what is applied is what the preview showed (workbench_ai).
AppliedAsPreviewed == ReviewIsWhatWasAsked /\ TiedAsPreviewed

(***************************************************************************)
(* What makes them inductive.                                              *)
(***************************************************************************)

\* The events an analysis can publish: its proposals are for allowed columns.
Proposals(a) == UNION {[d -> {a}] : d \in SUBSET (asked[a] \ Locked)}
Events(a) == {Progress, Failure} \cup {Result(rules) : rules \in Proposals(a) \cup {Nothing}}

EventsAreTheirAnalysis ==
  \A a \in Analyses :
    /\ queue[a] \in Seq(Events(a))
    /\ worker[a] = "previewing" => raw[a] \subseteq asked[a] \ Locked

\* A worker that is done has published its outcome last, unless nobody reads the response.
OutcomeIsLast ==
  \A a \in Analyses : worker[a] \in {"done", "exited"} /\ stream[a] = "open"
    => queue[a] # <<>> /\ Terminal(Last(queue[a]))

\* The modal waits for the analysis whose response it still reads, and there is only one.
OneIsAwaited ==
  /\ \A a \in Analyses : stream[a] = "open" /\ ~gone[a] => ui = "busy" /\ ticket = a
  /\ \A a \in Analyses : worker[a] = "new" => stream[a] = "none" /\ queue[a] = <<>>
  /\ ui \in {"busy", "review", "checking"} => ticket \in Analyses
  /\ ui \in {"review", "checking"} => stream[ticket] # "none"
  /\ ui \notin {"review", "checking"} => suggestions = Nothing

\* All of these rules, put into the document as it is, were sampled.
Sampled(rules) == rules = Nothing \/ \A t \in Ties : Tied(Patched(rules), t) \in previewed

ReviewIsSampled ==
  /\ \A a \in Analyses : stream[a] = "open" /\ ~gone[a] =>
       \A i \in DOMAIN queue[a] : queue[a][i].type = "result" => Sampled(queue[a][i].rules)
  /\ ui \in {"review", "checking"} =>
       /\ Sampled([c \in DOMAIN suggestions |-> ticket])
       /\ \A c \in DOMAIN suggestions \ adjusted : suggestions[c] = ticket
       /\ \A t \in Ties : t \cap chosen # {} => t \cap DOMAIN suggestions \subseteq chosen

AnalysisInv ==
  /\ AnalysisTypeOK /\ HeldUntilExit /\ EventsAreTheirAnalysis /\ OutcomeIsLast
  /\ OneIsAwaited /\ ReviewIsWhatWasAsked /\ ReviewIsSampled /\ TiedAsPreviewed
=============================================================================
