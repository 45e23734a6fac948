------------------------------- MODULE Console -------------------------------
(***************************************************************************)
(* The Streamlit console (ui/app.py): one browser session, and all others  *)
(* as an environment, over one scorer, one MLflow registry, one event log  *)
(* and ops.prediction_labels.  Every click runs the whole script again,    *)
(* from the sidebar to the label editor; an exception nobody catches ends  *)
(* that run, and what comes later on the page is not executed.  The        *)
(* editor's unsaved cells survive a rerun only if the data it is given is  *)
(* the same (external: st.data_editor), and a file stays in its uploader   *)
(* until it is removed (external: st.file_uploader).  The scorer behind it *)
(* is a Rollout whose supervisor restarts it for a champion other than the *)
(* one it confirmed last (serving/supervisor.py).                          *)
(***************************************************************************)
EXTENDS Rollout, Naturals, SequencesExt

CONSTANTS
  CsvIds,      \* event ids of the rows of an uploaded PaySim file
  None,        \* no pending promotion, no file
  MaxClicks,   \* bound: clicks that write
  MaxOthers,   \* bound: what other sessions do, and interruptions of the scorer
  MaxRows      \* ui.history_max_rows

ASSUME ConsoleAssumption ==
  /\ MaxClicks \in Nat /\ MaxOthers \in Nat /\ MaxRows \in Nat
  /\ None \notin CsvIds \cup Versions

\* "ui-" ids are uuids: every draw is new
FormIds == 1..(1 + MaxClicks)
Ids == CsvIds \cup FormIds

\* the ids of a file ("ps-...") are none of the form's
ASSUME IdsAssumption == IsFiniteSet(CsvIds) /\ CsvIds \cap FormIds = {}

Truth == {"unlabeled", "fraud", "legit"}

VARIABLES
  labels,    \* ops.prediction_labels: "unlabeled" is the absence of a row
  log,       \* the ids in the event log, in the order they were scored
  champion,  \* the version the alias names
  confirmed, \* the supervisor's current_version, None while it is down
  pinned,    \* the active-champion pointer its workers boot from
  restarting, \* a restart was begun and is not confirmed
  at,        \* where the session's script is
  click,     \* the button of this run
  form,      \* st.session_state.ui_event_id
  awaited,   \* st.session_state.ui_pending_promotion
  rows,      \* the ids the editor shows, newest first
  base,      \* the labels the editor was given
  cells,     \* the cells changed since, by position
  file,      \* the labels CSV in the uploader
  todo,      \* statements of apply_label_edits still to run
  raced,     \* labels others wrote since the script read them (history)
  outcome,   \* how the last Save or import ended (history)
  clicks, others

labelVars == <<labels, todo, raced, outcome>>
editorVars == <<rows, base, cells, file>>
supervisorVars == <<confirmed, pinned, restarting>>
scorerVars == <<rolloutVars, champion, supervisorVars, log>>
sessionVars == <<form, awaited>>
boundVars == <<clicks, others>>
consoleVars == <<labelVars, editorVars, scorerVars, sessionVars, boundVars, at, click>>

ConsoleTypeOK ==
  /\ RolloutTypeOK
  /\ labels \in [Ids -> Truth]
  /\ log \in Seq(Ids)
  /\ champion \in crowned
  /\ confirmed \in Versions \cup {None}
  /\ pinned \in Versions
  /\ restarting \in BOOLEAN
  /\ at \in {"idle", "sidebar", "info", "score", "registry", "check", "history",
             "labels", "apply"}
  /\ click \in {"none", "form", "csv", "save"} \cup Versions
  /\ form \in FormIds
  /\ awaited \in Versions \cup {None}
  /\ Len(rows) <= MaxRows /\ DOMAIN cells \subseteq 1..Len(rows)
  /\ base \in [Ids -> Truth]
  /\ raced \in SUBSET Ids
  /\ outcome \in {"none", "partly", "saved", "imported", "failed", "half"}

NoCells == [i \in {} |-> "unlabeled"]
Unlabeled == [e \in Ids |-> "unlabeled"]

\* the scorer is up with some champion, and may have scored a row before
ConsoleInit ==
  /\ \E v \in Compatible : crowned = {v} /\ serving = v /\ champion = v
                            /\ confirmed = v /\ pinned = v
  /\ restarting = FALSE
  /\ labels = Unlabeled /\ log \in {<<>>} \cup {<<e>> : e \in CsvIds}
  /\ at = "idle" /\ click = "none"
  /\ form = 1 /\ awaited = None
  /\ rows = <<>> /\ base = Unlabeled /\ cells = NoCells /\ file = None
  /\ todo = <<>> /\ raced = {} /\ outcome = "none"
  /\ clicks = 0 /\ others = 0

Goto(where) == at' = where
------------------------------------------------------------------------------
\* The scorer, and the other sessions

\* a step of the scorer leaves the page and the labels alone
SessionRests == UNCHANGED <<at, click, clicks, labelVars, editorVars, sessionVars>>

\* the server goes down, if one answers
Halt == serving' = Down /\ UNCHANGED crowned

\* the container dies, wherever the supervisor is in a restart
ScorerStops ==
  /\ others < MaxOthers /\ others' = others + 1
  /\ confirmed # None
  /\ Halt
  /\ confirmed' = None /\ restarting' = FALSE
  /\ UNCHANGED <<pinned, log, champion>> /\ SessionRests

\* Docker starts it again: the champion is resolved, the server is spawned
ScorerBoots ==
  /\ confirmed = None
  /\ confirmed' = champion /\ pinned' = champion
  /\ UNCHANGED <<rolloutVars, restarting, log, champion, others>> /\ SessionRests

\* a poll tick that resolves the champion: a restart, unless it is the version
\* confirmed last, whichever version is served
ScorerPolls ==
  /\ confirmed # None /\ ~restarting
  /\ pinned' = champion
  /\ IF champion = confirmed THEN UNCHANGED <<rolloutVars, restarting>>
     ELSE Halt /\ restarting' = TRUE
  /\ UNCHANGED <<confirmed, log, champion, others>> /\ SessionRests

\* the child's workers are up
ScorerServes ==
  /\ confirmed # None
  /\ Serve(pinned)
  /\ UNCHANGED <<supervisorVars, log, champion, others>> /\ SessionRests

ScorerConfirms ==
  /\ restarting /\ serving = pinned
  /\ confirmed' = pinned /\ restarting' = FALSE
  /\ UNCHANGED <<rolloutVars, pinned, log, champion, others>> /\ SessionRests

\* scorer_timeout_s runs out before the server was seen to serve the version
ScorerUnconfirmed ==
  /\ restarting
  /\ others < MaxOthers /\ others' = others + 1
  /\ restarting' = FALSE
  /\ UNCHANGED <<rolloutVars, confirmed, pinned, log, champion>> /\ SessionRests

\* another session promotes, scores the file's rows, or labels an event
OtherPromotes(v) ==
  /\ others < MaxOthers /\ others' = others + 1
  /\ Crown(v) /\ champion' = v
  /\ UNCHANGED <<supervisorVars, log, at, click, clicks, labelVars, editorVars, sessionVars>>

OtherScores(e) ==
  /\ others < MaxOthers /\ others' = others + 1
  /\ serving # Down /\ log' = Append(log, e)
  /\ UNCHANGED <<rolloutVars, champion, supervisorVars>> /\ SessionRests

OtherLabels(e, v) ==
  /\ others < MaxOthers /\ others' = others + 1
  /\ labels' = [labels EXCEPT ![e] = v]
  /\ raced' = raced \cup {e}
  /\ UNCHANGED <<todo, outcome, scorerVars, at, click, clicks, editorVars, sessionVars>>
------------------------------------------------------------------------------
\* The page

\* a widget is used and the script starts over
Rerun(c) ==
  /\ at = "idle" /\ Goto("sidebar")
  /\ click' = c
  /\ outcome' = "none"
  /\ UNCHANGED <<scorerVars, labels, todo, raced, rows, base, sessionVars, others>>

Write == clicks < MaxClicks /\ clicks' = clicks + 1

Look == Rerun("none") /\ UNCHANGED <<cells, file, clicks>>

Click(c) ==
  /\ Write
  /\ c = "save" => rows # <<>>
  /\ Rerun(c) /\ UNCHANGED <<cells, file>>

EditCell(i, v) ==
  /\ Write /\ i \in 1..Len(rows)
  /\ cells' = [j \in DOMAIN cells \cup {i} |-> IF j = i THEN v ELSE cells[j]]
  /\ Rerun("none") /\ UNCHANGED file

\* a labels CSV is put into the uploader, or taken out again
Upload(f) ==
  /\ Write /\ rows # <<>> /\ file # f
  /\ file' = f
  /\ Rerun("none") /\ UNCHANGED cells

Submitted == click \in {"form", "csv"}

\* the inference tab: score_transactions if something was submitted
NextTab == IF Submitted THEN "score" ELSE "registry"

\* is_scorer_healthy: any httpx.HTTPError is "unreachable"
Sidebar ==
  /\ at = "sidebar"
  /\ Goto(IF serving # Down THEN "info" ELSE NextTab)
  /\ UNCHANGED <<scorerVars, labelVars, editorVars, sessionVars, click, boundVars>>

\* get_model_info: a refused connection is no ScorerError and ends the run
SidebarInfo ==
  /\ at = "info"
  /\ Goto(IF serving # Down THEN NextTab ELSE "idle")
  /\ UNCHANGED <<scorerVars, labelVars, editorVars, sessionVars, click, boundVars>>

\* mutant of DrawId: the next id is drawn only once the answer is there
DrawIdLate(answered) ==
  IF answered /\ click = "form"
  THEN form' = form + 1 ELSE UNCHANGED form

\* the form draws the next id when it is submitted, whatever the POST does
DrawId(answered) ==
  IF click = "form" THEN form' = form + 1 ELSE UNCHANGED form

\* score_transactions: what was posted before a failure is scored and logged;
\* a status other than 200 is shown, a timeout or a refusal ends the run
Submit ==
  LET sent == IF click = "form" THEN <<form>>
              ELSE SetToSeq(CsvIds)
  IN /\ at = "score"
     /\ \E n \in 0..Len(sent), answer \in {"ok", "status", "httpx"} :
          /\ answer = "ok" => n = Len(sent)
          /\ serving = Down => n = 0 /\ answer = "httpx"
          /\ log' = log \o SubSeq(sent, 1, n)
          /\ DrawId(answer = "ok")
          /\ Goto(IF answer = "httpx" THEN "idle" ELSE "registry")
     /\ UNCHANGED <<rolloutVars, champion, supervisorVars, labelVars, editorVars,
                    awaited, click, boundVars>>

\* mutant of AwaitServed: the promotion is checked in the run of the click only
AwaitServedOnce == click \in Versions

\* ui_pending_promotion outlives the run that asked for it
AwaitServed == awaited' # None

\* list_model_versions, then the Promote button; if the registry cannot be
\* listed the section returns, whatever was clicked
Registry ==
  /\ at = "registry"
  /\ IF click \in Versions
     THEN Crown(click) /\ champion' = click
          /\ awaited' = click
     ELSE UNCHANGED <<rolloutVars, champion, awaited>>
  /\ Goto(IF AwaitServed THEN "check" ELSE "history")
  /\ UNCHANGED <<supervisorVars, log, labelVars, editorVars, form, click, boundVars>>

RegistryFails ==
  /\ at = "registry"
  /\ Goto("history")
  /\ UNCHANGED <<scorerVars, labelVars, editorVars, sessionVars, click, boundVars>>

\* the pending promotion: get_model_info once more
CheckPromotion ==
  /\ at = "check"
  /\ IF serving = awaited THEN awaited' = None
     ELSE UNCHANGED awaited
  /\ Goto(IF serving = Down THEN "idle" ELSE "history")
  /\ UNCHANGED <<scorerVars, labelVars, editorVars, form, click, boundVars>>

\* load_recent_events: newest first, at most MaxRows
Recent(events) ==
  LET n == Len(events)
  IN SubSeq(Reverse(events), 1, IF n < MaxRows THEN n ELSE MaxRows)

\* the frame may be cached for 15 s, that is, be that of a shorter log; no
\* rows, no editor
LoadFrame ==
  /\ at = "history"
  /\ \E n \in 0..Len(log) : rows' = Recent(SubSeq(log, 1, n))
  /\ Goto(IF rows' = <<>> THEN "idle" ELSE "labels")
  \* the editor is another one when its rows are
  /\ cells' = IF rows' = rows THEN cells ELSE NoCells
  /\ UNCHANGED <<scorerVars, labelVars, base, file, sessionVars, click, boundVars>>

\* a line that a request of someone else is writing does not parse
LoadFails ==
  /\ at = "history" /\ serving # Down
  /\ Goto("idle")
  /\ UNCHANGED <<scorerVars, labelVars, editorVars, sessionVars, click, boundVars>>

Shown == {rows[i] : i \in 1..Len(rows)}
LastRow(e) == CHOOSE i \in 1..Len(rows) :
  rows[i] = e /\ \A j \in (i + 1)..Len(rows) : rows[j] # e

\* what the editor shows in row i, once it was given the labels `given`
CellIn(given, kept, i) == IF i \in DOMAIN kept THEN kept[i] ELSE given[rows[i]]

\* mutant of Statements: every edit is upserted, is_fraud = (value == "fraud")
StatementsUpsertAll(edits) ==
  [i \in 1..Cardinality(DOMAIN edits) |->
     LET e == SetToSeq(DOMAIN edits)[i]
     IN [ids |-> {e}, value |-> IF edits[e] = "fraud" THEN "fraud" ELSE "legit"]]

\* apply_label_edits: one upsert per labelled id, then one DELETE
Statements(edits) ==
  LET upserts == {e \in DOMAIN edits : edits[e] # "unlabeled"}
      deletes == DOMAIN edits \ upserts
  IN [i \in 1..Cardinality(upserts) |->
        LET e == SetToSeq(upserts)[i] IN [ids |-> {e}, value |-> edits[e]]]
     \o (IF deletes = {} THEN <<>> ELSE <<[ids |-> deletes, value |-> "unlabeled"]>>)

\* mutant of ReadLabels: get_labels is cached like the frame
ReadLabelsCached == base

ReadLabels == [e \in Ids |-> IF e \in Shown THEN labels[e] ELSE "unlabeled"]

\* get_labels, the editor, and the edits that Save and the uploader make of it:
\* Save writes every row shown, and of an id shown twice the last row
ReadAndEdit ==
  LET given == ReadLabels
      kept == IF given = base THEN cells ELSE NoCells
      saved == IF click = "save"
               THEN Statements([e \in Shown |-> CellIn(given, kept, LastRow(e))])
               ELSE <<>>
      imported == IF file = None THEN <<>>
                  ELSE <<[ids |-> {file[1]}, value |-> file[2]]>>
  IN /\ at = "labels"
     /\ base' = given
     /\ cells' = kept
     /\ todo' = saved \o imported
     /\ raced' = {}
     /\ Goto(IF saved \o imported = <<>> THEN "idle" ELSE "apply")
     /\ UNCHANGED <<scorerVars, labels, outcome, rows, file, sessionVars, click, boundVars>>

\* one statement; the connection commits each by itself
Statement ==
  LET now == Head(todo)
  IN /\ at = "apply"
     /\ labels' = [e \in Ids |-> IF e \in now.ids THEN now.value ELSE labels[e]]
     /\ todo' = Tail(todo)
     /\ IF Len(todo) > 1 THEN outcome' = "partly" /\ UNCHANGED at
        ELSE /\ outcome' = IF file = None THEN "saved" ELSE "imported"
             /\ Goto("idle")
     /\ UNCHANGED <<scorerVars, raced, editorVars, sessionVars, click, boundVars>>

\* Postgres goes away: psycopg2's error ends the run
StatementFails ==
  /\ at = "apply"
  /\ outcome' = IF outcome = "partly" THEN "half" ELSE "failed"
  /\ Goto("idle")
  /\ UNCHANGED <<scorerVars, labels, todo, raced, editorVars, sessionVars, click, boundVars>>

ScriptStep ==
  \/ Sidebar \/ SidebarInfo
  \/ Submit
  \/ Registry \/ CheckPromotion
  \/ LoadFrame \/ ReadAndEdit \/ Statement

Others ==
  \/ ScorerStops \/ ScorerUnconfirmed
  \/ \E v \in Compatible : OtherPromotes(v)
  \/ \E e \in CsvIds : OtherScores(e)
  \/ \E e \in Ids, v \in Truth : OtherLabels(e, v)

ScorerStep == ScorerBoots \/ ScorerPolls \/ ScorerServes \/ ScorerConfirms

User ==
  \/ Look
  \/ \E c \in {"form", "csv", "save"} \cup Compatible : Click(c)
  \/ \E i \in 1..MaxRows, v \in Truth : EditCell(i, v)
  \/ \E f \in {None} \cup (Ids \X {"fraud", "legit"}) : Upload(f)

ConsoleNext ==
  \/ ScriptStep \/ RegistryFails \/ LoadFails \/ StatementFails
  \/ User \/ Others \/ ScorerStep

\* Scripts run to their end; users look again; the supervisor polls, boots what
\* it spawned and notices it; MLflow can be reached again and again
ConsoleSpec ==
  /\ ConsoleInit /\ [][ConsoleNext]_consoleVars
  /\ WF_consoleVars(ScorerStep)
  /\ WF_consoleVars(ScriptStep)
  /\ WF_consoleVars(Look)
  /\ SF_consoleVars(Registry)
------------------------------------------------------------------------------

\* the label the user chose for e, in a cell of the editor or in a file
Chose(e, v) ==
  \/ file = <<e, v>>
  \/ \E i \in DOMAIN cells : rows[i] = e /\ cells[i] = v

(***************************************************************************)
(* Save writes every row of the editor, not only those that were changed   *)
(* (inspection.py:184-190), and still the script changes a label only to   *)
(* what its user chose, or back to what it had read just before another    *)
(* session wrote that label: labels are read again in the run that saves.  *)
(***************************************************************************)
OnlyChosenOrRaced ==
  [][todo # <<>> /\ todo' = Tail(todo) =>
       \A e \in Head(todo).ids :
         labels'[e] # labels[e] => Chose(e, labels'[e]) \/ e \in raced]_<<todo, labels>>

(***************************************************************************)
(* An event id of the form is "auto-assigned and unique": a transaction    *)
(* that is submitted again after an error, from the same page, goes out    *)
(* under another id, so no id of the form is in the event log twice and a  *)
(* label means one prediction.                                             *)
(***************************************************************************)
FormIdsUnique ==
  \A i, j \in 1..Len(log) : i # j /\ log[i] \in FormIds => log[i] # log[j]

(***************************************************************************)
(* A promotion that no other overtakes is acknowledged on the page that    *)
(* asked for it, although the runs that look while the scorer restarts     *)
(* end with an error and a restart may have to be retried.  One case is    *)
(* excepted, because there it never is: the promotion takes back one whose *)
(* restart was not confirmed, so the supervisor compares the champion with *)
(* the version it confirmed before, finds it unchanged, and leaves the     *)
(* other version served (Supervisor's SkipOnlyWhenServed).                 *)
(***************************************************************************)
RolledBackUnconfirmed ==
  confirmed = champion /\ ~restarting /\ serving \notin {Down, champion}

PromotionAcknowledged ==
  \A v \in Versions :
    awaited = v ~> awaited # v \/ champion # v \/ RolledBackUnconfirmed

(***************************************************************************)
(* Claimed by ui/labels.py: running both batches on one connection "keeps  *)
(* a mixed edit (some rows labeled, others cleared) from landing           *)
(* half-applied".                                                          *)
(***************************************************************************)
NeverHalfApplied == outcome # "half"
==============================================================================
