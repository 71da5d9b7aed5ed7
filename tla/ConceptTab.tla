------------------------------ MODULE ConceptTab ------------------------------
(***************************************************************************)
(* One model tab of the application, as one browser session sees it:       *)
(* ui/tab.py's handlers over core/logic.py's pure rules.                   *)
(*                                                                         *)
(* A handler is a job.  The browser fires it with the component values of  *)
(* that moment; the server starts it, and reads the session's gr.State     *)
(* values then; when it returns, the server writes the gr.State outputs    *)
(* and the browser shows the component outputs.  Jobs of different         *)
(* handlers overlap, jobs of one handler do not (Gradio's default          *)
(* concurrency limit), and a component whose value a handler changes fires *)
(* its own .change listener.                                               *)
(*                                                                         *)
(* Chatbot and history_state are written together by every handler, and so *)
(* are resolved_config_state and resolved_state_json: one variable each.   *)
(* The seed, the language and all wording are left out.                    *)
(***************************************************************************)
EXTENDS Naturals, Sequences, FiniteSets

CONSTANTS
  Concepts,         \* the concept ids of the tab's entries
  FirstConcept,     \* entries[0]
  Directions,
  Strengths,
  FirstStrength,    \* "low"
  Calibrated,       \* Calibrated[c]: the directions entry c calibrates
  FirstDirection,   \* FirstDirection[c]: the first of them
  Executable,       \* the <<concept, direction>> check_direction_executable accepts
  Prompts,
  EmptyBox,         \* a chat box that is empty or only whitespace
  None,
  MaxTurns,         \* bound: exchanges in one conversation
  MaxPending,       \* bound: jobs pending when the user acts again
  Patient,          \* TRUE: the user acts only when no job is pending
  Moves             \* what the user does: some of MoveKinds

MoveKinds == {"card", "direction", "strength", "type", "send", "compare", "language"}

ASSUME TabConstants ==
  /\ FirstConcept \in Concepts
  /\ FirstStrength \in Strengths
  /\ Calibrated \in [Concepts -> SUBSET Directions]
  /\ FirstDirection \in [Concepts -> Directions]
  /\ \A c \in Concepts : FirstDirection[c] \in Calibrated[c]
  /\ \A c \in Concepts, d \in Directions : <<c, d>> \in Executable => d \in Calibrated[c]
  /\ EmptyBox \notin Prompts
  /\ Patient \in BOOLEAN
  /\ Moves \subseteq MoveKinds

ASSUME NoneIsNoValue ==
  /\ None \notin Concepts
  /\ None \notin Strengths

VARIABLES
  \* what the browser holds
  direction, strength,   \* the two radios
  box,                   \* chat_input
  offered,               \* the concept whose directions the direction radio offers
  detail,                \* the concept the detail and positions panels describe
  summary,               \* "What produced this reply": a setting, or None
  comparison,            \* the two Compare panes, or None
  notice,                \* the reset notice is shown
  refusal,               \* what the capability notice speaks about, or None
  \* the session's gr.State values
  concept, history, selection, config,
  \* the handlers fired and not yet returned
  jobs

radios   == <<direction, strength>>
panels   == <<offered, detail>>
notices  == <<notice, refusal>>
session  == <<concept, history, selection, config>>
vars     == <<direction, strength, box, offered, detail, summary, comparison,
              notice, refusal, concept, history, selection, config, jobs>>

-------------------------------------------------------------------------------
(* Settings, exchanges and comparisons. *)

Setting == [concept : Concepts, direction : Directions, strength : Strengths]

\* Selection(concept_id, direction, strength_level) of core/logic.py
Selection(c, d, s) == [concept |-> c, direction |-> d, strength |-> s]

\* One user message and its reply; a reply is known by the setting that steered it.
Exchange == [prompt : Prompts, setting : Setting]

\* The request the Compare panes answer: run_compare's prompt and history.
Comparison == [prompt : Prompts, context : Seq(Exchange), setting : Setting,
               reused : BOOLEAN]

\* The setting the controls on the page show.
Shown == Selection(concept, direction, strength)

\* Mutants of HistoryAfter: None in place of an empty list; a comparison without the strength.
HistoryAfterNone(previous, new, past) == IF previous = new THEN past ELSE None
HistoryAfterAnyStrength(previous, new, past) ==
  IF previous.concept = new.concept /\ previous.direction = new.direction THEN past ELSE <<>>

\* apply_selection_change: the history a settings change leaves.
HistoryAfter(previous, new, past) == IF previous = new THEN past ELSE <<>>

\* _on_send's guard: something to ask, and a direction that can run.
CanAsk(message, c, d) == message # EmptyBox /\ <<c, d>> \in Executable

\* Why a handler refused: there was nothing to ask, or that direction cannot run.
Refusal(message, c, d) ==
  IF message = EmptyBox THEN EmptyBox ELSE [concept |-> c, direction |-> d]

\* _reuse_last_exchange: the message Compare runs, and the history before it.
ComparedMessage(message, past) ==
  IF message # EmptyBox THEN message
  ELSE IF past = <<>> THEN EmptyBox ELSE past[Len(past)].prompt
\* Mutant of ComparedContext: the reused message stays in its own context.
ComparedContextWhole(message, past) == past

ComparedContext(message, past) ==
  IF message # EmptyBox \/ past = <<>> THEN past ELSE SubSeq(past, 1, Len(past) - 1)

-------------------------------------------------------------------------------
(* Jobs. *)

SendTriggers   == {"click", "submit"}             \* the button and Enter
ChangeTriggers == {"direction", "strength"}       \* the two radios' .change
LangTriggers   == {"langDetail", "langDirections", "langSummary"}
Triggers       == SendTriggers \cup ChangeTriggers \cup LangTriggers
                    \cup {"concept", "compare"}

\* Mutant of Handler: the button and Enter get a listener each.
HandlerPerTrigger(t) == t

\* The function object behind a trigger: Gradio limits concurrency by it.
Handler(t) == CASE t \in SendTriggers   -> "_on_send"
                [] t \in ChangeTriggers -> "_on_direction_or_strength_change"
                [] OTHER                -> t

\* What the browser sends: the radios, the chat box, and the card clicked.
Seen == [direction : Directions, strength : Strengths,
         box : Prompts \cup {EmptyBox}, card : Concepts \cup {None}]
SeenWith(d, s, card) == [direction |-> d, strength |-> s, box |-> box, card |-> card]
SeenNow(card) == SeenWith(direction, strength, card)

\* What a handler reads of the session when it starts.
Read == [concept : Concepts, history : Seq(Exchange), selection : Setting,
         config : Setting \cup {None}]
ReadNow == [concept |-> concept, history |-> history, selection |-> selection,
            config |-> config]

Idle == [phase |-> "idle"]
Job  == [phase : {"idle"}]
          \cup [phase : {"queued"},  seen : Seen, again : BOOLEAN]
          \cup [phase : {"running"}, seen : Seen, again : BOOLEAN, read : Read]

Pending == {t \in Triggers : jobs[t].phase # "idle"}
Running(t) == jobs[t].phase = "running"

Queued(seen) == [phase |-> "queued", seen |-> seen, again |-> FALSE]

\* Firing t.  A click while the same trigger is pending is dropped
\* (trigger_mode "once"); a .change then fires again later ("always_last").
Fired(js, t, seen) ==
  [js EXCEPT ![t] =
     IF @.phase = "idle" THEN Queued(seen)
     ELSE IF t \in ChangeTriggers \cup LangTriggers THEN [@ EXCEPT !.again = TRUE]
     ELSE @]

\* Mutant of Returned: a radio's handler fires its own .change.
ReturnedFiring(t, seen) ==
  [jobs EXCEPT ![t] = IF t \in ChangeTriggers \/ @.again THEN Queued(seen) ELSE Idle]

\* Job t has returned; a .change that came meanwhile fires with the page as it is now.
Returned(t, seen) == [jobs EXCEPT ![t] = IF @.again THEN Queued(seen) ELSE Idle]

-------------------------------------------------------------------------------
(* The page as build_model_tab builds it. *)

Init ==
  /\ concept = FirstConcept /\ offered = FirstConcept /\ detail = FirstConcept
  /\ direction = FirstDirection[FirstConcept]
  /\ strength = FirstStrength
  /\ selection = Selection(FirstConcept, FirstDirection[FirstConcept], FirstStrength)
  /\ config = Selection(FirstConcept, FirstDirection[FirstConcept], FirstStrength)
  /\ box = EmptyBox /\ history = <<>>
  /\ summary = None /\ comparison = None /\ refusal = None /\ notice = FALSE
  /\ jobs = [t \in Triggers |-> Idle]

-------------------------------------------------------------------------------
(* The user. *)

MayAct(move) ==
  /\ move \in Moves
  /\ Cardinality(Pending) < MaxPending
  /\ Patient => Pending = {}

ClickConcept(c) ==
  /\ MayAct("card") /\ jobs["concept"] = Idle
  /\ jobs' = Fired(jobs, "concept", SeenNow(c))
  /\ UNCHANGED <<radios, panels, notices, session, box, summary, comparison>>

PickDirection(d) ==
  /\ MayAct("direction") /\ d # direction /\ d \in Calibrated[offered]
  /\ direction' = d
  /\ jobs' = Fired(jobs, "direction", SeenWith(d, strength, None))
  /\ UNCHANGED <<strength, panels, notices, session, box, summary, comparison>>

PickStrength(s) ==
  /\ MayAct("strength") /\ s # strength
  /\ strength' = s
  /\ jobs' = Fired(jobs, "strength", SeenWith(direction, s, None))
  /\ UNCHANGED <<direction, panels, notices, session, box, summary, comparison>>

Type(p) ==
  /\ MayAct("type") /\ p # box
  /\ box' = p
  /\ UNCHANGED <<radios, panels, notices, session, summary, comparison, jobs>>

PressSend(t) ==
  /\ MayAct("send") /\ jobs[t] = Idle /\ Len(history) < MaxTurns
  /\ jobs' = Fired(jobs, t, SeenNow(None))
  /\ UNCHANGED <<radios, panels, notices, session, box, summary, comparison>>

PressCompare ==
  /\ MayAct("compare") /\ jobs["compare"] = Idle
  /\ jobs' = Fired(jobs, "compare", SeenNow(None))
  /\ UNCHANGED <<radios, panels, notices, session, box, summary, comparison>>

\* lang_radio.change has one listener per panel whose text needs more than the language.
SwitchLanguage ==
  /\ MayAct("language")
  /\ jobs' = Fired(Fired(Fired(jobs, "langDetail", SeenNow(None)),
                         "langDirections", SeenNow(None)), "langSummary", SeenNow(None))
  /\ UNCHANGED <<radios, panels, notices, session, box, summary, comparison>>

UserActs ==
  \/ \E c \in Concepts : ClickConcept(c)
  \/ \E d \in Directions : PickDirection(d)
  \/ \E s \in Strengths : PickStrength(s)
  \/ \E p \in Prompts \cup {EmptyBox} : Type(p)
  \/ \E t \in SendTriggers : PressSend(t)
  \/ PressCompare
  \/ SwitchLanguage

-------------------------------------------------------------------------------
(* The server. *)

Start(t) ==
  /\ jobs[t].phase = "queued"
  /\ \A u \in Triggers : Running(u) => Handler(u) # Handler(t)
  /\ jobs' = [jobs EXCEPT ![t] = [phase |-> "running", seen |-> @.seen,
                                  again |-> @.again, read |-> ReadNow]]
  /\ UNCHANGED <<radios, panels, notices, session, box, summary, comparison>>

\* A handler that sets the direction radio fires its .change if the value moved.
ReturnedAfterRadio(t, d) ==
  LET seen == SeenWith(d, strength, None)
      done == Returned(t, seen)
  IN  IF d = direction THEN done ELSE Fired(done, "direction", seen)

\* _on_concept_click: the card's concept with the first direction it calibrates.
FinishConceptClick ==
  /\ Running("concept")
  /\ LET job == jobs["concept"]
         c   == job.seen.card
         new == Selection(c, FirstDirection[c], job.seen.strength)
     IN  /\ concept' = c /\ offered' = c /\ detail' = c
         /\ direction' = FirstDirection[c]
         /\ history' = HistoryAfter(job.read.selection, new, job.read.history)
         /\ notice' = (job.read.selection # new)
         /\ selection' = new
         /\ jobs' = ReturnedAfterRadio("concept", FirstDirection[c])
  /\ comparison' = None
  /\ UNCHANGED <<strength, box, summary, refusal, config>>

\* Mutant of FinishSettingChange: the panes are not among the outputs.
FinishSettingChangeKeepingPanes(t) ==
  /\ Running(t)
  /\ LET job == jobs[t]
         new == Selection(job.read.concept, job.seen.direction, job.seen.strength)
     IN  /\ history' = HistoryAfter(job.read.selection, new, job.read.history)
         /\ notice' = (job.read.selection # new)
         /\ selection' = new
  /\ jobs' = Returned(t, SeenNow(None))
  /\ UNCHANGED <<radios, panels, box, summary, comparison, refusal, concept, config>>

\* _on_direction_or_strength_change
FinishSettingChange(t) ==
  /\ Running(t)
  /\ LET job == jobs[t]
         new == Selection(job.read.concept, job.seen.direction, job.seen.strength)
     IN  /\ history' = HistoryAfter(job.read.selection, new, job.read.history)
         /\ notice' = (job.read.selection # new)
         /\ selection' = new
  /\ comparison' = None
  /\ jobs' = Returned(t, SeenNow(None))
  /\ UNCHANGED <<radios, panels, box, summary, refusal, concept, config>>

\* _on_send's early returns write back the history and the message they were given.
RefuseSend(t) ==
  /\ Running(t)
  /\ LET job == jobs[t]
     IN  /\ ~CanAsk(job.seen.box, job.read.concept, job.seen.direction)
         /\ history' = job.read.history
         /\ box' = job.seen.box
         /\ refusal' = Refusal(job.seen.box, job.read.concept, job.seen.direction)
  /\ summary' = None /\ config' = None
  /\ jobs' = Returned(t, SeenNow(None))
  /\ UNCHANGED <<radios, panels, comparison, notice, concept, selection>>

\* _on_send after the reply has come.
FinishSend(t) ==
  /\ Running(t)
  /\ LET job == jobs[t]
         asked == Selection(job.read.concept, job.seen.direction, job.seen.strength)
     IN  /\ CanAsk(job.seen.box, asked.concept, asked.direction)
         /\ history' = Append(job.read.history, [prompt |-> job.seen.box, setting |-> asked])
         /\ summary' = asked
         /\ config' = asked
  /\ box' = EmptyBox /\ refusal' = None
  /\ jobs' = Returned(t, SeenNow(None))
  /\ UNCHANGED <<radios, panels, comparison, notice, concept, selection>>

\* _on_compare's early returns blank both panes.
RefuseCompare ==
  /\ Running("compare")
  /\ LET job == jobs["compare"]
         message == ComparedMessage(job.seen.box, job.read.history)
     IN  /\ ~CanAsk(message, job.read.concept, job.seen.direction)
         /\ refusal' = Refusal(message, job.read.concept, job.seen.direction)
  /\ comparison' = None /\ config' = None
  /\ jobs' = Returned("compare", SeenNow(None))
  /\ UNCHANGED <<radios, panels, box, summary, notice, concept, history, selection>>

\* _on_compare after both arms have answered.
FinishCompare ==
  /\ Running("compare")
  /\ LET job == jobs["compare"]
         message == ComparedMessage(job.seen.box, job.read.history)
         asked == Selection(job.read.concept, job.seen.direction, job.seen.strength)
     IN  /\ CanAsk(message, asked.concept, asked.direction)
         /\ comparison' = [prompt  |-> message,
                           context |-> ComparedContext(job.seen.box, job.read.history),
                           setting |-> asked,
                           reused  |-> (job.seen.box = EmptyBox)]
         /\ config' = asked
  /\ refusal' = None
  /\ jobs' = Returned("compare", SeenNow(None))
  /\ UNCHANGED <<radios, panels, box, summary, notice, concept, history, selection>>

\* The backend raised: Gradio shows an error and writes none of the outputs.
Fail(t) ==
  /\ Running(t)
  /\ LET job == jobs[t]
         message == IF t = "compare" THEN ComparedMessage(job.seen.box, job.read.history)
                    ELSE job.seen.box
     IN  CanAsk(message, job.read.concept, job.seen.direction)
  /\ jobs' = Returned(t, SeenNow(None))
  /\ UNCHANGED <<radios, panels, notices, session, box, summary, comparison>>

\* Mutant of FinishLangDetail: the panel of the first entry, which the tab was built with.
FinishLangDetailFirst ==
  /\ Running("langDetail")
  /\ detail' = FirstConcept
  /\ jobs' = Returned("langDetail", SeenNow(None))
  /\ UNCHANGED <<radios, offered, notices, session, box, summary, comparison>>

\* _refresh_concept_detail_on_lang_change, _refresh_positions_display_on_lang_change
FinishLangDetail ==
  /\ Running("langDetail")
  /\ detail' = jobs["langDetail"].read.concept
  /\ jobs' = Returned("langDetail", SeenNow(None))
  /\ UNCHANGED <<radios, offered, notices, session, box, summary, comparison>>

\* _refresh_direction_controls_on_lang_change writes the radio's value, not only its choices.
FinishLangDirections ==
  /\ Running("langDirections")
  /\ LET job == jobs["langDirections"]
         c == job.read.concept
         d == IF job.seen.direction \in Calibrated[c] THEN job.seen.direction
              ELSE FirstDirection[c]
     IN  /\ offered' = c
         /\ direction' = d
         /\ jobs' = ReturnedAfterRadio("langDirections", d)
  /\ UNCHANGED <<strength, detail, notices, session, box, summary, comparison>>

\* _refresh_output_summary_on_lang_change
FinishLangSummary ==
  /\ Running("langSummary")
  /\ summary' = jobs["langSummary"].read.config
  /\ jobs' = Returned("langSummary", SeenNow(None))
  /\ UNCHANGED <<radios, panels, notices, session, box, comparison>>

Finish ==
  \/ FinishConceptClick
  \/ \E t \in ChangeTriggers : FinishSettingChange(t)
  \/ \E t \in SendTriggers : RefuseSend(t) \/ FinishSend(t)
  \/ RefuseCompare \/ FinishCompare
  \/ \E t \in SendTriggers \cup {"compare"} : Fail(t)
  \/ FinishLangDetail \/ FinishLangDirections \/ FinishLangSummary

Next ==
  \/ UserActs
  \/ \E t \in Triggers : Start(t)
  \/ Finish

Spec == Init /\ [][Next]_vars

\* A queued handler is started and a started one returns: the queue is FIFO per
\* handler and a generation is bounded by max_new_tokens.  The user owes nothing.
FairSpec == Spec /\ WF_vars(\E t \in Triggers : Start(t)) /\ WF_vars(Finish)

-------------------------------------------------------------------------------
(* What the tab promises. *)

Quiet == Pending = {}

\* A pending card click knows its card.
CardKnown ==
  jobs["concept"] # Idle =>
    jobs["concept"].seen.card \in Concepts /\ ~jobs["concept"].again

\* Every variable holds a value the handlers can write.
TypeOK ==
  /\ direction \in Directions /\ strength \in Strengths
  /\ box \in Prompts \cup {EmptyBox}
  /\ offered \in Concepts /\ detail \in Concepts
  /\ summary \in Setting \cup {None}
  /\ comparison \in Comparison \cup {None}
  /\ notice \in BOOLEAN
  /\ refusal \in [concept : Concepts, direction : Directions] \cup {EmptyBox, None}
  /\ concept \in Concepts /\ history \in Seq(Exchange)
  /\ selection \in Setting /\ config \in Setting \cup {None}
  /\ jobs \in [Triggers -> Job] /\ CardKnown

\* "A reply produced under a different setting is never left on screen next to a
\* changed control": once the page is quiet, the setting that _check_and_apply
\* recorded is the one the controls show, and every reply in the conversation
\* was produced under it.
NoStaleReply ==
  Quiet => /\ selection = Shown
           /\ \A i \in DOMAIN history : history[i].setting = Shown

\* _cleared_compare_panes: the panes do not survive a change of setting.
NoStaleComparison ==
  Quiet /\ comparison # None => comparison.setting = Shown

\* _reuse_last_exchange: a comparison that reuses a message repeats the request
\* behind a reply of the conversation on screen, its preceding history and its
\* setting included, and never asks the same question on top of itself.
ReusedComparisonRepeatsAReply ==
  comparison # None /\ comparison.reused =>
    \E i \in DOMAIN history :
      /\ history[i] = [prompt |-> comparison.prompt, setting |-> comparison.setting]
      /\ comparison.context = SubSeq(history, 1, i - 1)

\* The radio offers the directions of the selected concept and the panels describe
\* it, whichever of a card click and the language refreshers wrote last.
PanelsFollowConcept ==
  Quiet => offered = concept /\ detail = concept /\ direction \in Calibrated[concept]

\* A conversation is only ever extended by one exchange, or dropped whole by a
\* change of setting: no handler writes back a conversation it read too early.
ConversationOnlyGrowsOrResets ==
  [][history' # history =>
       \/ /\ Len(history') = Len(history) + 1
          /\ SubSeq(history', 1, Len(history)) = history
       \/ history' = <<>> /\ selection' # selection]_vars

\* The setting a started change handler is about to record.
SettingAhead(t) ==
  LET job == jobs[t]
  IN  IF t = "concept" THEN Selection(job.seen.card, FirstDirection[job.seen.card], job.seen.strength)
      ELSE Selection(job.read.concept, job.seen.direction, job.seen.strength)

\* A reset is announced, "with no exceptions": every change of setting leads to a
\* quiet page that shows the reset notice.
ResetIsAnnounced ==
  (\E t \in ChangeTriggers \cup {"concept"} :
     Running(t) /\ SettingAhead(t) # jobs[t].read.selection) ~> (Quiet /\ notice)

Chat == INSTANCE ChatSession WITH
          Settings <- Setting,
          FirstSetting <- Selection(FirstConcept, FirstDirection[FirstConcept], FirstStrength),
          setting <- selection, conversation <- history

\* Handlers, queue and page together behave as if every operation of the user
\* were one indivisible step on a setting and the conversation held under it.
ImplementsChatSession == Chat!Spec

-------------------------------------------------------------------------------
(* Why a patient user is safe: the inductive invariant behind the promises. *)

\* One gesture at a time: only a language switch has several jobs pending at once.
OneGesture ==
  \A t, u \in Triggers :
    t # u /\ jobs[t] # Idle /\ jobs[u] # Idle => t \in LangTriggers /\ u \in LangTriggers

\* What a pending job saw of the page, and read of the session, is still so.
JobsAreCurrent ==
  \A t \in Triggers :
    /\ jobs[t] # Idle =>
         /\ jobs[t].seen = SeenNow(jobs[t].seen.card)
         /\ ~jobs[t].again
    /\ Running(t) => jobs[t].read = ReadNow

\* The recorded selection lags behind the controls only while a radio's job is pending.
RecordedIsShown ==
  /\ offered = concept /\ detail = concept /\ direction \in Calibrated[concept]
  /\ selection.concept = concept
  /\ (\A t \in ChangeTriggers : jobs[t] = Idle) => selection = Shown

\* Everything produced is produced under the recorded selection.
ProducedUnderSelection ==
  /\ \A i \in DOMAIN history : history[i].setting = selection
  /\ comparison # None => comparison.setting = selection

PatientInv ==
  /\ OneGesture
  /\ JobsAreCurrent
  /\ RecordedIsShown
  /\ ProducedUnderSelection
  /\ ReusedComparisonRepeatsAReply

-------------------------------------------------------------------------------
\* The page always settles: no chain of handlers and .change listeners fires forever.
PageSettles == []<>Quiet

===============================================================================
