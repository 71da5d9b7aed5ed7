--------------------------- MODULE ConceptTabProofs ---------------------------
(***************************************************************************)
(* Proofs about ConceptTab, for every set of concepts, prompts and         *)
(* strengths and for conversations of any length.                          *)
(***************************************************************************)
EXTENDS ConceptTab, SequenceTheorems, TLAPS

-------------------------------------------------------------------------------
(* Jobs. *)

\* What the browser sends has the shape a handler expects.
LEMMA SeenType ==
  ASSUME TypeOK, NEW card \in Concepts \cup {None}
  PROVE  /\ SeenNow(card) \in Seen
         /\ \A d \in Directions, s \in Strengths : SeenWith(d, s, card) \in Seen
  BY DEF TypeOK, SeenNow, SeenWith, Seen

\* A trigger's job keeps its shape when the trigger fires (Gradio's trigger modes).
LEMMA FiredType ==
  ASSUME NEW js \in [Triggers -> Job], NEW t \in Triggers, NEW seen \in Seen
  PROVE  Fired(js, t, seen) \in [Triggers -> Job]
<1>1. Queued(seen) \in Job
  BY DEF Queued, Job
<1>2. js[t].phase # "idle" => [js[t] EXCEPT !.again = TRUE] \in Job
  <2>1. js[t] \in Job
    OBVIOUS
  <2>. QED  BY ONLY <2>1 DEF Job
<1> QED
  BY <1>1, <1>2 DEF Fired

\* A returned job leaves its trigger idle, or queued again.
LEMMA ReturnedType ==
  ASSUME jobs \in [Triggers -> Job], NEW t \in Triggers, NEW seen \in Seen
  PROVE  Returned(t, seen) \in [Triggers -> Job]
  BY DEF Returned, Queued, Idle, Job

\* A returned job that moved the direction radio leaves jobs of the right shape.
LEMMA ReturnedAfterRadioType ==
  ASSUME TypeOK, NEW t \in Triggers, NEW d \in Directions
  PROVE  ReturnedAfterRadio(t, d) \in [Triggers -> Job]
<1>1. SeenWith(d, strength, None) \in Seen
  BY SeenType DEF TypeOK
<1>2. "direction" \in Triggers
  BY DEF Triggers, ChangeTriggers
<1>3. jobs \in [Triggers -> Job]
  BY DEF TypeOK
<1>4. Returned(t, SeenWith(d, strength, None)) \in [Triggers -> Job]
  BY <1>1, <1>3, ReturnedType
<1> QED
  BY <1>1, <1>2, <1>4, FiredType DEF ReturnedAfterRadio

\* A running job carries what it saw and what it read.
LEMMA RunningType ==
  ASSUME TypeOK, NEW t \in Triggers, Running(t)
  PROVE  /\ jobs[t].seen \in Seen /\ jobs[t].read \in Read
         /\ jobs[t].again \in BOOLEAN
  BY DEF TypeOK, Job, Running

\* The settings that handlers build from typed parts are settings.
LEMMA SelectionType ==
  ASSUME NEW c \in Concepts, NEW d \in Directions, NEW s \in Strengths
  PROVE  Selection(c, d, s) \in Setting
  BY DEF Selection, Setting

\* Only its own trigger's job changes when a trigger fires ...
LEMMA FiredElsewhere ==
  ASSUME NEW js \in [Triggers -> Job], NEW t \in Triggers, NEW seen \in Seen,
         NEW u \in Triggers, t # u
  PROVE  Fired(js, t, seen)[u] = js[u]
  BY DEF Fired

\* ... or its job returns.
LEMMA ReturnedElsewhere ==
  ASSUME jobs \in [Triggers -> Job], NEW t \in Triggers, NEW seen \in Seen,
         NEW u \in Triggers, t # u
  PROVE  Returned(t, seen)[u] = jobs[u]
  BY DEF Returned

-------------------------------------------------------------------------------
(* Type correctness. *)

LEMMA TypeInit == Init => TypeOK
<1> SUFFICES ASSUME Init PROVE TypeOK
  OBVIOUS
<1>1. Selection(FirstConcept, FirstDirection[FirstConcept], FirstStrength) \in Setting
  BY TabConstants, SelectionType
<1>2. jobs \in [Triggers -> Job] /\ CardKnown
  BY DEF Init, Idle, Job, CardKnown, Triggers
<1>3. history \in Seq(Exchange)
  BY DEF Init
<1> QED
  BY <1>1, <1>2, <1>3, TabConstants DEF Init, TypeOK

\* The user's gestures: each fires jobs, and a radio or the chat box changes.
LEMMA TypeUser == TypeOK /\ UserActs => TypeOK'
<1> SUFFICES ASSUME TypeOK, UserActs PROVE TypeOK'
  OBVIOUS
<1> USE DEF TypeOK
<1>0. /\ jobs \in [Triggers -> Job]
      /\ SeenNow(None) \in Seen
      /\ \A c \in Concepts : SeenNow(c) \in Seen
      /\ \A d \in Directions, s \in Strengths : SeenWith(d, s, None) \in Seen
      /\ SendTriggers \cup ChangeTriggers \cup LangTriggers \cup {"compare", "concept"} \subseteq Triggers
      /\ "concept" \notin SendTriggers \cup ChangeTriggers \cup LangTriggers \cup {"compare"}
  BY SeenType DEF Triggers, SendTriggers, ChangeTriggers, LangTriggers
<1>a. ASSUME NEW t \in Triggers \ {"concept"}, NEW seen \in Seen, NEW js \in [Triggers -> Job],
             js["concept"] = jobs["concept"]
      PROVE  /\ Fired(js, t, seen) \in [Triggers -> Job]
             /\ Fired(js, t, seen)["concept"] = jobs["concept"]
  <2>1. "concept" \in Triggers /\ t # "concept"
    BY <1>0
  <2>2. Fired(js, t, seen)["concept"] = js["concept"]
    BY <2>1, FiredElsewhere
  <2> QED
    BY <1>a, <2>2, FiredType
<1>1. ASSUME NEW c \in Concepts, ClickConcept(c) PROVE TypeOK'
  <2>1. jobs' \in [Triggers -> Job]
    BY <1>0, <1>1, FiredType DEF ClickConcept
  <2>2. CardKnown'
    BY <1>0, <1>1 DEF ClickConcept, CardKnown, Fired, Queued, Idle, SeenNow, SeenWith
  <2> QED BY <1>1, <2>1, <2>2 DEF ClickConcept, radios, panels, notices, session
<1>2. ASSUME NEW d \in Directions, PickDirection(d) PROVE TypeOK'
  <2>1. jobs' \in [Triggers -> Job] /\ jobs'["concept"] = jobs["concept"]
    BY <1>0, <1>2, <1>a DEF PickDirection, ChangeTriggers
  <2> QED BY <1>2, <2>1 DEF PickDirection, panels, notices, session, CardKnown
<1>3. ASSUME NEW s \in Strengths, PickStrength(s) PROVE TypeOK'
  <2>1. jobs' \in [Triggers -> Job] /\ jobs'["concept"] = jobs["concept"]
    BY <1>0, <1>3, <1>a DEF PickStrength, ChangeTriggers
  <2> QED BY <1>3, <2>1 DEF PickStrength, panels, notices, session, CardKnown
<1>4. ASSUME NEW p \in Prompts \cup {EmptyBox}, Type(p) PROVE TypeOK'
  BY <1>4 DEF Type, radios, panels, notices, session, CardKnown
<1>5. ASSUME NEW t \in SendTriggers, PressSend(t) PROVE TypeOK'
  <2>1. jobs' \in [Triggers -> Job] /\ jobs'["concept"] = jobs["concept"]
    BY <1>0, <1>5, <1>a DEF PressSend
  <2> QED BY <1>5, <2>1 DEF PressSend, radios, panels, notices, session, CardKnown
<1>6. CASE PressCompare
  <2>1. jobs' \in [Triggers -> Job] /\ jobs'["concept"] = jobs["concept"]
    BY <1>0, <1>6, <1>a DEF PressCompare
  <2> QED BY <1>6, <2>1 DEF PressCompare, radios, panels, notices, session, CardKnown
<1>7. CASE SwitchLanguage
  <2> DEFINE js1 == Fired(jobs, "langDetail", SeenNow(None))
             js2 == Fired(js1, "langDirections", SeenNow(None))
  <2>1. js1 \in [Triggers -> Job] /\ js1["concept"] = jobs["concept"]
    BY <1>0, <1>a DEF LangTriggers
  <2>2. js2 \in [Triggers -> Job] /\ js2["concept"] = jobs["concept"]
    BY <1>0, <1>a, <2>1 DEF LangTriggers
  <2>3. jobs' \in [Triggers -> Job] /\ jobs'["concept"] = jobs["concept"]
    BY <1>0, <1>7, <1>a, <2>2 DEF SwitchLanguage, LangTriggers
  <2> QED BY <1>7, <2>3 DEF SwitchLanguage, radios, panels, notices, session, CardKnown
<1> QED
  BY <1>1, <1>2, <1>3, <1>4, <1>5, <1>6, <1>7 DEF UserActs

LEMMA TypeStart == TypeOK /\ (\E t \in Triggers : Start(t)) => TypeOK'
<1> SUFFICES ASSUME TypeOK, NEW t \in Triggers, Start(t) PROVE TypeOK'
  OBVIOUS
<1>1. ReadNow \in Read
  BY DEF TypeOK, ReadNow, Read
<1>2. jobs' \in [Triggers -> Job]
  BY <1>1 DEF TypeOK, Start, Job
<1>3. CardKnown'
  BY DEF TypeOK, Start, CardKnown, Idle, Triggers
<1> QED
  BY <1>2, <1>3 DEF TypeOK, Start, radios, panels, notices, session

\* _reuse_last_exchange returns a message, or nothing, and a well-typed history.
LEMMA ComparedType ==
  ASSUME NEW message \in Prompts \cup {EmptyBox}, NEW past \in Seq(Exchange)
  PROVE  /\ ComparedMessage(message, past) \in Prompts \cup {EmptyBox}
         /\ ComparedContext(message, past) \in Seq(Exchange)
<1>1. CASE message # EmptyBox \/ past = <<>>
  BY <1>1 DEF ComparedMessage, ComparedContext
<1>2. CASE message = EmptyBox /\ past # <<>>
  <2>1. Len(past) \in 1 .. Len(past)
    BY <1>2, EmptySeq, LenProperties
  <2>2. past[Len(past)] \in Exchange
    BY <2>1, ElementOfSeq
  <2>3. SubSeq(past, 1, Len(past) - 1) \in Seq(Exchange)
    BY <2>1, SubSeqProperties, LenProperties
  <2> QED
    BY <1>2, <2>2, <2>3 DEF ComparedMessage, ComparedContext, Exchange
<1> QED
  BY <1>1, <1>2

\* The handlers' returns.
LEMMA TypeFinish == TypeOK /\ Finish => TypeOK'
<1> SUFFICES ASSUME TypeOK, Finish PROVE TypeOK'
  OBVIOUS
<1> USE DEF TypeOK
<1>0. /\ SeenNow(None) \in Seen
      /\ SendTriggers \cup ChangeTriggers \cup LangTriggers \cup {"concept", "compare"} \subseteq Triggers
      /\ "concept" \notin SendTriggers \cup ChangeTriggers \cup LangTriggers \cup {"compare"}
  BY SeenType DEF Triggers, SendTriggers, ChangeTriggers, LangTriggers
<1>a. ASSUME NEW t \in Triggers, NEW seen \in Seen
      PROVE  /\ Returned(t, seen) \in [Triggers -> Job]
             /\ t # "concept" => Returned(t, seen)["concept"] = jobs["concept"]
             /\ t = "concept" /\ Running(t) => Returned(t, seen)["concept"] = Idle
  BY <1>0, ReturnedType, ReturnedElsewhere DEF Returned, CardKnown, Running, Idle
<1>b. ASSUME NEW t \in Triggers, NEW d \in Directions, Running(t)
      PROVE  /\ ReturnedAfterRadio(t, d) \in [Triggers -> Job]
             /\ ReturnedAfterRadio(t, d)["concept"] \in {jobs["concept"], Idle}
  <2>1. SeenWith(d, strength, None) \in Seen
    BY SeenType
  <2>2. Returned(t, SeenWith(d, strength, None))["concept"] \in {jobs["concept"], Idle}
    BY <1>a, <1>b, <2>1
  <2> DEFINE done == Returned(t, SeenWith(d, strength, None))
  <2>3. Fired(done, "direction", SeenWith(d, strength, None))["concept"] = done["concept"]
    <3>1. done \in [Triggers -> Job]
      BY <1>a, <2>1
    <3>2. "direction" \in Triggers /\ "concept" \in Triggers
      BY <1>0 DEF ChangeTriggers
    <3> HIDE DEF done
    <3> QED BY <2>1, <3>1, <3>2, FiredElsewhere
  <2> QED
    BY <2>2, <2>3, ReturnedAfterRadioType DEF ReturnedAfterRadio
<1>c. ASSUME NEW t \in Triggers, Running(t)
      PROVE  jobs[t].seen \in Seen /\ jobs[t].read \in Read
  BY <1>c, RunningType
<1>d. ASSUME jobs'["concept"] \in {jobs["concept"], Idle} PROVE CardKnown'
  BY <1>d DEF CardKnown
<1>1. CASE FinishConceptClick
  <2> DEFINE job == jobs["concept"]
  <2>1. job.seen \in Seen /\ job.read \in Read /\ job.seen.card \in Concepts
    BY <1>0, <1>1, <1>c DEF FinishConceptClick, CardKnown, Running, Idle
  <2>2. FirstDirection[job.seen.card] \in Directions
    BY <2>1, TabConstants
  <2>3. Selection(job.seen.card, FirstDirection[job.seen.card], job.seen.strength) \in Setting
    BY <2>1, <2>2, SelectionType DEF Seen
  <2>4. jobs' \in [Triggers -> Job] /\ CardKnown'
    BY <1>0, <1>1, <1>b, <1>d, <2>2 DEF FinishConceptClick
  <2>5. history' \in Seq(Exchange)
    BY <1>1, <2>1 DEF FinishConceptClick, HistoryAfter, Read
  <2> QED
    BY <1>1, <2>1, <2>2, <2>3, <2>4, <2>5 DEF FinishConceptClick
<1>2. ASSUME NEW t \in ChangeTriggers, FinishSettingChange(t) PROVE TypeOK'
  <2> DEFINE job == jobs[t]
  <2>1. job.seen \in Seen /\ job.read \in Read
    BY <1>0, <1>2, <1>c DEF FinishSettingChange
  <2>2. Selection(job.read.concept, job.seen.direction, job.seen.strength) \in Setting
    BY <2>1, SelectionType DEF Seen, Read
  <2>3. jobs' \in [Triggers -> Job] /\ CardKnown'
    BY <1>0, <1>2, <1>a, <1>d DEF FinishSettingChange
  <2>4. history' \in Seq(Exchange)
    BY <1>2, <2>1 DEF FinishSettingChange, HistoryAfter, Read
  <2> QED
    BY <1>2, <2>2, <2>3, <2>4 DEF FinishSettingChange, radios, panels
<1>3. ASSUME NEW t \in SendTriggers, RefuseSend(t) PROVE TypeOK'
  <2> DEFINE job == jobs[t]
  <2>1. job.seen \in Seen /\ job.read \in Read
    BY <1>0, <1>3, <1>c DEF RefuseSend
  <2>2. jobs' \in [Triggers -> Job] /\ CardKnown'
    BY <1>0, <1>3, <1>a, <1>d DEF RefuseSend
  <2>3. refusal' \in [concept : Concepts, direction : Directions] \cup {EmptyBox, None}
    BY <1>3, <2>1 DEF RefuseSend, Refusal, Seen, Read
  <2> QED
    BY <1>3, <2>1, <2>2, <2>3 DEF RefuseSend, radios, panels, Seen, Read
<1>4. ASSUME NEW t \in SendTriggers, FinishSend(t) PROVE TypeOK'
  <2> DEFINE job == jobs[t]
             asked == Selection(job.read.concept, job.seen.direction, job.seen.strength)
  <2>1. job.seen \in Seen /\ job.read \in Read
    BY <1>0, <1>4, <1>c DEF FinishSend
  <2>2. asked \in Setting
    BY <2>1, SelectionType DEF Seen, Read
  <2>3. jobs' \in [Triggers -> Job] /\ CardKnown'
    BY <1>0, <1>4, <1>a, <1>d DEF FinishSend
  <2>4. job.seen.box \in Prompts
    BY <1>4, <2>1 DEF FinishSend, CanAsk, Seen
  <2>5. history' \in Seq(Exchange)
    BY <1>4, <2>1, <2>2, <2>4, AppendProperties DEF FinishSend, Exchange, Read
  <2> QED
    BY <1>4, <2>2, <2>3, <2>5 DEF FinishSend, radios, panels
<1>5. CASE RefuseCompare
  <2> DEFINE job == jobs["compare"]
  <2>1. job.seen \in Seen /\ job.read \in Read
    BY <1>0, <1>5, <1>c DEF RefuseCompare
  <2>2. jobs' \in [Triggers -> Job] /\ CardKnown'
    BY <1>0, <1>5, <1>a, <1>d DEF RefuseCompare
  <2>3. refusal' \in [concept : Concepts, direction : Directions] \cup {EmptyBox, None}
    BY <1>5, <2>1 DEF RefuseCompare, Refusal, Seen, Read
  <2> QED
    BY <1>5, <2>2, <2>3 DEF RefuseCompare, radios, panels
<1>6. CASE FinishCompare
  <2> DEFINE job == jobs["compare"]
             asked == Selection(job.read.concept, job.seen.direction, job.seen.strength)
  <2>1. job.seen \in Seen /\ job.read \in Read
    BY <1>0, <1>6, <1>c DEF FinishCompare
  <2>2. asked \in Setting
    BY <2>1, SelectionType DEF Seen, Read
  <2>3. jobs' \in [Triggers -> Job] /\ CardKnown'
    BY <1>0, <1>6, <1>a, <1>d DEF FinishCompare
  <2>4. /\ ComparedMessage(job.seen.box, job.read.history) \in Prompts
        /\ ComparedContext(job.seen.box, job.read.history) \in Seq(Exchange)
    BY <1>6, <2>1, ComparedType DEF FinishCompare, CanAsk, Seen, Read
  <2>5. comparison' \in Comparison
    BY <1>6, <2>2, <2>4 DEF FinishCompare, Comparison
  <2> QED
    BY <1>6, <2>2, <2>3, <2>5 DEF FinishCompare, radios, panels
<1>7. ASSUME NEW t \in SendTriggers \cup {"compare"}, Fail(t) PROVE TypeOK'
  <2>1. jobs' \in [Triggers -> Job] /\ CardKnown'
    BY <1>0, <1>7, <1>a, <1>d DEF Fail
  <2> QED
    BY <1>7, <2>1 DEF Fail, radios, panels, notices, session
<1>8. CASE FinishLangDetail
  <2>1. jobs["langDetail"].read \in Read
    BY <1>0, <1>8, <1>c DEF FinishLangDetail, LangTriggers
  <2>2. jobs' \in [Triggers -> Job] /\ CardKnown'
    BY <1>0, <1>8, <1>a, <1>d DEF FinishLangDetail, LangTriggers
  <2> QED
    BY <1>8, <2>1, <2>2 DEF FinishLangDetail, radios, notices, session, Read
<1>9. CASE FinishLangDirections
  <2> DEFINE job == jobs["langDirections"]
  <2>1. job.seen \in Seen /\ job.read \in Read
    BY <1>0, <1>9, <1>c DEF FinishLangDirections, LangTriggers
  <2>2. direction' \in Directions /\ offered' \in Concepts
    BY <1>9, <2>1, TabConstants DEF FinishLangDirections, Seen, Read
  <2>3. jobs' \in [Triggers -> Job] /\ CardKnown'
    BY <1>0, <1>9, <1>b, <1>d, <2>2 DEF FinishLangDirections, LangTriggers
  <2> QED
    BY <1>9, <2>2, <2>3 DEF FinishLangDirections, notices, session
<1>10. CASE FinishLangSummary
  <2>1. jobs["langSummary"].read \in Read
    BY <1>0, <1>10, <1>c DEF FinishLangSummary, LangTriggers
  <2>2. jobs' \in [Triggers -> Job] /\ CardKnown'
    BY <1>0, <1>10, <1>a, <1>d DEF FinishLangSummary, LangTriggers
  <2> QED
    BY <1>10, <2>1, <2>2 DEF FinishLangSummary, radios, panels, notices, session, Read
<1> QED
  BY <1>1, <1>2, <1>3, <1>4, <1>5, <1>6, <1>7, <1>8, <1>9, <1>10 DEF Finish

\* The handlers of one tab only ever write values of the right kind, whatever
\* overlaps: the session state and the page keep their shape.
THEOREM TypeCorrect == Spec => []TypeOK
<1>1. TypeOK /\ UNCHANGED vars => TypeOK'
  BY DEF TypeOK, CardKnown, vars
<1>2. TypeOK /\ [Next]_vars => TypeOK'
  BY <1>1, TypeUser, TypeStart, TypeFinish DEF Next
<1> QED
  BY <1>2, TypeInit, PTL DEF Spec

-------------------------------------------------------------------------------
(* A patient user.  The argument: a user who acts only when nothing is     *)
(* pending leaves one gesture in flight at a time, so what its handler saw *)
(* and read is still so when the handler returns (JobsAreCurrent); then    *)
(* each return writes values that belong to the recorded selection.        *)

LEMMA QuietMeansIdle ==
  ASSUME TypeOK, Pending = {}
  PROVE  \A t \in Triggers : jobs[t] = Idle
  BY DEF TypeOK, Pending, Job, Idle

\* Firing an idle trigger queues its job and touches no other.
LEMMA FiredIdle ==
  ASSUME NEW js \in [Triggers -> Job], NEW t \in Triggers, js[t] = Idle, NEW seen
  PROVE  Fired(js, t, seen) = [js EXCEPT ![t] = Queued(seen)]
  BY DEF Fired, Idle

\* A job that nothing fired meanwhile leaves its trigger idle.
LEMMA ReturnedIdle ==
  ASSUME TypeOK, NEW t \in Triggers, ~jobs[t].again, NEW seen
  PROVE  Returned(t, seen) = [jobs EXCEPT ![t] = Idle]
  BY DEF Returned, TypeOK

\* Outside a language switch a running job is the only one pending.
LEMMA RunsAlone ==
  ASSUME TypeOK, OneGesture, NEW t \in Triggers \ LangTriggers, Running(t)
  PROVE  \A u \in Triggers \ {t} : jobs[u] = Idle
  BY DEF TypeOK, OneGesture, Running, Idle

LEMMA PatientInit == Init => PatientInv
<1> SUFFICES ASSUME Init PROVE PatientInv
  OBVIOUS
<1> USE DEF Init
<1>1. OneGesture
  BY DEF OneGesture
<1>2. JobsAreCurrent
  BY DEF JobsAreCurrent, Running, Idle
<1>3. RecordedIsShown
  BY TabConstants DEF RecordedIsShown, Shown, Selection
<1>4. ProducedUnderSelection /\ ReusedComparisonRepeatsAReply
  BY DEF ProducedUnderSelection, ReusedComparisonRepeatsAReply
<1> QED
  BY <1>1, <1>2, <1>3, <1>4 DEF PatientInv

\* One trigger fires on a quiet page: every gesture but typing and the language.
LEMMA OneTriggerFires ==
  ASSUME TypeOK, PatientInv, Pending = {}, NEW t \in Triggers,
         NEW card, jobs' = [jobs EXCEPT ![t] = Queued(SeenWith(direction', strength', card))],
         direction' \in Calibrated[concept],
         (direction' = direction /\ strength' = strength) \/ t \in ChangeTriggers,
         UNCHANGED <<session, panels, box, summary, comparison>>
  PROVE  PatientInv'
<1> USE QuietMeansIdle DEF PatientInv, TypeOK
<1>1. OneGesture'
  BY DEF OneGesture
<1>2. JobsAreCurrent'
  <2>1. jobs'[t] = [phase |-> "queued", again |-> FALSE,
                    seen |-> [direction |-> direction', strength |-> strength',
                              box |-> box', card |-> card]]
    BY DEF Queued, SeenWith
  <2>2. (jobs[t].seen = SeenNow(jobs[t].seen.card) /\ ~jobs[t].again)'
    BY <2>1 DEF SeenNow, SeenWith
  <2>3. jobs'[t].phase # "running"
    BY <2>1
  <2>4. \A u \in Triggers \ {t} : jobs'[u] = Idle
    OBVIOUS
  <2> QED BY <2>2, <2>3, <2>4 DEF JobsAreCurrent, Running, Idle
<1>3. RecordedIsShown'
  <2>1. (\A u \in ChangeTriggers : jobs'[u] = Idle) => t \notin ChangeTriggers
    BY DEF Queued, Idle
  <2>2. \A u \in ChangeTriggers : jobs[u] = Idle
    BY DEF Triggers
  <2> QED BY <2>1, <2>2 DEF RecordedIsShown, Shown, Selection, session, panels
<1>4. ProducedUnderSelection' /\ ReusedComparisonRepeatsAReply'
  BY DEF ProducedUnderSelection, ReusedComparisonRepeatsAReply, session
<1> QED
  BY <1>1, <1>2, <1>3, <1>4

LEMMA PatientUser ==
  ASSUME Patient, TypeOK, PatientInv, UserActs
  PROVE  PatientInv'
<1>0. /\ SendTriggers \cup ChangeTriggers \cup LangTriggers \cup {"compare", "concept"} \subseteq Triggers
      /\ jobs \in [Triggers -> Job]
      /\ offered = concept /\ direction \in Calibrated[concept]
  BY DEF Triggers, TypeOK, PatientInv, RecordedIsShown
<1>a. ASSUME NEW t \in Triggers, NEW seen, Pending = {}
      PROVE  Fired(jobs, t, seen) = [jobs EXCEPT ![t] = Queued(seen)]
  BY <1>0, <1>a, QuietMeansIdle, FiredIdle
<1>1. ASSUME NEW c \in Concepts, ClickConcept(c) PROVE PatientInv'
  <2>1. Pending = {} /\ UNCHANGED <<session, panels, box, summary, comparison, direction, strength>>
    BY <1>1 DEF ClickConcept, MayAct, radios
  <2>2. jobs' = [jobs EXCEPT !["concept"] = Queued(SeenWith(direction', strength', c))]
    BY <1>0, <1>1, <1>a, <2>1 DEF ClickConcept, SeenNow
  <2> QED BY <1>0, <2>1, <2>2, OneTriggerFires
<1>2. ASSUME NEW d \in Directions, PickDirection(d) PROVE PatientInv'
  <2>1. /\ Pending = {} /\ UNCHANGED <<session, panels, box, summary, comparison, strength>>
        /\ direction' \in Calibrated[concept]
    BY <1>0, <1>2 DEF PickDirection, MayAct
  <2>2. jobs' = [jobs EXCEPT !["direction"] = Queued(SeenWith(direction', strength', None))]
    BY <1>0, <1>2, <1>a, <2>1 DEF PickDirection, ChangeTriggers
  <2>3. "direction" \in ChangeTriggers
    BY DEF ChangeTriggers
  <2> QED BY <1>0, <2>1, <2>2, <2>3, OneTriggerFires
<1>3. ASSUME NEW s \in Strengths, PickStrength(s) PROVE PatientInv'
  <2>1. Pending = {} /\ UNCHANGED <<session, panels, box, summary, comparison, direction>>
    BY <1>3 DEF PickStrength, MayAct
  <2>2. jobs' = [jobs EXCEPT !["strength"] = Queued(SeenWith(direction', strength', None))]
    BY <1>0, <1>3, <1>a, <2>1 DEF PickStrength, ChangeTriggers
  <2>3. "strength" \in ChangeTriggers
    BY DEF ChangeTriggers
  <2> QED BY <1>0, <2>1, <2>2, <2>3, OneTriggerFires
<1>4. ASSUME NEW p \in Prompts \cup {EmptyBox}, Type(p) PROVE PatientInv'
  <2>1. Pending = {} /\ UNCHANGED <<session, panels, radios, summary, comparison, jobs>>
    BY <1>4 DEF Type, MayAct
  <2>2. \A t \in Triggers : jobs[t] = Idle
    BY <2>1, QuietMeansIdle
  <2>3. OneGesture' /\ JobsAreCurrent'
    BY <2>1, <2>2 DEF OneGesture, JobsAreCurrent, Running, Idle
  <2>4. RecordedIsShown'
    BY <2>1 DEF PatientInv, RecordedIsShown, Shown, Selection, session, panels, radios
  <2>5. ProducedUnderSelection' /\ ReusedComparisonRepeatsAReply'
    BY <2>1 DEF PatientInv, ProducedUnderSelection, ReusedComparisonRepeatsAReply, session
  <2> QED BY <2>3, <2>4, <2>5 DEF PatientInv
<1>5. ASSUME NEW t \in SendTriggers, PressSend(t) PROVE PatientInv'
  <2>1. Pending = {} /\ UNCHANGED <<session, panels, box, summary, comparison, direction, strength>>
    BY <1>5 DEF PressSend, MayAct, radios
  <2>2. t \in Triggers /\ jobs' = [jobs EXCEPT ![t] = Queued(SeenWith(direction', strength', None))]
    BY <1>0, <1>5, <1>a, <2>1 DEF PressSend, SeenNow
  <2> QED BY <1>0, <2>1, <2>2, OneTriggerFires
<1>6. CASE PressCompare
  <2>1. Pending = {} /\ UNCHANGED <<session, panels, box, summary, comparison, direction, strength>>
    BY <1>6 DEF PressCompare, MayAct, radios
  <2>2. jobs' = [jobs EXCEPT !["compare"] = Queued(SeenWith(direction', strength', None))]
    BY <1>0, <1>6, <1>a, <2>1 DEF PressCompare, SeenNow
  <2> QED BY <1>0, <2>1, <2>2, OneTriggerFires
<1>7. CASE SwitchLanguage
  <2>1. Pending = {} /\ UNCHANGED <<session, panels, box, summary, comparison, direction, strength>>
    BY <1>7 DEF SwitchLanguage, MayAct, radios
  <2>2. \A t \in Triggers : jobs[t] = Idle
    BY <2>1, QuietMeansIdle
  <2>3. \A t \in Triggers : jobs'[t] = IF t \in LangTriggers THEN Queued(SeenNow(None)) ELSE Idle
    BY <1>0, <1>7, <2>2 DEF SwitchLanguage, Fired, LangTriggers, Idle
  <2>4. OneGesture'
    BY <2>3 DEF OneGesture
  <2>5. JobsAreCurrent'
    <3>1. SeenNow(None)' = SeenNow(None) /\ Queued(SeenNow(None)).seen.card = None
      BY <2>1 DEF SeenNow, SeenWith, Queued
    <3> QED BY <2>3, <3>1 DEF JobsAreCurrent, Running, Idle, Queued
  <2>6. RecordedIsShown'
    <3>1. \A u \in ChangeTriggers : jobs[u] = Idle
      BY <1>0, <2>2
    <3> QED BY <2>1, <3>1 DEF PatientInv, RecordedIsShown, Shown, Selection, session, panels
  <2>7. ProducedUnderSelection' /\ ReusedComparisonRepeatsAReply'
    BY <2>1 DEF PatientInv, ProducedUnderSelection, ReusedComparisonRepeatsAReply, session
  <2> QED BY <2>4, <2>5, <2>6, <2>7 DEF PatientInv
<1> QED
  BY <1>1, <1>2, <1>3, <1>4, <1>5, <1>6, <1>7 DEF UserActs

LEMMA PatientStart ==
  ASSUME TypeOK, PatientInv, NEW t \in Triggers, Start(t)
  PROVE  PatientInv'
<1>1. /\ UNCHANGED <<session, panels, box, summary, comparison, direction, strength>>
      /\ jobs' = [jobs EXCEPT ![t] = [phase |-> "running", seen |-> jobs[t].seen,
                                      again |-> jobs[t].again, read |-> ReadNow]]
      /\ jobs \in [Triggers -> Job] /\ jobs[t] # Idle
  BY DEF Start, TypeOK, Idle, radios
<1>2. OneGesture'
  BY <1>1 DEF PatientInv, OneGesture
<1>3. JobsAreCurrent'
  <2>1. \A card : SeenNow(card)' = SeenNow(card)
    BY <1>1 DEF SeenNow, SeenWith
  <2>2. ReadNow' = ReadNow
    BY <1>1 DEF ReadNow, session
  <2> QED BY <1>1, <2>1, <2>2 DEF PatientInv, JobsAreCurrent, Running
<1>4. RecordedIsShown'
  <2>1. (\A u \in ChangeTriggers : jobs'[u] = Idle) => \A u \in ChangeTriggers : jobs[u] = Idle
    BY <1>1 DEF Idle, Triggers
  <2> QED BY <1>1, <2>1 DEF PatientInv, RecordedIsShown, Shown, Selection, session, panels
<1>5. ProducedUnderSelection' /\ ReusedComparisonRepeatsAReply'
  BY <1>1 DEF PatientInv, ProducedUnderSelection, ReusedComparisonRepeatsAReply, session
<1> QED
  BY <1>2, <1>3, <1>4, <1>5 DEF PatientInv

\* What a finishing handler may rely on: its view is current, and unless a radio
\* moved, the setting it acts under is the recorded one.
LEMMA RunningIsCurrent ==
  ASSUME TypeOK, PatientInv, NEW t \in Triggers, Running(t)
  PROVE  /\ jobs[t].seen.direction = direction /\ jobs[t].seen.strength = strength
         /\ jobs[t].seen.box = box
         /\ jobs[t].read = ReadNow
         /\ ~jobs[t].again
         /\ jobs[t] # Idle
         /\ t \notin LangTriggers => \A u \in Triggers \ {t} : jobs[u] = Idle
         /\ t \notin ChangeTriggers => selection = Shown
<1>1. jobs[t] # Idle
  BY DEF Running, Idle
<1>2. /\ jobs[t].seen = SeenNow(jobs[t].seen.card) /\ ~jobs[t].again
      /\ jobs[t].read = ReadNow
  BY <1>1 DEF PatientInv, JobsAreCurrent
<1>3. t \notin LangTriggers => \A u \in Triggers \ {t} : jobs[u] = Idle
  BY RunsAlone DEF PatientInv
<1>4. t \notin ChangeTriggers => selection = Shown
  <2>1. t \notin ChangeTriggers => \A u \in ChangeTriggers : jobs[u] = Idle
    BY <1>1 DEF PatientInv, OneGesture, Triggers, LangTriggers, ChangeTriggers
  <2> QED BY <2>1 DEF PatientInv, RecordedIsShown
<1> QED
  BY <1>1, <1>2, <1>3, <1>4 DEF SeenNow, SeenWith

\* With every job idle nothing is left to be stale.
LEMMA AllIdle ==
  ASSUME \A u \in Triggers : jobs'[u] = Idle
  PROVE  OneGesture' /\ JobsAreCurrent' /\ (\A u \in ChangeTriggers : jobs'[u] = Idle)
  BY DEF OneGesture, JobsAreCurrent, Running, Idle, Triggers

\* A handler other than a language refresher leaves the page quiet.
LEMMA ReturnsToQuiet ==
  ASSUME TypeOK, PatientInv, NEW t \in Triggers \ LangTriggers, Running(t),
         NEW seen, jobs' = Returned(t, seen)
  PROVE  \A u \in Triggers : jobs'[u] = Idle
<1>1. jobs' = [jobs EXCEPT ![t] = Idle]
  BY RunningIsCurrent, ReturnedIdle
<1> QED
  BY <1>1, RunningIsCurrent DEF TypeOK

\* Two settings with the same parts are the same.
LEMMA SelectionParts ==
  ASSUME NEW s \in Setting
  PROVE  s = Selection(s.concept, s.direction, s.strength)
  BY DEF Setting, Selection

\* The three setting changes: the new selection is what the controls show, and
\* HistoryAfter keeps the conversation only when the selection did not change.
LEMMA SettingChangeKeeps ==
  ASSUME TypeOK, PatientInv, NEW new \in Setting,
         selection' = new, history' = HistoryAfter(selection, new, history),
         comparison' = None, UNCHANGED <<summary, config>>
  PROVE  ProducedUnderSelection' /\ ReusedComparisonRepeatsAReply'
<1>1. CASE selection = new
  BY <1>1 DEF PatientInv, ProducedUnderSelection, ReusedComparisonRepeatsAReply, HistoryAfter
<1>2. CASE selection # new
  BY <1>2 DEF ProducedUnderSelection, ReusedComparisonRepeatsAReply, HistoryAfter
<1> QED
  BY <1>1, <1>2

LEMMA PatientConceptClick ==
  ASSUME TypeOK, PatientInv, FinishConceptClick
  PROVE  PatientInv'
<1> DEFINE job == jobs["concept"]
           c   == job.seen.card
           d   == FirstDirection[c]
           new == Selection(c, d, job.seen.strength)
<1>0. "concept" \in Triggers \ LangTriggers /\ "direction" \in Triggers \ LangTriggers
      /\ "direction" # "concept" /\ "direction" \in ChangeTriggers
  BY DEF Triggers, LangTriggers, ChangeTriggers
<1>1. /\ Running("concept") /\ job.read = ReadNow /\ job.seen.strength = strength
      /\ jobs["direction"] = Idle /\ ~job.again
      /\ \A u \in Triggers \ {"concept"} : jobs[u] = Idle
  BY <1>0, RunningIsCurrent DEF FinishConceptClick
<1>2. c \in Concepts /\ d \in Calibrated[c] /\ d \in Directions /\ new \in Setting
  BY <1>1, TabConstants, SelectionType DEF TypeOK, CardKnown, Running, Idle
<1>3. /\ concept' = c /\ offered' = c /\ detail' = c /\ direction' = d /\ strength' = strength
      /\ selection' = new /\ history' = HistoryAfter(selection, new, history)
      /\ comparison' = None /\ UNCHANGED <<summary, config, box>>
      /\ jobs' = ReturnedAfterRadio("concept", d)
  BY <1>1 DEF FinishConceptClick, ReadNow
<1>4. ProducedUnderSelection' /\ ReusedComparisonRepeatsAReply'
  BY <1>2, <1>3, SettingChangeKeeps
<1>5. RecordedIsShown'
  BY <1>1, <1>2, <1>3 DEF RecordedIsShown, Shown, Selection
<1>6. OneGesture' /\ JobsAreCurrent'
  <2> DEFINE done == Returned("concept", SeenWith(d, strength, None))
  <2>1. done = [jobs EXCEPT !["concept"] = Idle]
    BY <1>0, <1>1, ReturnedIdle
  <2>2. \A u \in Triggers : done[u] = Idle
    BY <1>0, <1>1, <2>1 DEF TypeOK
  <2>3. CASE d = direction
    <3>1. jobs' = done
      BY <1>3, <2>3 DEF ReturnedAfterRadio
    <3> QED BY <2>2, <3>1, AllIdle
  <2>4. CASE d # direction
    <3>1. done \in [Triggers -> Job]
      BY <1>0, <1>2, SeenType, ReturnedType DEF TypeOK
    <3>2. jobs' = Fired(done, "direction", SeenWith(d, strength, None))
      BY <1>3, <2>4 DEF ReturnedAfterRadio
    <3> HIDE DEF done
    <3>3. jobs' = [done EXCEPT !["direction"] = Queued(SeenWith(d, strength, None))]
      BY <1>0, <2>2, <3>1, <3>2, FiredIdle
    <3>4. /\ jobs'["direction"] = [phase |-> "queued", again |-> FALSE,
                                   seen |-> [direction |-> direction', strength |-> strength',
                                             box |-> box', card |-> None]]
          /\ \A u \in Triggers \ {"direction"} : jobs'[u] = Idle
      BY <1>0, <1>3, <2>2, <3>1, <3>3 DEF Queued, SeenWith
    <3>5. OneGesture'
      BY <3>4 DEF OneGesture
    <3>6. (jobs["direction"].seen = SeenNow(jobs["direction"].seen.card)
             /\ ~jobs["direction"].again)'
      BY <3>4 DEF SeenNow, SeenWith
    <3>7. jobs'["direction"].phase # "running"
      BY <3>4
    <3> QED BY <3>4, <3>5, <3>6, <3>7 DEF JobsAreCurrent, Running, Idle
  <2> QED BY <2>3, <2>4
<1> QED
  BY <1>4, <1>5, <1>6 DEF PatientInv

LEMMA PatientSettingChange ==
  ASSUME TypeOK, PatientInv, NEW t \in ChangeTriggers, FinishSettingChange(t)
  PROVE  PatientInv'
<1>0. t \in Triggers \ LangTriggers
  BY DEF Triggers, LangTriggers, ChangeTriggers
<1>1. /\ jobs[t].read = ReadNow /\ jobs[t].seen.strength = strength
      /\ jobs[t].seen.direction = direction
  BY <1>0, RunningIsCurrent DEF FinishSettingChange
<1>2. Shown \in Setting
  BY SelectionType DEF Shown, TypeOK
<1>3. /\ selection' = Shown /\ history' = HistoryAfter(selection, Shown, history)
      /\ comparison' = None /\ UNCHANGED <<summary, config>>
      /\ UNCHANGED <<concept, direction, strength, offered, detail>>
  BY <1>1 DEF FinishSettingChange, ReadNow, Shown, radios, panels
<1>4. ProducedUnderSelection' /\ ReusedComparisonRepeatsAReply'
  BY <1>2, <1>3, SettingChangeKeeps
<1>5. RecordedIsShown'
  BY <1>3 DEF PatientInv, RecordedIsShown, Shown, Selection
<1>6. OneGesture' /\ JobsAreCurrent'
  BY <1>0, ReturnsToQuiet, AllIdle DEF FinishSettingChange
<1> QED
  BY <1>4, <1>5, <1>6 DEF PatientInv

\* _on_send and _on_compare answer under the recorded selection.
LEMMA AskedIsRecorded ==
  ASSUME TypeOK, PatientInv, NEW t \in Triggers \ (LangTriggers \cup ChangeTriggers), Running(t)
  PROVE  /\ Selection(jobs[t].read.concept, jobs[t].seen.direction, jobs[t].seen.strength)
              = selection
         /\ jobs[t].read.history = history /\ jobs[t].seen.box = box
  BY RunningIsCurrent DEF Shown, Selection, ReadNow

\* A handler that leaves the setting alone keeps the controls and the record together.
LEMMA SettingKept ==
  ASSUME TypeOK, PatientInv, NEW t \in Triggers \ (LangTriggers \cup ChangeTriggers), Running(t),
         NEW seen, jobs' = Returned(t, seen),
         UNCHANGED <<concept, selection, direction, strength, offered, detail>>
  PROVE  OneGesture' /\ JobsAreCurrent' /\ RecordedIsShown'
<1>1. OneGesture' /\ JobsAreCurrent'
  BY ReturnsToQuiet, AllIdle
<1>2. selection = Shown
  BY RunningIsCurrent
<1> QED
  BY <1>1, <1>2 DEF PatientInv, RecordedIsShown, Shown, Selection

LEMMA PatientSend ==
  ASSUME TypeOK, PatientInv, NEW t \in SendTriggers,
         RefuseSend(t) \/ FinishSend(t)
  PROVE  PatientInv'
<1>0. t \in Triggers \ (LangTriggers \cup ChangeTriggers)
  BY DEF Triggers, LangTriggers, ChangeTriggers, SendTriggers
<1> DEFINE asked == Selection(jobs[t].read.concept, jobs[t].seen.direction, jobs[t].seen.strength)
<1>1. asked = selection /\ jobs[t].read.history = history
  BY <1>0, AskedIsRecorded DEF RefuseSend, FinishSend
<1>2. OneGesture' /\ JobsAreCurrent' /\ RecordedIsShown'
  BY <1>0, SettingKept DEF RefuseSend, FinishSend, radios, panels
<1>3. CASE RefuseSend(t)
  <2>1. UNCHANGED <<history, selection, comparison>> /\ summary' = None /\ config' = None
    BY <1>1, <1>3 DEF RefuseSend
  <2>2. ProducedUnderSelection' /\ ReusedComparisonRepeatsAReply'
    BY <2>1 DEF PatientInv, ProducedUnderSelection, ReusedComparisonRepeatsAReply
  <2> QED BY <1>2, <2>2 DEF PatientInv
<1>4. CASE FinishSend(t)
  <2> DEFINE e == [prompt |-> jobs[t].seen.box, setting |-> selection]
  <2>1. /\ history' = Append(history, e) /\ UNCHANGED <<selection, comparison>>
        /\ summary' = selection /\ config' = selection
    BY <1>1, <1>4 DEF FinishSend
  <2>2. e \in Exchange
    BY <1>0, <1>4, RunningType DEF FinishSend, CanAsk, Seen, Exchange, TypeOK
  <2>3. history \in Seq(Exchange) /\ e.setting = selection
    BY DEF TypeOK
  <2> HIDE DEF e
  <2>4. /\ Len(history') = Len(history) + 1 /\ DOMAIN history' = 1 .. Len(history) + 1
        /\ DOMAIN history = 1 .. Len(history) /\ Len(history) \in Nat
        /\ history'[Len(history) + 1] = e
        /\ \A i \in 1 .. Len(history) : history'[i] = history[i]
    BY <2>1, <2>2, <2>3, AppendProperties, LenProperties
  <2>5. ProducedUnderSelection'
    BY <2>1, <2>3, <2>4 DEF PatientInv, ProducedUnderSelection
  <2>6. ReusedComparisonRepeatsAReply'
    <3> SUFFICES ASSUME comparison # None, comparison.reused
                 PROVE \E i \in DOMAIN history' :
                         /\ history'[i] = [prompt |-> comparison.prompt,
                                           setting |-> comparison.setting]
                         /\ comparison.context = SubSeq(history', 1, i - 1)
      BY <2>1 DEF ReusedComparisonRepeatsAReply
    <3>1. PICK i \in DOMAIN history :
            /\ history[i] = [prompt |-> comparison.prompt, setting |-> comparison.setting]
            /\ comparison.context = SubSeq(history, 1, i - 1)
      BY DEF PatientInv, ReusedComparisonRepeatsAReply
    <3>2. SubSeq(history', 1, i - 1) = SubSeq(history, 1, i - 1)
      BY <2>1, <2>3, <2>4
    <3> QED BY <2>4, <3>1, <3>2
  <2> QED BY <1>2, <2>5, <2>6 DEF PatientInv
<1> QED
  BY <1>3, <1>4

LEMMA PatientCompare ==
  ASSUME TypeOK, PatientInv, RefuseCompare \/ FinishCompare
  PROVE  PatientInv'
<1>0. "compare" \in Triggers \ (LangTriggers \cup ChangeTriggers)
  BY DEF Triggers, LangTriggers, ChangeTriggers
<1> DEFINE job == jobs["compare"]
           asked == Selection(job.read.concept, job.seen.direction, job.seen.strength)
<1>1. asked = selection /\ job.read.history = history /\ job.seen.box = box
  BY <1>0, AskedIsRecorded DEF RefuseCompare, FinishCompare
<1>2. OneGesture' /\ JobsAreCurrent' /\ RecordedIsShown'
  BY <1>0, SettingKept DEF RefuseCompare, FinishCompare, radios, panels
<1>3. CASE RefuseCompare
  <2>1. UNCHANGED <<history, selection, summary>> /\ comparison' = None /\ config' = None
    BY <1>3 DEF RefuseCompare
  <2>2. ProducedUnderSelection' /\ ReusedComparisonRepeatsAReply'
    BY <2>1 DEF PatientInv, ProducedUnderSelection, ReusedComparisonRepeatsAReply
  <2> QED BY <1>2, <2>2 DEF PatientInv
<1>4. CASE FinishCompare
  <2>1. /\ comparison' = [prompt  |-> ComparedMessage(box, history),
                          context |-> ComparedContext(box, history),
                          setting |-> selection, reused |-> (box = EmptyBox)]
        /\ config' = selection /\ UNCHANGED <<history, selection, summary>>
        /\ ComparedMessage(box, history) # EmptyBox
    BY <1>1, <1>4 DEF FinishCompare, CanAsk
  <2>2. ProducedUnderSelection'
    BY <2>1 DEF PatientInv, ProducedUnderSelection
  <2>3. ASSUME box = EmptyBox
        PROVE  \E i \in DOMAIN history :
                 /\ history[i] = [prompt |-> ComparedMessage(box, history), setting |-> selection]
                 /\ ComparedContext(box, history) = SubSeq(history, 1, i - 1)
    <3>1. history # <<>> /\ ComparedMessage(box, history) = history[Len(history)].prompt
      BY <2>1, <2>3 DEF ComparedMessage
    <3>2. Len(history) \in DOMAIN history /\ history[Len(history)] \in Exchange
      BY <3>1, EmptySeq, LenProperties, ElementOfSeq DEF TypeOK
    <3>3. history[Len(history)].setting = selection
      BY <3>2 DEF PatientInv, ProducedUnderSelection
    <3>4. history[Len(history)] = [prompt |-> ComparedMessage(box, history), setting |-> selection]
      BY <3>1, <3>2, <3>3 DEF Exchange
    <3>5. ComparedContext(box, history) = SubSeq(history, 1, Len(history) - 1)
      BY <2>3, <3>1 DEF ComparedContext
    <3> QED BY <3>2, <3>4, <3>5
  <2>4. ReusedComparisonRepeatsAReply'
    BY <2>1, <2>3 DEF ReusedComparisonRepeatsAReply
  <2> QED BY <1>2, <2>2, <2>4 DEF PatientInv
<1> QED
  BY <1>3, <1>4

LEMMA PatientFail ==
  ASSUME TypeOK, PatientInv, NEW t \in SendTriggers \cup {"compare"}, Fail(t)
  PROVE  PatientInv'
<1>1. t \in Triggers \ (LangTriggers \cup ChangeTriggers)
  BY DEF Triggers, LangTriggers, ChangeTriggers, SendTriggers
<1>2. OneGesture' /\ JobsAreCurrent' /\ RecordedIsShown'
  BY <1>1, SettingKept DEF Fail, radios, panels, session
<1>3. ProducedUnderSelection' /\ ReusedComparisonRepeatsAReply'
  BY DEF Fail, session, PatientInv, ProducedUnderSelection, ReusedComparisonRepeatsAReply
<1> QED
  BY <1>2, <1>3 DEF PatientInv

\* The language refreshers rewrite what is already shown, so the ones still
\* pending stay current.
LEMMA RefresherReturns ==
  ASSUME TypeOK, PatientInv, NEW t \in LangTriggers, Running(t),
         NEW seen, jobs' = Returned(t, seen),
         UNCHANGED <<direction, strength, box, session, panels>>
  PROVE  OneGesture' /\ JobsAreCurrent' /\ RecordedIsShown'
<1>0. t \in Triggers /\ t \notin ChangeTriggers
  BY DEF Triggers, LangTriggers, ChangeTriggers
<1>1. jobs' = [jobs EXCEPT ![t] = Idle] /\ jobs \in [Triggers -> Job]
  BY <1>0, RunningIsCurrent, ReturnedIdle DEF TypeOK
<1>2. OneGesture'
  BY <1>1 DEF PatientInv, OneGesture
<1>3. JobsAreCurrent'
  <2>1. (\A card : SeenNow(card)' = SeenNow(card)) /\ ReadNow' = ReadNow
    BY DEF SeenNow, SeenWith, ReadNow, session
  <2> QED BY <1>1, <2>1 DEF PatientInv, JobsAreCurrent, Running, Idle
<1>4. RecordedIsShown'
  <2>1. selection = Shown
    BY <1>0, RunningIsCurrent
  <2> QED BY <2>1 DEF PatientInv, RecordedIsShown, Shown, Selection, session, panels
<1> QED
  BY <1>2, <1>3, <1>4

LEMMA PatientLanguage ==
  ASSUME TypeOK, PatientInv, FinishLangDetail \/ FinishLangDirections \/ FinishLangSummary
  PROVE  PatientInv'
<1>0. LangTriggers \subseteq Triggers /\ LangTriggers \cap ChangeTriggers = {}
  BY DEF Triggers, LangTriggers, ChangeTriggers
<1>1. CASE FinishLangDetail
  <2>1. Running("langDetail") /\ "langDetail" \in LangTriggers
    BY <1>1 DEF FinishLangDetail, LangTriggers
  <2>2. detail' = detail
    BY <1>0, <1>1, <2>1, RunningIsCurrent DEF FinishLangDetail, ReadNow, PatientInv, RecordedIsShown
  <2>3. OneGesture' /\ JobsAreCurrent' /\ RecordedIsShown'
    BY <1>1, <2>1, <2>2, RefresherReturns DEF FinishLangDetail, radios, panels
  <2>4. ProducedUnderSelection' /\ ReusedComparisonRepeatsAReply'
    BY <1>1 DEF FinishLangDetail, session, PatientInv, ProducedUnderSelection,
                ReusedComparisonRepeatsAReply
  <2> QED BY <2>3, <2>4 DEF PatientInv
<1>2. CASE FinishLangDirections
  <2>1. Running("langDirections") /\ "langDirections" \in LangTriggers
    BY <1>2 DEF FinishLangDirections, LangTriggers
  <2>2. offered' = offered /\ direction' = direction
    BY <1>0, <1>2, <2>1, RunningIsCurrent
       DEF FinishLangDirections, ReadNow, PatientInv, RecordedIsShown
  <2>3. jobs' = Returned("langDirections", SeenWith(direction, strength, None))
    BY <1>2, <2>2 DEF FinishLangDirections, ReturnedAfterRadio
  <2>4. OneGesture' /\ JobsAreCurrent' /\ RecordedIsShown'
    BY <1>2, <2>1, <2>2, <2>3, RefresherReturns DEF FinishLangDirections, panels
  <2>5. ProducedUnderSelection' /\ ReusedComparisonRepeatsAReply'
    BY <1>2 DEF FinishLangDirections, session, PatientInv, ProducedUnderSelection,
                ReusedComparisonRepeatsAReply
  <2> QED BY <2>4, <2>5 DEF PatientInv
<1>3. CASE FinishLangSummary
  <2>1. Running("langSummary") /\ "langSummary" \in LangTriggers
    BY <1>3 DEF FinishLangSummary, LangTriggers
  <2>2. summary' = config /\ UNCHANGED <<session, comparison>>
    BY <1>0, <1>3, <2>1, RunningIsCurrent DEF FinishLangSummary, ReadNow
  <2>3. OneGesture' /\ JobsAreCurrent' /\ RecordedIsShown'
    BY <1>3, <2>1, RefresherReturns DEF FinishLangSummary, radios
  <2>4. ProducedUnderSelection' /\ ReusedComparisonRepeatsAReply'
    BY <2>2 DEF session, PatientInv, ProducedUnderSelection, ReusedComparisonRepeatsAReply
  <2> QED BY <2>3, <2>4 DEF PatientInv
<1> QED
  BY <1>1, <1>2, <1>3

\* The inductive invariant holds whenever the user lets the page settle.
THEOREM PatientInvariant ==
  ASSUME Patient PROVE Spec => []PatientInv
<1>1. TypeOK /\ PatientInv /\ Next => PatientInv'
  <2> SUFFICES ASSUME TypeOK, PatientInv, Next PROVE PatientInv'
    OBVIOUS
  <2>1. CASE Finish
    BY <2>1, PatientConceptClick, PatientSettingChange, PatientSend, PatientCompare,
       PatientFail, PatientLanguage DEF Finish
  <2> QED
    BY <2>1, PatientUser, PatientStart DEF Next
<1>2. PatientInv /\ UNCHANGED vars => PatientInv'
  BY DEF PatientInv, OneGesture, JobsAreCurrent, RecordedIsShown, ProducedUnderSelection,
         ReusedComparisonRepeatsAReply, vars, Shown, Selection, Running, SeenNow, SeenWith, ReadNow
<1> QED
  BY <1>1, <1>2, PatientInit, TypeCorrect, PTL DEF Spec

\* README: a reply produced under a different setting is never left on screen
\* next to a changed control -- proved for a user who lets the page settle.
THEOREM PatientNoStaleReply ==
  ASSUME Patient PROVE Spec => []NoStaleReply
<1>1. TypeOK /\ PatientInv => NoStaleReply
  <2> SUFFICES ASSUME TypeOK, PatientInv, Pending = {} PROVE NoStaleReply
    BY DEF NoStaleReply, Quiet
  <2>1. \A u \in ChangeTriggers : jobs[u] = Idle
    BY QuietMeansIdle DEF Triggers
  <2> QED BY <2>1 DEF PatientInv, RecordedIsShown, ProducedUnderSelection, NoStaleReply
<1> QED
  BY <1>1, PatientInvariant, TypeCorrect, PTL

\* _cleared_compare_panes: what the panes show was produced under the setting the
\* controls show.
THEOREM PatientNoStaleComparison ==
  ASSUME Patient PROVE Spec => []NoStaleComparison
<1>1. TypeOK /\ PatientInv => NoStaleComparison
  <2> SUFFICES ASSUME TypeOK, PatientInv, Pending = {} PROVE NoStaleComparison
    BY DEF NoStaleComparison, Quiet
  <2>1. \A u \in ChangeTriggers : jobs[u] = Idle
    BY QuietMeansIdle DEF Triggers
  <2> QED BY <2>1 DEF PatientInv, RecordedIsShown, ProducedUnderSelection, NoStaleComparison
<1> QED
  BY <1>1, PatientInvariant, TypeCorrect, PTL

\* _refresh_direction_controls_on_lang_change, _refresh_concept_detail_on_lang_change:
\* the radio offers the directions of the selected concept and the panels describe it.
THEOREM PatientPanelsFollow ==
  ASSUME Patient PROVE Spec => []PanelsFollowConcept
<1>1. PatientInv => PanelsFollowConcept
  BY DEF PatientInv, RecordedIsShown, PanelsFollowConcept
<1> QED
  BY <1>1, PatientInvariant, PTL

-------------------------------------------------------------------------------
(* A patient user's tab implements ChatSession, step by step. *)

\* A change of setting is Choose, or only the panes are emptied.
LEMMA SettingChangeImplements ==
  ASSUME NEW new \in Setting, selection' = new, comparison' = None,
         history' = HistoryAfter(selection, new, history)
  PROVE  Chat!Next
<1>1. CASE selection = new
  BY <1>1 DEF HistoryAfter, Chat!Next, Chat!ClearComparison
<1>2. CASE selection # new
  <2>1. Chat!Choose(new)
    BY <1>2 DEF HistoryAfter, Chat!Choose
  <2> QED BY <2>1 DEF Chat!Next
<1> QED
  BY <1>1, <1>2

\* A send is Ask when it answers, and a stutter when it refuses.
LEMMA SendImplements ==
  ASSUME TypeOK, PatientInv, NEW t \in SendTriggers, RefuseSend(t) \/ FinishSend(t)
  PROVE  [Chat!Next]_Chat!vars
<1>0. t \in Triggers \ (LangTriggers \cup ChangeTriggers)
  BY DEF Triggers, LangTriggers, ChangeTriggers, SendTriggers
<1>1. /\ Selection(jobs[t].read.concept, jobs[t].seen.direction, jobs[t].seen.strength)
           = selection
      /\ jobs[t].read.history = history
  BY <1>0, AskedIsRecorded DEF RefuseSend, FinishSend
<1>2. CASE RefuseSend(t)
  BY <1>1, <1>2 DEF RefuseSend, Chat!vars
<1>3. CASE FinishSend(t)
  <2>1. jobs[t].seen.box \in Prompts
    BY <1>0, <1>3, RunningType DEF FinishSend, CanAsk, Seen
  <2>2. Chat!Ask(jobs[t].seen.box)
    BY <1>1, <1>3 DEF FinishSend, Chat!Ask
  <2> QED BY <2>1, <2>2 DEF Chat!Next
<1> QED
  BY <1>2, <1>3

\* A comparison is Compare or CompareAgain when it answers; refused, it empties the panes.
LEMMA CompareImplements ==
  ASSUME TypeOK, PatientInv, RefuseCompare \/ FinishCompare
  PROVE  Chat!Next
<1>0. "compare" \in Triggers \ (LangTriggers \cup ChangeTriggers)
  BY DEF Triggers, LangTriggers, ChangeTriggers
<1> DEFINE job == jobs["compare"]
<1>1. /\ Selection(job.read.concept, job.seen.direction, job.seen.strength) = selection
      /\ job.read.history = history /\ job.seen.box = box
  BY <1>0, AskedIsRecorded DEF RefuseCompare, FinishCompare
<1>2. CASE RefuseCompare
  BY <1>2 DEF RefuseCompare, Chat!Next, Chat!ClearComparison
<1>3. CASE FinishCompare
  <2>1. /\ comparison' = [prompt  |-> ComparedMessage(box, history),
                          context |-> ComparedContext(box, history),
                          setting |-> selection, reused |-> (box = EmptyBox)]
        /\ UNCHANGED <<history, selection>>
        /\ ComparedMessage(box, history) # EmptyBox
    BY <1>1, <1>3 DEF FinishCompare, CanAsk
  <2>2. CASE box = EmptyBox
    <3>1. history # <<>>
      BY <2>1, <2>2 DEF ComparedMessage
    <3>2. Len(history) > 0
      BY <3>1, EmptySeq, LenProperties DEF TypeOK
    <3>3. Chat!CompareAgain
      BY <2>1, <2>2, <3>1, <3>2 DEF ComparedMessage, ComparedContext, Chat!CompareAgain
    <3> QED BY <3>3 DEF Chat!Next
  <2>3. CASE box # EmptyBox
    <3>1. box \in Prompts
      BY <2>3 DEF TypeOK
    <3>2. Chat!Compare(box)
      BY <2>1, <2>3 DEF ComparedMessage, ComparedContext, Chat!Compare
    <3> QED BY <3>1, <3>2 DEF Chat!Next
  <2> QED BY <2>2, <2>3
<1> QED
  BY <1>2, <1>3

\* Every step of a patient user's tab is one operation of the abstract session, or none.
LEMMA StepImplements ==
  ASSUME TypeOK, PatientInv, [Next]_vars
  PROVE  [Chat!Next]_Chat!vars
<1>1. CASE UNCHANGED vars
  BY <1>1 DEF vars, Chat!vars
<1>2. CASE UserActs
  BY <1>2 DEF UserActs, ClickConcept, PickDirection, PickStrength, Type, PressSend,
              PressCompare, SwitchLanguage, session, Chat!vars
<1>3. CASE \E t \in Triggers : Start(t)
  BY <1>3 DEF Start, session, Chat!vars
<1>4. CASE FinishConceptClick
  <2> DEFINE job == jobs["concept"]
             new == Selection(job.seen.card, FirstDirection[job.seen.card], job.seen.strength)
  <2>1. "concept" \in Triggers /\ Running("concept")
    BY <1>4 DEF FinishConceptClick, Triggers
  <2>2. job.read = ReadNow /\ job.seen.strength = strength /\ job # Idle
    BY <2>1, RunningIsCurrent
  <2>3. new \in Setting
    <3>1. job.seen.card \in Concepts
      BY <2>2 DEF TypeOK, CardKnown
    <3>2. FirstDirection[job.seen.card] \in Directions
      BY <3>1, TabConstants
    <3> QED BY <2>2, <3>1, <3>2, SelectionType DEF TypeOK
  <2>4. /\ selection' = new /\ comparison' = None
        /\ history' = HistoryAfter(selection, new, history)
    BY <1>4, <2>2 DEF FinishConceptClick, ReadNow
  <2> QED BY <2>3, <2>4, SettingChangeImplements
<1>5. ASSUME NEW t \in ChangeTriggers, FinishSettingChange(t) PROVE Chat!Next
  <2>1. t \in Triggers /\ Running(t)
    BY <1>5 DEF FinishSettingChange, Triggers
  <2>2. /\ jobs[t].read = ReadNow /\ jobs[t].seen.strength = strength
        /\ jobs[t].seen.direction = direction
    BY <2>1, RunningIsCurrent
  <2>3. Shown \in Setting
    BY SelectionType DEF Shown, TypeOK
  <2>4. /\ selection' = Shown /\ comparison' = None
        /\ history' = HistoryAfter(selection, Shown, history)
    BY <1>5, <2>2 DEF FinishSettingChange, ReadNow, Shown
  <2> QED BY <2>3, <2>4, SettingChangeImplements
<1>6. CASE FinishLangDetail \/ FinishLangDirections \/ FinishLangSummary
  BY <1>6 DEF FinishLangDetail, FinishLangDirections, FinishLangSummary, session, Chat!vars
<1>7. CASE \E t \in SendTriggers \cup {"compare"} : Fail(t)
  BY <1>7 DEF Fail, session, Chat!vars
<1> QED
  BY <1>1, <1>2, <1>3, <1>4, <1>5, <1>6, <1>7, SendImplements, CompareImplements DEF Next, Finish

\* Handlers, queue and page together behave as if every operation of a patient user
\* were one indivisible step of ChatSession.
THEOREM PatientImplementsChatSession ==
  ASSUME Patient PROVE Spec => ImplementsChatSession
<1>1. Init => Chat!Init
  BY DEF Init, Chat!Init
<1>2. TypeOK /\ PatientInv /\ [Next]_vars => [Chat!Next]_Chat!vars
  BY StepImplements
<1> QED
  BY <1>1, <1>2, PatientInvariant, TypeCorrect, PTL DEF Spec, ImplementsChatSession, Chat!Spec

-------------------------------------------------------------------------------
(* What a patient user's tab shares with an overlapping one. *)

\* _reuse_last_exchange, for a user who lets the page settle and changes any setting.
THEOREM PatientComparisonRepeatsAReply ==
  ASSUME Patient PROVE Spec => []ReusedComparisonRepeatsAReply
<1>1. PatientInv => ReusedComparisonRepeatsAReply
  BY DEF PatientInv
<1> QED
  BY <1>1, PatientInvariant, PTL

\* The conversation of a user who lets the page settle grows by one exchange, or is
\* dropped whole by a change of the recorded setting.
THEOREM PatientConversationGrowsOrResets ==
  ASSUME Patient PROVE Spec => ConversationOnlyGrowsOrResets
<1>1. ASSUME TypeOK, PatientInv, [Next]_vars
      PROVE  [history' # history =>
                \/ /\ Len(history') = Len(history) + 1
                   /\ SubSeq(history', 1, Len(history)) = history
                \/ history' = <<>> /\ selection' # selection]_vars
  <2>1. history \in Seq(Exchange) /\ Len(history) \in Nat
    BY <1>1, LenProperties DEF TypeOK
  <2>2. ASSUME NEW t \in Triggers, Running(t)
        PROVE  jobs[t].read.history = history /\ jobs[t].read.selection = selection
    BY <1>1, <2>2 DEF PatientInv, JobsAreCurrent, ReadNow
  <2>3. ASSUME NEW t \in SendTriggers, FinishSend(t)
        PROVE  \E e \in Exchange : history' = Append(history, e)
    <3>1. t \in Triggers /\ Running(t) /\ jobs[t].seen \in Seen /\ jobs[t].read \in Read
      BY <1>1, <2>3, RunningType DEF FinishSend, Triggers
    <3> DEFINE asked == Selection(jobs[t].read.concept, jobs[t].seen.direction, jobs[t].seen.strength)
    <3>2. asked \in Setting /\ jobs[t].seen.box \in Prompts
      BY <2>3, <3>1, SelectionType DEF FinishSend, CanAsk, Seen, Read
    <3>3. history' = Append(history, [prompt |-> jobs[t].seen.box, setting |-> asked])
      BY <2>2, <2>3, <3>1 DEF FinishSend
    <3> QED  BY <3>2, <3>3 DEF Exchange
  <2>4. ASSUME NEW t \in SendTriggers, RefuseSend(t)
        PROVE  history' = history
    BY <2>2, <2>4 DEF RefuseSend, Triggers
  <2>5. ASSUME NEW t \in ChangeTriggers, FinishSettingChange(t)
        PROVE  history' = history \/ (history' = <<>> /\ selection' # selection)
    BY <2>2, <2>5 DEF FinishSettingChange, HistoryAfter, Triggers
  <2>6. FinishConceptClick => history' = history \/ (history' = <<>> /\ selection' # selection)
    BY <2>2 DEF FinishConceptClick, HistoryAfter, Triggers
  <2>7. UserActs \/ (\E t \in Triggers : Start(t)) => history' = history
    BY DEF UserActs, ClickConcept, PickDirection, PickStrength, Type, PressSend, PressCompare,
           SwitchLanguage, Start, session
  <2>8. /\ RefuseCompare \/ FinishCompare => history' = history
        /\ (\E t \in SendTriggers \cup {"compare"} : Fail(t)) => history' = history
        /\ FinishLangDetail \/ FinishLangDirections \/ FinishLangSummary => history' = history
    BY DEF RefuseCompare, FinishCompare, Fail, FinishLangDetail, FinishLangDirections,
           FinishLangSummary, session
  <2>9. ASSUME NEW e \in Exchange, history' = Append(history, e)
        PROVE  Len(history') = Len(history) + 1 /\ SubSeq(history', 1, Len(history)) = history
    BY <2>1, <2>9, AppendProperties
  <2>10. \/ history' = history
         \/ \E e \in Exchange : history' = Append(history, e)
         \/ history' = <<>> /\ selection' # selection
    BY <1>1, <2>3, <2>4, <2>5, <2>6, <2>7, <2>8 DEF Next, Finish, vars
  <2> QED  BY <2>9, <2>10
<1> QED
  BY <1>1, PatientInvariant, TypeCorrect, PTL DEF Spec, ConversationOnlyGrowsOrResets

-------------------------------------------------------------------------------
(* A user who keeps one setting, and types, sends and compares at any time. *)

Asking == SendTriggers \cup {"compare"}

\* No handler that changes the setting is pending, and those that ask, ask under it.
SettingHeld ==
  /\ \A t \in Triggers : t \notin Asking => jobs[t] = Idle
  /\ \A t \in Asking : jobs[t] # Idle =>
       /\ jobs[t].seen.direction = direction /\ jobs[t].seen.strength = strength
       /\ ~jobs[t].again
       /\ Running(t) => jobs[t].read.concept = concept

Extends(longer, past) ==
  /\ Len(past) <= Len(longer)
  /\ \A i \in 1..Len(past) : longer[i] = past[i]

\* One send runs at a time, with the whole conversation in hand; a comparison runs beside
\* it, with a conversation that may have grown since.
ReadsStand ==
  /\ \A t, u \in SendTriggers : Running(t) /\ Running(u) => t = u
  /\ \A t \in SendTriggers : Running(t) => jobs[t].read.history = history
  /\ Running("compare") => Extends(history, jobs["compare"].read.history)

OverlapInv ==
  /\ SettingHeld
  /\ ReadsStand
  /\ \A i \in 1..Len(history) : history[i].setting = Shown
  /\ ReusedComparisonRepeatsAReply

\* What a step may do to the conversation.
GrowsOrStays ==
  \/ history' = history
  \/ \E e \in Exchange : e.setting = Shown /\ history' = Append(history, e)

LEMMA AskingTriggers ==
  /\ Asking \subseteq Triggers /\ SendTriggers \subseteq Asking /\ "compare" \in Asking
  /\ "compare" \notin SendTriggers /\ "concept" \notin Asking
  /\ Asking \cap (ChangeTriggers \cup LangTriggers) = {}
  /\ ChangeTriggers \cup LangTriggers \cup {"concept"} \subseteq Triggers
  BY DEF Asking, Triggers, SendTriggers, ChangeTriggers, LangTriggers

LEMMA OverlapInit == Init => OverlapInv
  BY AskingTriggers DEF Init, OverlapInv, SettingHeld, ReadsStand, ReusedComparisonRepeatsAReply,
     Running, Idle

\* A job that asks under the setting on the page, or none, keeps what the jobs are.
LEMMA HeldStep ==
  ASSUME TypeOK, SettingHeld, UNCHANGED <<direction, strength, concept>>,
         NEW t \in Asking, NEW job, jobs' = [jobs EXCEPT ![t] = job],
         job # Idle => /\ job.seen.direction = direction /\ job.seen.strength = strength
                       /\ ~job.again
                       /\ job.phase = "running" => job.read.concept = concept
  PROVE  SettingHeld'
<1>1. jobs \in [Triggers -> Job] /\ t \in Triggers
  BY AskingTriggers DEF TypeOK
<1>2. jobs'[t] = job /\ \A u \in Triggers : u # t => jobs'[u] = jobs[u]
  BY <1>1
<1>3. \A u \in Triggers : u \notin Asking => jobs'[u] = Idle
  BY <1>2 DEF SettingHeld
<1>4. ASSUME NEW u \in Asking, jobs'[u] # Idle
      PROVE  /\ jobs'[u].seen.direction = direction' /\ jobs'[u].seen.strength = strength'
             /\ ~jobs'[u].again
             /\ jobs'[u].phase = "running" => jobs'[u].read.concept = concept'
  <2>1. CASE u = t
    BY <1>2, <1>4, <2>1
  <2>2. CASE u # t
    <3>1. jobs'[u] = jobs[u]
      BY <1>2, <2>2, AskingTriggers
    <3> QED  BY <1>4, <3>1 DEF SettingHeld, Running
  <2> QED  BY <2>1, <2>2
<1> QED
  BY <1>3, <1>4 DEF SettingHeld, Running

\* A job that is queued or has returned reads nothing: only the conversation counts.
LEMMA ReadsStep ==
  ASSUME TypeOK, ReadsStand, NEW t \in Asking, NEW job, jobs' = [jobs EXCEPT ![t] = job],
         job.phase # "running",
         history' = history \/ (t \in SendTriggers /\ Running(t)),
         \A past \in Seq(Exchange) : Extends(history, past) => Extends(history', past)
  PROVE  ReadsStand'
<1>1. jobs \in [Triggers -> Job] /\ t \in Triggers
  BY AskingTriggers DEF TypeOK
<1>2. jobs'[t] = job /\ \A u \in Triggers : u # t => jobs'[u] = jobs[u]
  BY <1>1
<1>3. \A u \in Triggers : jobs'[u].phase = "running" => u # t /\ jobs'[u] = jobs[u] /\ Running(u)
  BY <1>2 DEF Running
<1>4. \A u, v \in SendTriggers : jobs'[u].phase = "running" /\ jobs'[v].phase = "running" => u = v
  BY <1>3, AskingTriggers DEF ReadsStand
<1>5. ASSUME NEW u \in SendTriggers, jobs'[u].phase = "running"
      PROVE  jobs'[u].read.history = history'
  <2>1. u # t /\ jobs'[u] = jobs[u] /\ Running(u)
    BY <1>3, <1>5, AskingTriggers
  <2>2. history' = history
    BY <2>1 DEF ReadsStand
  <2> QED  BY <2>1, <2>2 DEF ReadsStand
<1>6. ASSUME jobs'["compare"].phase = "running"
      PROVE  Extends(history', jobs'["compare"].read.history)
  <2>1. "compare" \in Triggers /\ jobs'["compare"] = jobs["compare"] /\ Running("compare")
    BY <1>3, <1>6, AskingTriggers
  <2>2. jobs["compare"].read.history \in Seq(Exchange)
    BY <2>1, RunningType DEF Read
  <2> QED  BY <2>1, <2>2 DEF ReadsStand
<1> QED
  BY <1>4, <1>5, <1>6 DEF ReadsStand, Running, Extends

\* A conversation that grew still holds what it held, the compared reply among it.
LEMMA GrowingKeeps ==
  ASSUME TypeOK, OverlapInv, GrowsOrStays, UNCHANGED <<direction, strength, concept>>,
         comparison' = comparison \/ comparison' = None
  PROVE  /\ \A i \in 1..Len(history') : history'[i].setting = Shown'
         /\ ReusedComparisonRepeatsAReply'
         /\ \A past \in Seq(Exchange) : Extends(history, past) => Extends(history', past)
<1>1. history \in Seq(Exchange) /\ Len(history) \in Nat /\ DOMAIN history = 1..Len(history)
  BY LenProperties DEF TypeOK
<1>2. Shown' = Shown
  BY DEF Shown
<1>3. CASE history' = history
  <2>1. ReusedComparisonRepeatsAReply'
    BY <1>3 DEF OverlapInv, ReusedComparisonRepeatsAReply
  <2> QED  BY <1>2, <1>3, <2>1 DEF OverlapInv
<1>4. CASE \E e \in Exchange : e.setting = Shown /\ history' = Append(history, e)
  <2>1. PICK e \in Exchange : e.setting = Shown /\ history' = Append(history, e)
    BY <1>4
  <2>2. /\ history' \in Seq(Exchange) /\ Len(history') = Len(history) + 1
        /\ DOMAIN history' = 1..(Len(history) + 1)
        /\ \A i \in 1..Len(history) : history'[i] = history[i]
        /\ history'[Len(history) + 1] = e
    BY <1>1, <2>1, AppendProperties
  <2>3. \A i \in 1..Len(history') : history'[i].setting = Shown'
    <3>1. \A i \in 1..Len(history') : i \in 1..Len(history) \/ i = Len(history) + 1
      BY <1>1, <2>2
    <3> QED  BY <1>2, <2>1, <2>2, <3>1 DEF OverlapInv
  <2>4. ASSUME comparison' # None, comparison'.reused
        PROVE  \E i \in DOMAIN history' :
                 /\ history'[i] = [prompt |-> comparison'.prompt, setting |-> comparison'.setting]
                 /\ comparison'.context = SubSeq(history', 1, i - 1)
    <3>1. comparison' = comparison
      BY <2>4
    <3>2. PICK i \in 1..Len(history) :
            /\ history[i] = [prompt |-> comparison.prompt, setting |-> comparison.setting]
            /\ comparison.context = SubSeq(history, 1, i - 1)
      BY <1>1, <2>4, <3>1 DEF OverlapInv, ReusedComparisonRepeatsAReply
    <3>3. SubSeq(history', 1, i - 1) = SubSeq(history, 1, i - 1)
      BY <1>1, <2>2
    <3>4. i \in DOMAIN history' /\ history'[i] = history[i]
      BY <1>1, <2>2
    <3>5. history'[i] = [prompt |-> comparison'.prompt, setting |-> comparison'.setting]
      BY <3>1, <3>2, <3>4
    <3>6. comparison'.context = SubSeq(history', 1, i - 1)
      BY <3>1, <3>2, <3>3
    <3> QED  BY <3>4, <3>5, <3>6
  <2>5. ReusedComparisonRepeatsAReply'
    BY <2>4 DEF ReusedComparisonRepeatsAReply
  <2>6. ASSUME NEW past \in Seq(Exchange), Extends(history, past)
        PROVE  Extends(history', past)
    <3>1. Len(past) \in Nat /\ Len(past) <= Len(history)
      BY <2>6, LenProperties DEF Extends
    <3> QED  BY <1>1, <2>2, <2>6, <3>1 DEF Extends
  <2> QED  BY <2>3, <2>5, <2>6
<1> QED
  BY <1>3, <1>4 DEF GrowsOrStays

\* A user who keeps the setting fires no handler but those that ask.
LEMMA OverlapUser ==
  ASSUME TypeOK, OverlapInv, Moves \subseteq {"type", "send", "compare"}, UserActs
  PROVE  OverlapInv' /\ history' = history
<1>1. ASSUME NEW move, MayAct(move)
      PROVE  move \in {"type", "send", "compare"}
  BY <1>1 DEF MayAct
<1>2. ASSUME NEW t \in Asking, jobs[t] = Idle, jobs' = Fired(jobs, t, SeenNow(None)),
             UNCHANGED <<radios, panels, notices, session, box, summary, comparison>>
      PROVE  OverlapInv' /\ history' = history
  <2>1. jobs' = [jobs EXCEPT ![t] = Queued(SeenNow(None))]
    BY <1>2, FiredIdle, AskingTriggers DEF TypeOK
  <2>2. UNCHANGED <<direction, strength, concept, history, comparison>>
    BY <1>2 DEF radios, session
  <2> DEFINE job == Queued(SeenNow(None))
  <2>3. /\ job.seen.direction = direction /\ job.seen.strength = strength
        /\ ~job.again /\ job.phase = "queued"
    BY DEF Queued, SeenNow, SeenWith
  <2> HIDE DEF job
  <2>4. SettingHeld'
    BY <1>2, <2>1, <2>2, <2>3, HeldStep DEF OverlapInv, job
  <2>5. ReadsStand'
    BY <1>2, <2>1, <2>2, <2>3, ReadsStep DEF OverlapInv, job, Extends
  <2> QED  BY <2>2, <2>4, <2>5, GrowingKeeps DEF OverlapInv, GrowsOrStays
<1>3. ASSUME NEW p, Type(p)
      PROVE  OverlapInv' /\ history' = history
  <2>1. UNCHANGED <<direction, strength, concept, history, comparison, jobs>>
    BY <1>3 DEF Type, radios, session
  <2>2. SettingHeld' /\ ReadsStand'
    BY <2>1 DEF OverlapInv, SettingHeld, ReadsStand, Running, Extends
  <2> QED  BY <2>1, <2>2, GrowingKeeps DEF OverlapInv, GrowsOrStays
<1>4. ASSUME NEW t \in SendTriggers, PressSend(t)
      PROVE  OverlapInv' /\ history' = history
  BY <1>2, <1>4, AskingTriggers DEF PressSend
<1>5. CASE PressCompare
  BY <1>2, <1>5, AskingTriggers DEF PressCompare
<1>6. ~(\E c \in Concepts : ClickConcept(c)) /\ ~(\E d \in Directions : PickDirection(d))
      /\ ~(\E x \in Strengths : PickStrength(x)) /\ ~SwitchLanguage
  BY <1>1 DEF ClickConcept, PickDirection, PickStrength, SwitchLanguage
<1> QED
  BY <1>3, <1>4, <1>5, <1>6 DEF UserActs

\* A send starts when none runs, and reads the conversation as it is.
LEMMA OverlapStart ==
  ASSUME TypeOK, OverlapInv, NEW t \in Triggers, Start(t)
  PROVE  OverlapInv' /\ history' = history
<1> DEFINE job == [phase |-> "running", seen |-> jobs[t].seen, again |-> jobs[t].again, read |-> ReadNow]
<1>1. t \in Asking /\ jobs[t] # Idle /\ ~Running(t)
  BY DEF Start, OverlapInv, SettingHeld, Idle, Running
<1>2. jobs' = [jobs EXCEPT ![t] = job] /\ UNCHANGED <<direction, strength, concept, history, comparison>>
  BY DEF Start, radios, session
<1>3. /\ jobs \in [Triggers -> Job] /\ jobs'[t] = job
      /\ \A u \in Triggers : u # t => jobs'[u] = jobs[u]
  BY <1>2 DEF TypeOK
<1>4. job.read.concept = concept /\ job.read.history = history /\ job.phase = "running"
      /\ job.seen = jobs[t].seen /\ job.again = jobs[t].again
  BY DEF ReadNow
<1> HIDE DEF job
<1>5. SettingHeld'
  <2>1. job.seen.direction = direction /\ job.seen.strength = strength /\ ~job.again
    BY <1>1, <1>4 DEF OverlapInv, SettingHeld
  <2> QED  BY <1>1, <1>2, <1>4, <2>1, HeldStep DEF OverlapInv
<1>6. ReadsStand'
  <2>1. \A u \in SendTriggers : Running(u) => t \notin SendTriggers
    <3>1. \A u \in SendTriggers : Handler(u) = "_on_send"
      BY DEF Handler, SendTriggers, ChangeTriggers
    <3> QED  BY <3>1, AskingTriggers DEF Start
  <2>2. \A u \in Triggers : jobs'[u].phase = "running" => u = t \/ (jobs'[u] = jobs[u] /\ Running(u))
    BY <1>3 DEF Running
  <2>3. \A u, v \in SendTriggers : jobs'[u].phase = "running" /\ jobs'[v].phase = "running" => u = v
    BY <2>1, <2>2, AskingTriggers DEF OverlapInv, ReadsStand
  <2>4. ASSUME NEW u \in SendTriggers, jobs'[u].phase = "running"
        PROVE  jobs'[u].read.history = history'
    BY <1>2, <1>3, <1>4, <2>2, <2>4, AskingTriggers DEF OverlapInv, ReadsStand
  <2>5. ASSUME jobs'["compare"].phase = "running"
        PROVE  Extends(history', jobs'["compare"].read.history)
    <3>1. CASE t = "compare"
      <4>1. history \in Seq(Exchange)
        BY DEF TypeOK
      <4> QED  BY <1>2, <1>3, <1>4, <3>1, <4>1 DEF Extends
    <3>2. CASE t # "compare"
      <4>1. jobs'["compare"] = jobs["compare"] /\ Running("compare")
        BY <2>2, <2>5, <3>2, AskingTriggers
      <4> QED  BY <1>2, <4>1 DEF OverlapInv, ReadsStand
    <3> QED  BY <3>1, <3>2
  <2> QED  BY <2>3, <2>4, <2>5 DEF ReadsStand, Running, Extends
<1> QED
  BY <1>2, <1>5, <1>6, GrowingKeeps DEF OverlapInv, GrowsOrStays

\* A handler that asked returns: the conversation it holds is the conversation there is,
\* and the setting it asked under is the one on the page.
LEMMA AskingReturns ==
  ASSUME TypeOK, OverlapInv, NEW t \in Asking, Running(t)
  PROVE  /\ \A seen : Returned(t, seen) = [jobs EXCEPT ![t] = Idle]
         /\ jobs[t].seen \in Seen /\ jobs[t].read \in Read
         /\ Selection(jobs[t].read.concept, jobs[t].seen.direction, jobs[t].seen.strength) = Shown
         /\ Shown \in Setting
         /\ t \in SendTriggers => jobs[t].read.history = history
<1>1. t \in Triggers /\ jobs[t] # Idle
  BY AskingTriggers DEF Running, Idle
<1>2. /\ jobs[t].seen.direction = direction /\ jobs[t].seen.strength = strength
      /\ ~jobs[t].again /\ jobs[t].read.concept = concept
  BY <1>1 DEF OverlapInv, SettingHeld
<1>3. \A seen : Returned(t, seen) = [jobs EXCEPT ![t] = Idle]
  BY <1>1, <1>2, ReturnedIdle
<1>4. Shown \in Setting
  BY SelectionType DEF Shown, TypeOK
<1> QED
  BY <1>1, <1>2, <1>3, <1>4, RunningType DEF Shown, OverlapInv, ReadsStand

\* What is left of a return once the conversation and the panes are accounted for.
LEMMA ReturnKeeps ==
  ASSUME TypeOK, OverlapInv, NEW t \in Asking, Running(t), jobs' = [jobs EXCEPT ![t] = Idle],
         UNCHANGED <<direction, strength, concept>>,
         GrowsOrStays, history' = history \/ t \in SendTriggers,
         \/ comparison' = comparison \/ comparison' = None
         \/ history' = history /\ ReusedComparisonRepeatsAReply'
  PROVE  OverlapInv'
<1>1. Idle.phase # "running"
  BY DEF Idle
<1>2. SettingHeld'
  BY HeldStep DEF OverlapInv
<1>3. /\ \A i \in 1..Len(history') : history'[i].setting = Shown'
      /\ \A past \in Seq(Exchange) : Extends(history, past) => Extends(history', past)
  <2>1. CASE comparison' = comparison \/ comparison' = None
    BY <2>1, GrowingKeeps
  <2>2. CASE history' = history
    BY <2>2 DEF OverlapInv, Shown
  <2> QED  BY <2>1, <2>2
<1>4. ReadsStand'
  BY <1>1, <1>3, ReadsStep DEF OverlapInv
<1>5. ReusedComparisonRepeatsAReply'
  BY GrowingKeeps
<1> QED
  BY <1>2, <1>3, <1>4, <1>5 DEF OverlapInv

\* The panes that repeat a message repeat it where it stands: of the conversation the
\* handler read, which the conversation now on screen extends.
LEMMA ReusedIsOnScreen ==
  ASSUME TypeOK, OverlapInv, FinishCompare
  PROVE  ReusedComparisonRepeatsAReply'
<1> DEFINE job == jobs["compare"]
           past == job.read.history
           i == Len(past)
<1>1. /\ Running("compare") /\ history' = history
      /\ comparison' = [prompt |-> ComparedMessage(job.seen.box, past),
                        context |-> ComparedContext(job.seen.box, past),
                        setting |-> Selection(job.read.concept, job.seen.direction, job.seen.strength),
                        reused |-> (job.seen.box = EmptyBox)]
      /\ ComparedMessage(job.seen.box, past) # EmptyBox
  BY DEF FinishCompare, CanAsk
<1>2. /\ Selection(job.read.concept, job.seen.direction, job.seen.strength) = Shown
      /\ past \in Seq(Exchange) /\ Extends(history, past)
  BY <1>1, AskingReturns, AskingTriggers DEF Read, OverlapInv, ReadsStand
<1>3. history \in Seq(Exchange) /\ DOMAIN history = 1..Len(history) /\ Len(history) \in Nat
  BY LenProperties DEF TypeOK
<1>4. ASSUME comparison'.reused
      PROVE  /\ i \in DOMAIN history'
             /\ history'[i] = [prompt |-> comparison'.prompt, setting |-> comparison'.setting]
             /\ comparison'.context = SubSeq(history', 1, i - 1)
  <2>1. job.seen.box = EmptyBox /\ past # <<>>
    BY <1>1, <1>4 DEF ComparedMessage
  <2>2. i \in Nat /\ i > 0 /\ i <= Len(history) /\ \A k \in 1..i : history[k] = past[k]
    BY <1>2, <2>1, LenProperties, EmptySeq DEF Extends
  <2>3. comparison'.prompt = past[i].prompt /\ comparison'.context = SubSeq(past, 1, i - 1)
        /\ comparison'.setting = Shown
    BY <1>1, <1>2, <2>1 DEF ComparedMessage, ComparedContext
  <2> HIDE DEF past, i, job
  <2>4. i \in 1..Len(history) /\ history[i] = past[i] /\ history[i] \in Exchange
    BY <1>3, <2>2, ElementOfSeq
  <2>5. history[i] = [prompt |-> history[i].prompt, setting |-> history[i].setting]
    BY <2>4 DEF Exchange
  <2>6. history[i].setting = Shown
    BY <2>4 DEF OverlapInv
  <2>7. SubSeq(past, 1, i - 1) = SubSeq(history, 1, i - 1)
    BY <1>2, <1>3, <2>2 DEF i
  <2> QED  BY <1>1, <1>3, <2>3, <2>4, <2>5, <2>6, <2>7
<1> HIDE DEF i
<1> QED
  BY <1>4 DEF ReusedComparisonRepeatsAReply

LEMMA OverlapFinish ==
  ASSUME TypeOK, OverlapInv, Finish
  PROVE  OverlapInv' /\ GrowsOrStays
<1>1. ASSUME NEW t \in Triggers, Running(t)
      PROVE  t \in Asking
  BY <1>1 DEF OverlapInv, SettingHeld, Running, Idle
<1>2. ASSUME NEW t \in SendTriggers, RefuseSend(t)
      PROVE  OverlapInv' /\ GrowsOrStays
  <2>1. Running(t) /\ t \in Asking
    BY <1>2, AskingTriggers DEF RefuseSend
  <2>2. jobs' = [jobs EXCEPT ![t] = Idle] /\ history' = history
        /\ UNCHANGED <<direction, strength, concept, comparison>>
    BY <1>2, <2>1, AskingReturns DEF RefuseSend, radios
  <2> QED  BY <1>2, <2>1, <2>2, ReturnKeeps DEF GrowsOrStays
<1>3. ASSUME NEW t \in SendTriggers, FinishSend(t)
      PROVE  OverlapInv' /\ GrowsOrStays
  <2>1. Running(t) /\ t \in Asking
    BY <1>3, AskingTriggers DEF FinishSend
  <2> DEFINE e == [prompt |-> jobs[t].seen.box, setting |-> Shown]
  <2>2. jobs' = [jobs EXCEPT ![t] = Idle] /\ history' = Append(history, e)
        /\ UNCHANGED <<direction, strength, concept, comparison>>
    BY <1>3, <2>1, AskingReturns DEF FinishSend, radios
  <2>3. e \in Exchange /\ e.setting = Shown
    <3>1. jobs[t].seen.box \in Prompts
      BY <1>3, <2>1, AskingReturns DEF FinishSend, CanAsk, Seen
    <3> QED  BY <2>1, <3>1, AskingReturns DEF Exchange
  <2> HIDE DEF e
  <2>4. GrowsOrStays
    BY <2>2, <2>3 DEF GrowsOrStays
  <2> QED  BY <1>3, <2>1, <2>2, <2>4, ReturnKeeps
<1>4. CASE RefuseCompare \/ FinishCompare
  <2>1. Running("compare") /\ "compare" \in Asking
    BY <1>4, AskingTriggers DEF RefuseCompare, FinishCompare
  <2>2. jobs' = [jobs EXCEPT !["compare"] = Idle] /\ history' = history
        /\ UNCHANGED <<direction, strength, concept>>
    BY <1>4, <2>1, AskingReturns DEF RefuseCompare, FinishCompare, radios
  <2>3. comparison' = None \/ (history' = history /\ ReusedComparisonRepeatsAReply')
    BY <1>4, <2>2, ReusedIsOnScreen DEF RefuseCompare
  <2>4. GrowsOrStays
    BY <2>2 DEF GrowsOrStays
  <2> QED  BY <2>1, <2>2, <2>3, <2>4, ReturnKeeps
<1>5. ASSUME NEW t \in SendTriggers \cup {"compare"}, Fail(t)
      PROVE  OverlapInv' /\ GrowsOrStays
  <2>1. Running(t) /\ t \in Asking
    BY <1>5 DEF Fail, Asking
  <2>2. jobs' = [jobs EXCEPT ![t] = Idle] /\ history' = history
        /\ UNCHANGED <<direction, strength, concept, comparison>>
    BY <1>5, <2>1, AskingReturns DEF Fail, radios, session
  <2> QED  BY <2>1, <2>2, ReturnKeeps DEF GrowsOrStays
<1>6. /\ ~FinishConceptClick /\ ~(\E t \in ChangeTriggers : FinishSettingChange(t))
      /\ ~FinishLangDetail /\ ~FinishLangDirections /\ ~FinishLangSummary
  BY <1>1, AskingTriggers
     DEF FinishConceptClick, FinishSettingChange, FinishLangDetail, FinishLangDirections,
         FinishLangSummary, ChangeTriggers, LangTriggers
<1> QED
  BY <1>2, <1>3, <1>4, <1>5, <1>6 DEF Finish

\* While the setting stays, whatever overlaps: one send runs at a time and owns the
\* conversation, and what a comparison reads of it stays a part of it.
THEOREM OverlapInvariant ==
  ASSUME Moves \subseteq {"type", "send", "compare"}
  PROVE  Spec => []OverlapInv
<1>1. TypeOK /\ OverlapInv /\ Next => OverlapInv'
  BY OverlapUser, OverlapStart, OverlapFinish DEF Next
<1>2. TypeOK /\ OverlapInv /\ UNCHANGED vars => OverlapInv'
  <2> SUFFICES ASSUME TypeOK, OverlapInv, UNCHANGED vars PROVE OverlapInv'
    OBVIOUS
  <2>1. UNCHANGED <<direction, strength, concept, history, comparison, jobs>>
    BY DEF vars
  <2>2. SettingHeld' /\ ReadsStand'
    BY <2>1 DEF OverlapInv, SettingHeld, ReadsStand, Running, Extends
  <2> QED  BY <2>1, <2>2, GrowingKeeps DEF OverlapInv, GrowsOrStays
<1> QED
  BY <1>1, <1>2, OverlapInit, TypeCorrect, PTL DEF Spec

\* _reuse_last_exchange: while the setting stays, a comparison that reuses a message
\* repeats a reply on screen and its context, also when a send runs beside it.
THEOREM OverlapComparisonRepeatsAReply ==
  ASSUME Moves \subseteq {"type", "send", "compare"}
  PROVE  Spec => []ReusedComparisonRepeatsAReply
<1>1. OverlapInv => ReusedComparisonRepeatsAReply
  BY DEF OverlapInv
<1> QED
  BY <1>1, OverlapInvariant, PTL

\* While the setting stays, no send and no refusal writes back a conversation it read
\* too early: every step leaves the conversation or adds one exchange to it.
THEOREM OverlapConversationGrows ==
  ASSUME Moves \subseteq {"type", "send", "compare"}
  PROVE  Spec => ConversationOnlyGrowsOrResets
<1>1. ASSUME TypeOK, OverlapInv, [Next]_vars
      PROVE  [history' # history =>
                \/ /\ Len(history') = Len(history) + 1
                   /\ SubSeq(history', 1, Len(history)) = history
                \/ history' = <<>> /\ selection' # selection]_vars
  <2>1. history \in Seq(Exchange) /\ Len(history) \in Nat
    BY <1>1, LenProperties DEF TypeOK
  <2>2. history' = history \/ \E e \in Exchange : history' = Append(history, e)
    BY <1>1, OverlapUser, OverlapStart, OverlapFinish DEF Next, GrowsOrStays, vars
  <2>3. ASSUME NEW e \in Exchange, history' = Append(history, e)
        PROVE  Len(history') = Len(history) + 1 /\ SubSeq(history', 1, Len(history)) = history
    BY <2>1, <2>3, AppendProperties
  <2> QED  BY <2>2, <2>3
<1> QED
  BY <1>1, OverlapInvariant, TypeCorrect, PTL DEF Spec, ConversationOnlyGrowsOrResets

===============================================================================
