------------------------- MODULE SteeringBackendProofs -------------------------
(***************************************************************************)
(* SteeringBackend, for any callers, requests, numbers of tokens, passes   *)
(* and loads, with calls alone or overlapping: whose hooks are on a model, *)
(* what a verdict means, and what a reply no other call overlapped is.     *)
(***************************************************************************)
EXTENDS SteeringBackend, SequenceTheorems, FunctionTheorems, FiniteSetTheorems, TLAPS

\* What the code's early checks have settled when a call reaches each phase.
Shape(c) ==
  /\ phase[c] = "idle" <=> arms[c] = <<>>
  /\ phase[c] \in {"ready", "generating"} => model[c] \in Models
  /\ phase[c] \in {"loading", "ready", "generating"} => Accepted(Arm(c))
  /\ phase[c] = "generating" => LayerMatches(Arm(c))
  /\ phase[c] # "generating" => passes[c] = <<>>

Typed == TypeOK /\ \A c \in Callers : Shape(c)

\* On Qwen the hooks on m are those of the steered arms generating there, one each.
QwenHooks(m) ==
  pairing = "qwen" =>
    /\ \A h \in hooks[m] : h.of \in Steering(m)
    /\ \A c \in Steering(m) : \E h \in hooks[m] : h.of = c
    /\ \A g, h \in hooks[m] : g.of = h.of => g = h

\* On Gemma a context is open on m for each of these arms, and there is one hook of each
\* level up to theirs, whosever it is.
GemmaHooks(m) ==
  pairing = "gemma" =>
    /\ level[m] = Cardinality(Steering(m))
    /\ \A h \in hooks[m] : h.level \in 1..level[m]
    /\ \A l \in 1..level[m] : \E h \in hooks[m] : h.level = l
    /\ \A g, h \in hooks[m] : g.level = h.level => g = h

Hooked == \A m \in Models : QwenHooks(m) /\ GemmaHooks(m)

LEMMA Constants ==
  /\ PromptLength \in Nat /\ PromptLength > 0
  /\ \A p \in Pairings : /\ MaxLoads[p] \in Nat /\ 1..MaxLoads[p] \subseteq Models
                         /\ Steerings[p] \subseteq SteeringRecord /\ Baseline \notin Steerings[p]
  /\ IsFiniteSet(Callers) /\ Ended \notin Callers
  BY BackendConstants DEF Models

\* The arm a call is at is one of the requests of its pairing.
LEMMA ArmIsARequest ==
  ASSUME Typed, NEW c \in Callers, phase[c] # "idle"
  PROVE  /\ Arm(c) \in Request
         /\ Arm(c) # Baseline => Arm(c) \in SteeringRecord /\ Arm(c).positions \in {"all", "generated_only"}
<1>1. arms[c] \in Seq(Request) /\ arms[c] # <<>>
  BY DEF Typed, TypeOK, Shape
<1>2. Arm(c) \in Request
  BY <1>1 DEF Arm
<1>. QED  BY <1>2, Constants DEF Typed, TypeOK, Request, SteeringRecord

LEMMA InitTyped == Init => Typed
  BY Constants DEF Init, Typed, TypeOK, Shape, Phases, Models

\* A refused, failed or broken call leaves nothing of itself.
LEMMA RaiseTyped ==
  ASSUME Typed, NEW c \in Callers, Raise(c), UNCHANGED <<pairing, alone, loaded, loads>>,
         hooks' \in [Models -> SUBSET Hook], level' \in [Models -> Nat],
         trace' \in [Callers -> Seq(Trace)]
  PROVE  Typed'
<1>1. TypeOK'
  <2>1. <<>> \in Seq(Request) /\ <<>> \in Seq(Pass) /\ <<>> \in Seq(Result)
    OBVIOUS
  <2>2. Request' = Request /\ Result' = Result
    BY DEF Request, Result
  <2>3. arms' \in [Callers -> Seq(Request)] /\ answers' \in [Callers -> Seq(Result)]
    BY <2>1 DEF Typed, TypeOK, Raise
  <2>4. phase' \in [Callers -> Phases] /\ model' \in [Callers -> {0} \cup Models] /\ passes' \in [Callers -> Seq(Pass)]
    BY <2>1 DEF Typed, TypeOK, Raise, Phases
  <2>. QED  BY <2>2, <2>3, <2>4 DEF Typed, TypeOK
<1>2. ASSUME NEW d \in Callers
      PROVE  Shape(d)'
  <2>1. CASE d = c
    BY <2>1 DEF Typed, TypeOK, Raise, Shape
  <2>2. CASE d # c
    BY <2>2 DEF Typed, TypeOK, Raise, Shape, Arm, Accepted, LayerMatches, EngineeringLayer
  <2>. QED  BY <2>1, <2>2
<1>. QED  BY <1>1, <1>2 DEF Typed

\* A step that moves one call from phase to phase, and perhaps loads or takes a model.
LEMMA MoveTyped ==
  ASSUME Typed, NEW c \in Callers, NEW ph \in Phases \ {"idle"}, phase[c] \notin {"idle", "generating"},
         phase' = [phase EXCEPT ![c] = ph], loaded' \in 0..MaxLoads[pairing], loads' \in 0..MaxLoads[pairing],
         model' \in [Callers -> {0} \cup Models], \A d \in Callers : d # c => model'[d] = model[d],
         UNCHANGED <<pairing, alone, arms, passes, answers>>,
         hooks' \in [Models -> SUBSET Hook], level' \in [Models -> Nat],
         trace' \in [Callers -> Seq(Trace)],
         ph \in {"ready", "generating"} => model'[c] \in Models,
         ph \in {"loading", "ready", "generating"} => Accepted(Arm(c)),
         ph = "generating" => LayerMatches(Arm(c))
  PROVE  Typed'
<1>1. TypeOK'
  BY DEF Typed, TypeOK, Request, Result
<1>2. ASSUME NEW d \in Callers
      PROVE  Shape(d)'
  <2>1. CASE d = c
    BY <2>1 DEF Typed, TypeOK, Shape, Arm, Accepted, LayerMatches, EngineeringLayer
  <2>2. CASE d # c
    BY <2>2 DEF Typed, TypeOK, Shape, Arm, Accepted, LayerMatches, EngineeringLayer
  <2>. QED  BY <2>1, <2>2
<1>. QED  BY <1>1, <1>2 DEF Typed

\* A pass moves a hook's counter and nothing else of it.
LEMMA AdvancedHook ==
  ASSUME NEW h \in Hook, NEW n \in {1, PromptLength}
  PROVE  /\ Advanced(h, n) \in Hook
         /\ Advanced(h, n).of = h.of /\ Advanced(h, n).positions = h.positions
         /\ Advanced(h, n).level = h.level
<1>1. h.counter \in 0..PromptLength /\ n \in Nat /\ PromptLength \in Nat
  BY Constants DEF Hook
<1>2. (IF h.positions = "all" THEN h.counter
       ELSE IF h.counter + n < PromptLength THEN h.counter + n ELSE PromptLength) \in 0..PromptLength
  BY <1>1
<1>. QED  BY <1>2 DEF Hook, Advanced

\* One forward pass, taken apart.
LEMMA PassTaken ==
  ASSUME Typed, NEW c \in Callers, ForwardPass(c)
  PROVE  \E inert \in SUBSET hooks[model[c]], pass \in Pass :
           /\ pass.length = PassLength(c)
           /\ \A o \in Owner : pass.changed[o] =
                UNION {Mask(h, PassLength(c)) : h \in {g \in hooks[model[c]] \ inert : g.of = o}}
           /\ passes' = [passes EXCEPT ![c] = Append(@, pass)]
           /\ hooks' = [hooks EXCEPT ![model[c]] = {Advanced(h, PassLength(c)) : h \in hooks[model[c]]}]
           /\ trace' = [o \in Callers |->
                IF o \in Owners(model[c])
                  THEN Append(trace[o], [length |-> pass.length, steered |-> pass.changed[o] # {}])
                  ELSE trace[o]]
           /\ UNCHANGED <<fixed, loaded, loads, level, phase, arms, model, answers>>
           /\ phase[c] = "generating"
<1>1. PICK inert \in SUBSET hooks[model[c]] :
        LET n == PassLength(c)
            on == hooks[model[c]]
            changed == [o \in Owner |-> UNION {Mask(h, n) : h \in {g \in on \ inert : g.of = o}}]
        IN  /\ passes' = [passes EXCEPT ![c] = Append(@, [length |-> n, changed |-> changed])]
            /\ hooks' = [hooks EXCEPT ![model[c]] = {Advanced(h, n) : h \in on}]
            /\ trace' = [o \in Callers |->
                 IF o \in Owners(model[c])
                   THEN Append(trace[o], [length |-> n, steered |-> changed[o] # {}])
                   ELSE trace[o]]
  BY DEF ForwardPass
<1>. DEFINE n == PassLength(c)
            changed == [o \in Owner |->
              UNION {Mask(h, n) : h \in {g \in hooks[model[c]] \ inert : g.of = o}}]
            pass == [length |-> n, changed |-> changed]
<1>2. n \in {1, PromptLength} /\ n \in Nat /\ n <= PromptLength
  BY Constants DEF PassLength
<1>3. changed \in [Owner -> SUBSET Offsets]
  <2>1. 0..(n - 1) \subseteq Offsets
    BY <1>2, Constants DEF Offsets
  <2>2. \A h : Mask(h, n) \subseteq Offsets
    BY <2>1 DEF Mask
  <2>3. \A o \in Owner :
          UNION {Mask(h, n) : h \in {g \in hooks[model[c]] \ inert : g.of = o}} \in SUBSET Offsets
    BY <2>2
  <2>. QED  BY <2>3
<1>4. pass \in Pass
  BY <1>2, <1>3 DEF Pass
<1>5. /\ passes' = [passes EXCEPT ![c] = Append(@, pass)]
      /\ hooks' = [hooks EXCEPT ![model[c]] = {Advanced(h, n) : h \in hooks[model[c]]}]
      /\ trace' = [o \in Callers |->
           IF o \in Owners(model[c])
             THEN Append(trace[o], [length |-> n, steered |-> changed[o] # {}]) ELSE trace[o]]
  BY <1>1
<1>6. /\ UNCHANGED <<fixed, loaded, loads, level, phase, arms, model, answers>>
      /\ phase[c] = "generating"
  BY DEF ForwardPass
<1>7. /\ pass.length = n /\ pass.changed = changed
      /\ \A o \in Owner :
           changed[o] = UNION {Mask(h, n) : h \in {g \in hooks[model[c]] \ inert : g.of = o}}
  OBVIOUS
<1>8. \A o \in Callers : o \in Owner
  BY DEF Owner
<1>. HIDE DEF changed, pass
<1>9. trace' = [o \in Callers |->
        IF o \in Owners(model[c])
          THEN Append(trace[o], [length |-> pass.length, steered |-> pass.changed[o] # {}])
          ELSE trace[o]]
  BY <1>5, <1>7
<1>10. /\ pass.length = PassLength(c)
       /\ \A o \in Owner : pass.changed[o] =
            UNION {Mask(h, PassLength(c)) : h \in {g \in hooks[model[c]] \ inert : g.of = o}}
  BY <1>7
<1>. QED  BY <1>4, <1>5, <1>6, <1>9, <1>10

\* Masks are positions of the pass; a pass and its records have their types.
LEMMA ForwardPassTyped ==
  ASSUME Typed, NEW c \in Callers, ForwardPass(c)
  PROVE  Typed'
<1>1. PICK inert \in SUBSET hooks[model[c]], pass \in Pass :
        /\ passes' = [passes EXCEPT ![c] = Append(@, pass)]
        /\ hooks' = [hooks EXCEPT ![model[c]] = {Advanced(h, PassLength(c)) : h \in hooks[model[c]]}]
        /\ trace' = [o \in Callers |->
             IF o \in Owners(model[c])
               THEN Append(trace[o], [length |-> pass.length, steered |-> pass.changed[o] # {}])
               ELSE trace[o]]
        /\ UNCHANGED <<fixed, loaded, loads, level, phase, arms, model, answers>>
        /\ phase[c] = "generating"
  BY PassTaken
<1>2. passes' \in [Callers -> Seq(Pass)]
  BY <1>1 DEF Typed, TypeOK
<1>3. hooks' \in [Models -> SUBSET Hook]
  <2>1. model[c] \in Models /\ PassLength(c) \in {1, PromptLength}
    BY <1>1 DEF Typed, Shape, PassLength
  <2>2. \A h \in hooks[model[c]] : Advanced(h, PassLength(c)) \in Hook
    BY <2>1, AdvancedHook DEF Typed, TypeOK
  <2>. QED  BY <1>1, <2>2 DEF Typed, TypeOK
<1>4. trace' \in [Callers -> Seq(Trace)]
  <2>1. \A o \in Callers : [length |-> pass.length, steered |-> pass.changed[o] # {}] \in Trace
    BY DEF Trace, Pass
  <2>2. ASSUME NEW o \in Callers
        PROVE  Append(trace[o], [length |-> pass.length, steered |-> pass.changed[o] # {}]) \in Seq(Trace)
    <3>1. trace[o] \in Seq(Trace)
      BY DEF Typed, TypeOK
    <3>. QED  BY <2>1, <3>1
  <2>. QED  BY <1>1, <2>2 DEF Typed, TypeOK
<1>5. TypeOK'
  BY <1>1, <1>2, <1>3, <1>4 DEF Typed, TypeOK, fixed, Request, Result
<1>6. ASSUME NEW d \in Callers
      PROVE  Shape(d)'
  BY <1>1 DEF Typed, TypeOK, Shape, Arm, Accepted, LayerMatches, EngineeringLayer, fixed
<1>. QED  BY <1>5, <1>6 DEF Typed

LEMMA ResultTyped ==
  ASSUME Typed, NEW c \in Callers, phase[c] = "generating"
  PROVE  ResultOf(c) \in Result
<1>1. Arm(c) \in Request
  BY ArmIsARequest
<1>2. passes[c] \in Seq(Pass) /\ trace[c] \in Seq(Trace) /\ <<>> \in Seq(Trace)
  BY DEF Typed, TypeOK
<1>3. (Arm(c) # Baseline /\ Confirmed(Arm(c).positions, trace[c])) \in BOOLEAN
  OBVIOUS
<1>. QED  BY <1>1, <1>2, <1>3 DEF ResultOf, Result

\* Finitely many arms steer.
LEMMA SteeringFinite == \A m : IsFiniteSet(Steering(m)) /\ Cardinality(Steering(m)) \in Nat
<1>1. \A m : Steering(m) \subseteq Callers
  BY DEF Steering
<1>. QED  BY <1>1, Constants, FS_Subset, FS_CardinalityType

LEMMA UnhookTyped ==
  ASSUME Typed, Hooked, NEW c \in Callers, phase[c] = "generating", Unhook(c)
  PROVE  hooks' \in [Models -> SUBSET Hook] /\ level' \in [Models -> Nat]
<1>1. CASE Arm(c) = Baseline
  BY <1>1 DEF Unhook, Typed, TypeOK
<1>2. CASE Arm(c) # Baseline
  <2>0. model[c] \in Models /\ c \in Steering(model[c])
    BY <1>2 DEF Typed, Shape, Steering
  <2>1. Unhooked(c) \in SUBSET Hook
    <3>1. hooks[model[c]] \subseteq Hook
      BY <2>0 DEF Typed, TypeOK
    <3>2. \A h \in Hook : [h EXCEPT !.of = IF @ = c THEN Ended ELSE @] \in Hook
      BY DEF Hook, Owner
    <3>. QED  BY <3>1, <3>2 DEF Unhooked
  <2>2. Left(model[c]) \in Nat
    <3>1. level[model[c]] \in Nat
      BY <2>0 DEF Typed, TypeOK
    <3>2. Cardinality(Steering(model[c])) \in Nat \ {0}
      BY <2>0, SteeringFinite, FS_EmptySet
    <3>3. pairing = "gemma" => level[model[c]] # 0
      BY <2>0, <3>2 DEF Hooked, GemmaHooks
    <3>. QED  BY <3>1, <3>3 DEF Left
  <2>3. /\ hooks' = [hooks EXCEPT ![model[c]] = Unhooked(c)]
        /\ level' = [level EXCEPT ![model[c]] = Left(model[c])]
    BY <1>2 DEF Unhook
  <2>. QED  BY <2>1, <2>2, <2>3 DEF Typed, TypeOK
<1>. QED  BY <1>1, <1>2

LEMMA FinishArmTyped ==
  ASSUME Typed, Hooked, NEW c \in Callers, FinishArm(c)
  PROVE  Typed'
<1>1. arms[c] \in Seq(Request) /\ arms[c] # <<>> /\ phase[c] = "generating"
  BY DEF Typed, TypeOK, Shape, FinishArm
<1>2. /\ Tail(arms[c]) \in Seq(Request)
      /\ Len(arms[c]) = 1 <=> Tail(arms[c]) = <<>>
  <2>1. /\ Tail(arms[c]) \in Seq(Request) /\ Len(arms[c]) \in Nat
        /\ Len(Tail(arms[c])) = Len(arms[c]) - 1
    BY <1>1, HeadTailProperties, LenProperties
  <2>2. Tail(arms[c]) = <<>> <=> Len(Tail(arms[c])) = 0
    BY <2>1, EmptySeq
  <2>. QED  BY <2>1, <2>2
<1>3. Append(answers[c], ResultOf(c)) \in Seq(Result)
  BY <1>1, ResultTyped DEF Typed, TypeOK
<1>4. TypeOK'
  <2>1. arms' \in [Callers -> Seq(Request)] /\ answers' \in [Callers -> Seq(Result)]
    BY <1>2, <1>3 DEF FinishArm, Typed, TypeOK
  <2>2. hooks' \in [Models -> SUBSET Hook] /\ level' \in [Models -> Nat]
    BY UnhookTyped DEF FinishArm
  <2>3. /\ phase' \in [Callers -> Phases] /\ model' \in [Callers -> {0} \cup Models]
        /\ passes' \in [Callers -> Seq(Pass)] /\ trace' \in [Callers -> Seq(Trace)]
    <3>1. <<>> \in Seq(Pass) /\ <<>> \in Seq(Trace)
      OBVIOUS
    <3>2. \A ph \in {"idle", "ensure"} : ph \in Phases
      BY DEF Phases
    <3>. QED  BY <3>1, <3>2 DEF FinishArm, Typed, TypeOK
  <2>4. UNCHANGED <<pairing, alone, loaded, loads>>
    BY DEF FinishArm, fixed
  <2>. QED  BY <2>1, <2>2, <2>3, <2>4 DEF Typed, TypeOK, Request, Result
<1>5. ASSUME NEW d \in Callers
      PROVE  Shape(d)'
  <2>1. CASE d = c
    BY <1>1, <1>2, <2>1 DEF FinishArm, Typed, TypeOK, Shape
  <2>2. CASE d # c
    BY <2>2 DEF FinishArm, Typed, TypeOK, Shape, Arm, Accepted, LayerMatches, EngineeringLayer, fixed
  <2>. QED  BY <2>1, <2>2
<1>. QED  BY <1>4, <1>5 DEF Typed

LEMMA CallTyped ==
  ASSUME Typed, NEW c \in Callers, NEW r \in Steerings[pairing], Call(c, r)
  PROVE  Typed'
<1>1. ArmsOf(c, r) \in Seq(Request) /\ ArmsOf(c, r) # <<>>
  <2>1. r \in Request /\ Baseline \in Request
    BY DEF Request
  <2>2. <<r>> \in Seq(Request) /\ <<Baseline, r>> \in Seq(Request)
    BY <2>1
  <2>3. <<r>> # <<>> /\ <<Baseline, r>> # <<>>
    OBVIOUS
  <2>. QED  BY <2>2, <2>3 DEF ArmsOf
<1>2. TypeOK'
  <2>1. arms' \in [Callers -> Seq(Request)] /\ phase' \in [Callers -> Phases]
    BY <1>1 DEF Call, Typed, TypeOK, Phases
  <2>2. answers' \in [Callers -> Seq(Result)]
    BY DEF Call, Typed, TypeOK
  <2>3. alone' \in BOOLEAN
    BY DEF Call
  <2>. QED  BY <2>1, <2>2, <2>3 DEF Call, Typed, TypeOK, Request, Result
<1>3. ASSUME NEW d \in Callers
      PROVE  Shape(d)'
  <2>1. CASE d = c
    BY <1>1, <2>1 DEF Call, Idle, Typed, TypeOK, Shape
  <2>2. CASE d # c
    BY <2>2 DEF Call, Typed, TypeOK, Shape, Arm, Accepted, LayerMatches, EngineeringLayer
  <2>. QED  BY <2>1, <2>2
<1>. QED  BY <1>2, <1>3 DEF Typed

\* The hook a steered arm begins with.
NewHook(c) ==
  [of |-> c, positions |-> Arm(c).positions, level |-> Entered(model[c]), counter |-> 0]

LEMMA NewHookTyped ==
  ASSUME Typed, NEW c \in Callers, phase[c] = "ready", Arm(c) # Baseline
  PROVE  model[c] \in Models /\ Entered(model[c]) \in Nat /\ NewHook(c) \in Hook
<1>1. model[c] \in Models /\ level[model[c]] \in Nat
  BY DEF Typed, TypeOK, Shape
<1>2. Entered(model[c]) \in Nat
  BY <1>1 DEF Entered
<1>3. Arm(c).positions \in {"all", "generated_only"} /\ c \in Owner /\ 0 \in 0..PromptLength
  BY ArmIsARequest, Constants DEF Owner
<1>. QED  BY <1>1, <1>2, <1>3 DEF NewHook, Hook

LEMMA BeginGenerateTyped ==
  ASSUME Typed, NEW c \in Callers, BeginGenerate(c)
  PROVE  Typed'
<1>1. phase[c] = "ready" /\ LayerMatches(Arm(c)) /\ model[c] \in Models /\ Accepted(Arm(c))
  BY DEF BeginGenerate, Typed, Shape
<1>2. /\ hooks' \in [Models -> SUBSET Hook] /\ level' \in [Models -> Nat]
      /\ trace' \in [Callers -> Seq(Trace)]
  <2>1. CASE Arm(c) = Baseline
    BY <2>1 DEF BeginGenerate, Typed, TypeOK
  <2>2. CASE Arm(c) # Baseline
    <3>1. /\ hooks' = [hooks EXCEPT ![model[c]] = @ \cup {NewHook(c)}]
          /\ level' = [level EXCEPT ![model[c]] = Entered(model[c])]
          /\ trace' = [trace EXCEPT ![c] = <<>>]
      BY <2>2 DEF BeginGenerate, NewHook
    <3>2. NewHook(c) \in Hook /\ Entered(model[c]) \in Nat
      BY <1>1, <2>2, NewHookTyped
    <3>3. hooks[model[c]] \cup {NewHook(c)} \in SUBSET Hook
      BY <1>1, <3>2 DEF Typed, TypeOK
    <3>4. <<>> \in Seq(Trace)
      OBVIOUS
    <3>. QED  BY <3>1, <3>2, <3>3, <3>4 DEF Typed, TypeOK
  <2>. QED  BY <2>1, <2>2
<1>3. UNCHANGED <<pairing, alone, loaded, loads, arms, model, passes, answers>>
      /\ phase' = [phase EXCEPT ![c] = "generating"]
  BY DEF BeginGenerate, fixed
<1>. QED  BY <1>1, <1>2, <1>3, MoveTyped DEF Typed, TypeOK, Phases

LEMMA NextTyped ==
  ASSUME Typed, Hooked, Next
  PROVE  Typed'
<1>1. ASSUME NEW c \in Callers, NEW r \in Steerings[pairing], Call(c, r)
      PROVE  Typed'
  BY <1>1, CallTyped
<1>2. ASSUME NEW c \in Callers, RefuseRequest(c) \/ FailLoad(c) \/ RefusePrepared(c)
      PROVE  Typed'
  BY <1>2, RaiseTyped DEF RefuseRequest, FailLoad, RefusePrepared, fixed, Typed, TypeOK
<1>3. ASSUME NEW c \in Callers, BeginLoad(c)
      PROVE  Typed'
  BY <1>3, MoveTyped DEF BeginLoad, fixed, Typed, TypeOK, Phases
<1>4. ASSUME NEW c \in Callers, FinishLoad(c)
      PROVE  Typed'
  <2>1. loads' \in 0..MaxLoads[pairing] /\ loaded' \in 0..MaxLoads[pairing]
    BY <1>4, Constants DEF FinishLoad, Typed, TypeOK
  <2>. QED  BY <1>4, <2>1, MoveTyped DEF FinishLoad, fixed, Typed, TypeOK, Phases
<1>5. ASSUME NEW c \in Callers, TakeLoaded(c)
      PROVE  Typed'
  <2>1. loaded \in Models /\ model' \in [Callers -> {0} \cup Models] /\ model'[c] = loaded
        /\ \A d \in Callers : d # c => model'[d] = model[d]
    BY <1>5, Constants DEF TakeLoaded, Typed, TypeOK
  <2>. QED  BY <1>5, <2>1, MoveTyped DEF TakeLoaded, fixed, Typed, TypeOK, Phases
<1>6. ASSUME NEW c \in Callers, FailArm(c)
      PROVE  Typed'
  <2>1. trace' \in [Callers -> Seq(Trace)]
    <3>1. <<>> \in Seq(Trace)
      OBVIOUS
    <3>. QED  BY <1>6, <3>1 DEF FailArm, Typed, TypeOK
  <2>. QED  BY <1>6, <2>1, UnhookTyped, RaiseTyped DEF FailArm, fixed
<1>. QED  BY <1>1, <1>2, <1>3, <1>4, <1>5, <1>6, BeginGenerateTyped, ForwardPassTyped,
             FinishArmTyped DEF Next, Advance

LEMMA StutterTyped ==
  ASSUME Typed, UNCHANGED vars
  PROVE  Typed'
<1>1. TypeOK'
  BY DEF Typed, TypeOK, vars, Request, Result
<1>2. \A c \in Callers : Shape(c)'
  BY DEF Typed, Shape, vars, Arm, Accepted, LayerMatches, EngineeringLayer
<1>. QED  BY <1>1, <1>2 DEF Typed

-------------------------------------------------------------------------------
(* Hooks. *)

\* A step that begins and ends no steered arm.
LEMMA SteeringKept ==
  ASSUME \A d \in Callers : /\ phase'[d] = "generating" <=> phase[d] = "generating"
                            /\ phase[d] = "generating" => arms'[d] = arms[d] /\ model'[d] = model[d]
  PROVE  \A m \in Models : Steering(m)' = Steering(m)
BY DEF Steering, Arm

\* A step that neither hooks nor unhooks either.
LEMMA HooksKept ==
  ASSUME Hooked, UNCHANGED <<pairing, hooks, level>>, \A m \in Models : Steering(m)' = Steering(m)
  PROVE  Hooked'
BY DEF Hooked, QwenHooks, GemmaHooks

LEMMA ForwardPassHooks ==
  ASSUME Typed, Hooked, NEW c \in Callers, ForwardPass(c)
  PROVE  Hooked'
<1>1. /\ hooks' = [hooks EXCEPT ![model[c]] = {Advanced(h, PassLength(c)) : h \in hooks[model[c]]}]
      /\ UNCHANGED <<pairing, level, phase, arms, model>>
  BY PassTaken DEF fixed
<1>2. ASSUME NEW m \in Models
      PROVE  QwenHooks(m)' /\ GemmaHooks(m)'
  <2>1. Steering(m)' = Steering(m)
    BY <1>1 DEF Steering, Arm
  <2>2. QwenHooks(m) /\ GemmaHooks(m)
    BY DEF Hooked
  <2>3. CASE m # model[c]
    <3>1. hooks'[m] = hooks[m] /\ level' = level /\ pairing' = pairing
      BY <1>1, <2>3 DEF Typed, TypeOK
    <3>. QED  BY <2>1, <2>2, <3>1 DEF QwenHooks, GemmaHooks
  <2>4. CASE m = model[c]
    <3>1. /\ hooks'[m] = {Advanced(h, PassLength(c)) : h \in hooks[m]}
          /\ level' = level /\ pairing' = pairing
      BY <1>1, <2>4 DEF Typed, TypeOK
    <3>2. \A h \in hooks[m] : /\ Advanced(h, PassLength(c)).of = h.of
                              /\ Advanced(h, PassLength(c)).level = h.level
      <4>1. hooks[m] \subseteq Hook /\ PassLength(c) \in {1, PromptLength}
        BY DEF Typed, TypeOK, PassLength
      <4>. QED  BY <4>1, AdvancedHook
    <3>. QED  BY <2>1, <2>2, <3>1, <3>2 DEF QwenHooks, GemmaHooks
  <2>. QED  BY <2>3, <2>4
<1>. QED  BY <1>2 DEF Hooked

\* A steered arm adds its hook, on Gemma at a level no hook of the model is of.
LEMMA BeginGenerateHooks ==
  ASSUME Typed, Hooked, NEW c \in Callers, BeginGenerate(c)
  PROVE  Hooked'
<1>1. /\ model[c] \in Models /\ phase[c] = "ready" /\ UNCHANGED <<arms, model, pairing>>
      /\ phase' = [phase EXCEPT ![c] = "generating"]
  BY DEF BeginGenerate, Typed, Shape, fixed
<1>2. \A d \in Callers : phase'[d] = IF d = c THEN "generating" ELSE phase[d]
  BY <1>1 DEF Typed, TypeOK
<1>3. CASE Arm(c) = Baseline
  <2>1. hooks' = hooks /\ level' = level
    BY <1>3 DEF BeginGenerate
  <2>2. \A m \in Models : Steering(m)' = Steering(m)
    BY <1>1, <1>2, <1>3 DEF Steering, Arm
  <2>. QED  BY <1>1, <2>1, <2>2, HooksKept
<1>4. CASE Arm(c) # Baseline
  <2>. DEFINE h0 == NewHook(c)
  <2>1. /\ hooks' = [hooks EXCEPT ![model[c]] = @ \cup {h0}]
        /\ level' = [level EXCEPT ![model[c]] = Entered(model[c])]
    BY <1>4 DEF BeginGenerate, NewHook
  <2>2. h0.of = c /\ h0.level = Entered(model[c])
    BY DEF NewHook
  <2>. HIDE DEF h0
  <2>3. ASSUME NEW m \in Models
        PROVE  QwenHooks(m)' /\ GemmaHooks(m)'
    <3>1. QwenHooks(m) /\ GemmaHooks(m)
      BY DEF Hooked
    <3>2. CASE m # model[c]
      <4>1. hooks'[m] = hooks[m] /\ level'[m] = level[m] /\ pairing' = pairing
        BY <1>1, <2>1, <3>2 DEF Typed, TypeOK
      <4>2. Steering(m)' = Steering(m)
        BY <1>1, <1>2, <3>2 DEF Steering, Arm
      <4>. QED  BY <3>1, <4>1, <4>2 DEF QwenHooks, GemmaHooks
    <3>3. CASE m = model[c]
      <4>1. /\ hooks'[m] = hooks[m] \cup {h0} /\ level'[m] = Entered(m)
            /\ h0.level = Entered(m) /\ pairing' = pairing
        BY <1>1, <2>1, <2>2, <3>3 DEF Typed, TypeOK
      <4>2. Steering(m)' = Steering(m) \cup {c} /\ c \notin Steering(m)
        BY <1>1, <1>2, <1>4, <3>3 DEF Steering, Arm
      <4>3. QwenHooks(m)'
        BY <2>2, <3>1, <4>1, <4>2 DEF QwenHooks
      <4>4. GemmaHooks(m)'
        <5>1. CASE pairing = "gemma"
          <6>1. Entered(m) = level[m] + 1 /\ level[m] \in Nat
            BY <5>1 DEF Entered, Typed, TypeOK
          <6>2. Cardinality(Steering(m)') = Cardinality(Steering(m)) + 1
            BY <4>2, SteeringFinite, FS_AddElement
          <6>3. \A h \in hooks[m] : h.level \in 1..level[m]
            BY <3>1, <5>1 DEF GemmaHooks
          <6>4. \A h \in hooks'[m] : h.level \in 1..level'[m]
            BY <4>1, <6>1, <6>3
          <6>5. \A l \in 1..level'[m] : \E h \in hooks'[m] : h.level = l
            <7>1. \A l \in 1..level'[m] : l = level[m] + 1 \/ l \in 1..level[m]
              BY <4>1, <6>1
            <7>. QED  BY <3>1, <4>1, <5>1, <6>1, <7>1 DEF GemmaHooks
          <6>6. \A g, h \in hooks'[m] : g.level = h.level => g = h
            <7>1. \A g \in hooks[m] : g.level # h0.level
              BY <4>1, <6>1, <6>3
            <7>. QED  BY <3>1, <4>1, <5>1, <7>1 DEF GemmaHooks
          <6>. QED  BY <3>1, <4>1, <5>1, <6>1, <6>2, <6>4, <6>5, <6>6 DEF GemmaHooks
        <5>. QED  BY <4>1, <5>1 DEF GemmaHooks
      <4>. QED  BY <4>3, <4>4
    <3>. QED  BY <3>2, <3>3
  <2>. QED  BY <2>3 DEF Hooked
<1>. QED  BY <1>3, <1>4

\* A steered arm takes a hook away, its own on Qwen, the latest on Gemma.
LEMMA UnhookHooks ==
  ASSUME Typed, Hooked, NEW c \in Callers, FinishArm(c) \/ FailArm(c)
  PROVE  Hooked'
<1>1. /\ phase[c] = "generating" /\ phase'[c] # "generating" /\ Unhook(c) /\ pairing' = pairing
      /\ \A d \in Callers : d # c => phase'[d] = phase[d] /\ arms'[d] = arms[d] /\ model'[d] = model[d]
  BY DEF FinishArm, FailArm, Raise, Typed, TypeOK, fixed
<1>2. model[c] \in Models
  BY <1>1 DEF Typed, Shape
<1>3. CASE Arm(c) = Baseline
  <2>1. hooks' = hooks /\ level' = level
    BY <1>1, <1>3 DEF Unhook
  <2>2. \A m \in Models : Steering(m)' = Steering(m)
    BY <1>1, <1>3 DEF Steering, Arm
  <2>. QED  BY <1>1, <2>1, <2>2, HooksKept
<1>4. CASE Arm(c) # Baseline
  <2>1. /\ hooks' = [hooks EXCEPT ![model[c]] = Unhooked(c)]
        /\ level' = [level EXCEPT ![model[c]] = Left(model[c])]
    BY <1>1, <1>4 DEF Unhook
  <2>2. ASSUME NEW m \in Models
        PROVE  QwenHooks(m)' /\ GemmaHooks(m)'
    <3>1. QwenHooks(m) /\ GemmaHooks(m)
      BY DEF Hooked
    <3>2. CASE m # model[c]
      <4>1. hooks'[m] = hooks[m] /\ level'[m] = level[m] /\ pairing' = pairing
        BY <1>1, <2>1, <3>2 DEF Typed, TypeOK
      <4>2. Steering(m)' = Steering(m)
        BY <1>1, <3>2 DEF Steering, Arm
      <4>. QED  BY <3>1, <4>1, <4>2 DEF QwenHooks, GemmaHooks
    <3>3. CASE m = model[c]
      <4>1. hooks'[m] = Unhooked(c) /\ level'[m] = Left(m) /\ pairing' = pairing
        BY <1>1, <1>2, <2>1, <3>3 DEF Typed, TypeOK
      <4>2. Steering(m)' = Steering(m) \ {c} /\ c \in Steering(m)
        BY <1>1, <1>4, <3>3 DEF Steering, Arm
      <4>3. QwenHooks(m)'
        <5>1. CASE pairing = "qwen"
          <6>1. hooks'[m] = {h \in hooks[m] : h.of # c}
            BY <3>3, <4>1, <5>1 DEF Unhooked
          <6>. QED  BY <3>1, <4>2, <5>1, <6>1 DEF QwenHooks
        <5>. QED  BY <4>1, <5>1 DEF QwenHooks
      <4>4. GemmaHooks(m)'
        <5>1. CASE pairing = "gemma"
          <6>. DEFINE Kept(h) == [h EXCEPT !.of = IF @ = c THEN Ended ELSE @]
          <6>1. hooks'[m] = {Kept(h) : h \in {g \in hooks[m] : g.level # level[m]}}
            BY <3>3, <4>1, <5>1 DEF Unhooked
          <6>2. \A h \in hooks[m] : Kept(h).level = h.level
            BY DEF Hook, Typed, TypeOK
          <6>. HIDE DEF Kept
          <6>3. level[m] \in Nat /\ level'[m] = level[m] - 1 /\ level[m] = Cardinality(Steering(m))
            BY <3>1, <4>1, <5>1 DEF Left, GemmaHooks, Typed, TypeOK
          <6>4. Cardinality(Steering(m)') = level'[m]
            BY <4>2, <6>3, SteeringFinite, FS_RemoveElement
          <6>5. \A h \in hooks[m] : h.level \in 1..level[m]
            BY <3>1, <5>1 DEF GemmaHooks
          <6>6. \A h \in hooks'[m] : h.level \in 1..level'[m]
            <7>1. \A h \in hooks[m] : h.level # level[m] => h.level \in 1..(level[m] - 1)
              BY <6>3, <6>5
            <7>. QED  BY <6>1, <6>2, <6>3, <7>1
          <6>7. ASSUME NEW l \in 1..level'[m]
                PROVE  \E h \in hooks'[m] : h.level = l
            <7>1. l \in 1..level[m] /\ l # level[m]
              BY <6>3
            <7>2. PICK h \in hooks[m] : h.level = l
              BY <3>1, <5>1, <7>1 DEF GemmaHooks
            <7>. QED  BY <6>1, <6>2, <7>1, <7>2
          <6>8. \A g, h \in hooks'[m] : g.level = h.level => g = h
            BY <3>1, <5>1, <6>1, <6>2 DEF GemmaHooks
          <6>. QED  BY <4>1, <5>1, <6>4, <6>6, <6>7, <6>8 DEF GemmaHooks
        <5>. QED  BY <4>1, <5>1 DEF GemmaHooks
      <4>. QED  BY <4>3, <4>4
    <3>. QED  BY <3>2, <3>3
  <2>. QED  BY <2>2 DEF Hooked
<1>. QED  BY <1>3, <1>4

LEMMA HooksStep ==
  ASSUME Typed, Hooked, Next
  PROVE  Hooked'
<1>1. ASSUME NEW c \in Callers, NEW r \in Steerings[pairing], Call(c, r)
      PROVE  Hooked'
  BY <1>1, SteeringKept, HooksKept DEF Call, Idle, Typed, TypeOK
<1>2. ASSUME NEW c \in Callers, RefuseRequest(c) \/ FailLoad(c) \/ RefusePrepared(c)
      PROVE  Hooked'
  BY <1>2, SteeringKept, HooksKept DEF RefuseRequest, FailLoad, RefusePrepared, Raise, Typed, TypeOK, fixed
<1>3. ASSUME NEW c \in Callers, BeginLoad(c) \/ FinishLoad(c) \/ TakeLoaded(c)
      PROVE  Hooked'
  BY <1>3, SteeringKept, HooksKept DEF BeginLoad, FinishLoad, TakeLoaded, Typed, TypeOK, fixed
<1>. QED  BY <1>1, <1>2, <1>3, ForwardPassHooks, BeginGenerateHooks, UnhookHooks DEF Next, Advance

\* The typing lemmas and the hooks' together: each phase of a call keeps what the checks
\* before it established, and there are as many hooks as steered arms.
LEMMA TypedInvariant == Spec => [](Typed /\ Hooked)
<1>1. Init => Hooked
  <2>1. ASSUME Init, NEW m \in Models
        PROVE  hooks[m] = {} /\ level[m] = 0 /\ Steering(m) = {}
    BY <2>1 DEF Init, Steering
  <2>2. Cardinality({}) = 0 /\ 1..0 = {}
    BY FS_EmptySet
  <2>. QED  BY <2>1, <2>2 DEF Hooked, QwenHooks, GemmaHooks
<1>2. Hooked /\ UNCHANGED vars => Hooked'
  BY SteeringKept, HooksKept DEF vars
<1>3. Typed /\ Hooked /\ [Next]_vars => Typed' /\ Hooked'
  BY <1>2, HooksStep, NextTyped, StutterTyped
<1>. QED  BY <1>1, <1>3, InitTyped, PTL DEF Spec

\* Requests, hooks, passes, traces and answers keep their types.
THEOREM BackendTypeCorrect == Spec => []TypeOK
<1>1. Typed => TypeOK
  BY DEF Typed
<1>. QED  BY <1>1, TypedInvariant, PTL

\* "finally: handle.remove()" and the contexts of model.hooks: however many calls overlap
\* and however they end, a model has as many hooks as steered arms generate on it, on Qwen
\* their own.
THEOREM HooksMatchArms == Spec => []HooksMatchRunningArms
<1>1. ASSUME Typed, Hooked, NEW m \in Models
      PROVE  /\ Cardinality(hooks[m]) = Cardinality(Steering(m))
             /\ pairing = "qwen" => Owners(m) = Steering(m)
  <2>1. IsFiniteSet(Steering(m)) /\ QwenHooks(m) /\ GemmaHooks(m) /\ level[m] \in Nat
    BY <1>1, SteeringFinite DEF Hooked, Typed, TypeOK
  <2>2. CASE pairing = "qwen"
    <3>. DEFINE f == [h \in hooks[m] |-> h.of]
    <3>1. f \in Bijection(hooks[m], Steering(m))
      BY <2>1, <2>2 DEF QwenHooks, Bijection, Injection, Surjection, IsInjective
    <3>2. ExistsBijection(Steering(m), hooks[m])
      BY <3>1, Fun_ExistsBijSymmetric DEF ExistsBijection
    <3>3. Cardinality(hooks[m]) = Cardinality(Steering(m))
      BY <2>1, <3>2, FS_Bijection
    <3>4. Owners(m) = Steering(m)
      BY <2>1, <2>2 DEF QwenHooks, Owners
    <3>. QED  BY <3>3, <3>4
  <2>3. CASE pairing = "gemma"
    <3>. DEFINE f == [h \in hooks[m] |-> h.level]
    <3>0. /\ \A h \in hooks[m] : h.level \in 1..level[m]
          /\ \A l \in 1..level[m] : \E h \in hooks[m] : h.level = l
          /\ \A g, h \in hooks[m] : g.level = h.level => g = h
      BY <2>1, <2>3 DEF GemmaHooks
    <3>1. f \in Bijection(hooks[m], 1..level[m])
      <4>1. f \in [hooks[m] -> 1..level[m]]
        BY <3>0
      <4>2. f \in Injection(hooks[m], 1..level[m])
        BY <3>0, <4>1 DEF Injection, IsInjective
      <4>3. f \in Surjection(hooks[m], 1..level[m])
        BY <3>0, <4>1 DEF Surjection
      <4>. QED  BY <4>2, <4>3 DEF Bijection
    <3>2. ExistsBijection(1..level[m], hooks[m])
      BY <3>1, Fun_ExistsBijSymmetric DEF ExistsBijection
    <3>3. Cardinality(hooks[m]) = level[m]
      BY <2>1, <3>2, FS_CountingElements
    <3>. QED  BY <2>1, <2>3, <3>3 DEF GemmaHooks
  <2>. QED  BY <1>1, <2>2, <2>3, BackendConstants DEF Typed, TypeOK
<1>2. Typed /\ Hooked => HooksMatchRunningArms
  BY <1>1 DEF HooksMatchRunningArms
<1>. QED  BY <1>2, TypedInvariant, PTL

-------------------------------------------------------------------------------
(* The hooks of a call no other overlaps. *)

\* While calls have not overlapped, at most one is running.
OneRuns == alone => \A c, d \in Callers : phase[c] # "idle" /\ phase[d] # "idle" => c = d

\* Then the hooks on the model of its arm are the arm's own, untouched before its first pass.
OwnHooks(c) ==
  alone /\ phase[c] = "generating" =>
    /\ \A h \in hooks[model[c]] : /\ h.of = c /\ Arm(c) # Baseline /\ h.positions = Arm(c).positions
                                  /\ passes[c] = <<>> => h.counter = 0
    /\ Arm(c) # Baseline => c \in Owners(model[c])

LoneHooks == OneRuns /\ \A c \in Callers : OwnHooks(c)

\* A step of a lone call finds, and leaves, every other call idle.
LEMMA OthersIdle ==
  ASSUME Typed, OneRuns, NEW c \in Callers, Advance(c), alone'
  PROVE  /\ alone /\ phase[c] # "idle"
         /\ \A d \in Callers : d # c => phase[d] = "idle" /\ phase'[d] = "idle"
         /\ \A d \in Callers : d # c => passes'[d] = <<>> /\ answers'[d] = answers[d]
<1>1. alone /\ phase[c] # "idle"
  BY DEF Advance, RefuseRequest, BeginLoad, FinishLoad, FailLoad, TakeLoaded, RefusePrepared,
         BeginGenerate, ForwardPass, FinishArm, FailArm, fixed
<1>2. \A d \in Callers : d # c => phase[d] = "idle"
  BY <1>1 DEF OneRuns
<1>3. \A d \in Callers : d # c => phase'[d] = phase[d]
  BY DEF Advance, RefuseRequest, BeginLoad, FinishLoad, FailLoad, TakeLoaded, RefusePrepared, Raise,
         BeginGenerate, ForwardPass, FinishArm, FailArm, Typed, TypeOK
<1>4. \A d \in Callers : d # c => passes'[d] = passes[d] /\ answers'[d] = answers[d]
  BY DEF Advance, RefuseRequest, BeginLoad, FinishLoad, FailLoad, TakeLoaded, RefusePrepared, Raise,
         BeginGenerate, ForwardPass, FinishArm, FailArm, Typed, TypeOK
<1>. QED  BY <1>1, <1>2, <1>3, <1>4 DEF Typed, Shape

\* A lone arm begins on a model nothing is hooked on.
LEMMA NothingHooked ==
  ASSUME Typed, Hooked, OneRuns, alone, NEW c \in Callers, phase[c] = "ready"
  PROVE  hooks[model[c]] = {}
<1>1. model[c] \in Models /\ Steering(model[c]) = {}
  BY DEF Typed, Shape, OneRuns, Steering
<1>2. QwenHooks(model[c]) /\ GemmaHooks(model[c])
  BY <1>1 DEF Hooked
<1>3. CASE pairing = "qwen"
  BY <1>1, <1>2, <1>3 DEF QwenHooks
<1>4. CASE pairing = "gemma"
  <2>1. level[model[c]] = 0
    BY <1>1, <1>2, <1>4, FS_EmptySet DEF GemmaHooks
  <2>. QED  BY <1>2, <1>4, <2>1 DEF GemmaHooks
<1>. QED  BY <1>3, <1>4, BackendConstants DEF Typed, TypeOK

LEMMA BeginGenerateOwn ==
  ASSUME Typed, Hooked, OneRuns, NEW c \in Callers, BeginGenerate(c)
  PROVE  OwnHooks(c)'
<1>1. /\ phase[c] = "ready" /\ model[c] \in Models /\ hooks' \in [Models -> SUBSET Hook]
      /\ UNCHANGED <<alone, arms, model, passes>> /\ hooks[model[c]] \subseteq Hook
  BY BeginGenerateTyped DEF BeginGenerate, Typed, TypeOK, Shape, fixed
<1>2. alone' => hooks[model[c]] = {}
  BY <1>1, NothingHooked
<1>3. CASE Arm(c) = Baseline
  <2>1. hooks' = hooks /\ Arm(c)' = Baseline
    BY <1>1, <1>3 DEF BeginGenerate, Arm
  <2>. QED  BY <1>1, <1>2, <2>1 DEF OwnHooks
<1>4. CASE Arm(c) # Baseline
  <2>1. hooks'[model[c]] = hooks[model[c]] \cup {NewHook(c)}
    BY <1>1, <1>4 DEF BeginGenerate, NewHook, Typed, TypeOK
  <2>2. /\ NewHook(c).of = c /\ NewHook(c).counter = 0
        /\ NewHook(c).positions = Arm(c).positions /\ Arm(c)' = Arm(c)
    BY <1>1 DEF NewHook, Arm
  <2>. QED  BY <1>1, <1>2, <1>4, <2>1, <2>2 DEF OwnHooks, Owners
<1>. QED  BY <1>3, <1>4

LEMMA ForwardPassOwn ==
  ASSUME Typed, LoneHooks, NEW c \in Callers, ForwardPass(c)
  PROVE  OwnHooks(c)'
<1>1. PICK pass \in Pass :
        /\ passes' = [passes EXCEPT ![c] = Append(@, pass)]
        /\ hooks' = [hooks EXCEPT ![model[c]] = {Advanced(h, PassLength(c)) : h \in hooks[model[c]]}]
        /\ UNCHANGED <<alone, phase, arms, model>> /\ phase[c] = "generating"
  BY PassTaken DEF fixed
<1>2. passes'[c] # <<>>
  <2>1. passes[c] \in Seq(Pass) /\ passes'[c] = Append(passes[c], pass)
    BY <1>1 DEF Typed, TypeOK
  <2>2. Len(passes'[c]) = Len(passes[c]) + 1 /\ Len(passes[c]) \in Nat
    BY <2>1
  <2>. QED  BY <2>2, EmptySeq
<1>3. hooks'[model[c]] = {Advanced(h, PassLength(c)) : h \in hooks[model[c]]}
  BY <1>1 DEF Typed, TypeOK, Shape
<1>4. \A h \in hooks[model[c]] : /\ Advanced(h, PassLength(c)).of = h.of
                                 /\ Advanced(h, PassLength(c)).positions = h.positions
  <2>1. hooks[model[c]] \subseteq Hook /\ PassLength(c) \in {1, PromptLength}
    BY <1>1 DEF Typed, TypeOK, Shape, PassLength
  <2>. QED  BY <2>1, AdvancedHook
<1>5. OwnHooks(c) /\ Arm(c)' = Arm(c)
  BY <1>1 DEF LoneHooks, Arm
<1>. QED  BY <1>1, <1>2, <1>3, <1>4, <1>5 DEF OwnHooks, Owners

LEMMA LoneHooksStep ==
  ASSUME Typed, Hooked, LoneHooks, [Next]_vars
  PROVE  LoneHooks'
<1>1. CASE UNCHANGED vars
  BY <1>1 DEF vars, LoneHooks, OneRuns, OwnHooks, Owners, Arm
<1>2. ASSUME NEW c \in Callers, NEW r \in Steerings[pairing], Call(c, r)
      PROVE  LoneHooks'
  <2>1. alone' => \A d \in Callers : phase'[d] = IF d = c THEN "ensure" ELSE "idle"
    BY <1>2 DEF Call, Idle, Typed, TypeOK
  <2>. QED  BY <2>1 DEF LoneHooks, OneRuns, OwnHooks
<1>3. ASSUME NEW c \in Callers, Advance(c)
      PROVE  LoneHooks'
  <2>1. CASE ~alone'
    BY <2>1 DEF LoneHooks, OneRuns, OwnHooks
  <2>2. CASE alone'
    <3>1. \A d \in Callers : d # c => phase'[d] = "idle"
      BY <1>3, <2>2, OthersIdle DEF LoneHooks
    <3>2. OwnHooks(c)'
      <4>1. CASE BeginGenerate(c) \/ ForwardPass(c)
        BY <4>1, BeginGenerateOwn, ForwardPassOwn DEF LoneHooks
      <4>2. CASE ~(BeginGenerate(c) \/ ForwardPass(c))
        <5>1. phase'[c] # "generating"
          BY <1>3, <4>2 DEF Advance, RefuseRequest, BeginLoad, FinishLoad, FailLoad, TakeLoaded,
                            RefusePrepared, Raise, FinishArm, FailArm, Typed, TypeOK
        <5>. QED  BY <5>1 DEF OwnHooks
      <4>. QED  BY <4>1, <4>2
    <3>3. OneRuns'
      BY <3>1 DEF OneRuns
    <3>4. \A d \in Callers : OwnHooks(d)'
      BY <3>1, <3>2 DEF OwnHooks
    <3>. QED  BY <3>3, <3>4 DEF LoneHooks
  <2>. QED  BY <2>1, <2>2
<1>. QED  BY <1>1, <1>2, <1>3 DEF Next

LEMMA HookInvariant == Spec => [](Typed /\ Hooked /\ LoneHooks)
<1>1. Init => LoneHooks
  BY DEF Init, LoneHooks, OneRuns, OwnHooks
<1>. QED  BY <1>1, LoneHooksStep, TypedInvariant, PTL DEF Spec

-------------------------------------------------------------------------------
(* Verdicts. *)

Steered(c) == phase[c] = "generating" /\ Arm(c) # Baseline

\* The calls whose hooks are on their models as long as they run.
Trusted == pairing = "qwen" \/ alone

LEMMA HookIsOn ==
  ASSUME Typed, Hooked, LoneHooks, Trusted, NEW c \in Callers, Steered(c)
  PROVE  c \in Owners(model[c])
<1>1. model[c] \in Models /\ c \in Steering(model[c])
  BY DEF Steered, Typed, Shape, Steering
<1>2. CASE pairing = "qwen"
  BY <1>1, <1>2 DEF Hooked, QwenHooks, Owners
<1>3. CASE alone
  BY <1>3 DEF LoneHooks, OwnHooks, Steered
<1>. QED  BY <1>2, <1>3 DEF Trusted

\* Calls that overlap on Gemma are trusted again only once all of them are over.
LEMMA TrustGained ==
  ASSUME Typed, [Next]_vars, Trusted', ~Trusted
  PROVE  \A d \in Callers : answers'[d] = <<>> /\ phase'[d] # "generating"
<1>1. ASSUME NEW c \in Callers, Advance(c)
      PROVE  FALSE
  BY <1>1 DEF Trusted, Advance, RefuseRequest, BeginLoad, FinishLoad, FailLoad, TakeLoaded,
              RefusePrepared, BeginGenerate, ForwardPass, FinishArm, FailArm, fixed
<1>2. ASSUME NEW c \in Callers, NEW r \in Steerings[pairing], Call(c, r)
      PROVE  \A d \in Callers : answers'[d] = <<>> /\ phase'[d] # "generating"
  <2>1. \A d \in Callers : phase[d] = "idle"
    BY <1>2 DEF Call, Idle, Trusted
  <2>. QED  BY <1>2, <2>1 DEF Call, Idle, Typed, TypeOK
<1>3. ~UNCHANGED vars
  BY DEF vars, Trusted
<1>. QED  BY <1>1, <1>2, <1>3 DEF Next

\* One forward pass, as its caller and the other calls see it.
LEMMA PassRecorded ==
  ASSUME Typed, Hooked, LoneHooks, NEW c \in Callers, ForwardPass(c)
  PROVE  /\ UNCHANGED <<fixed, loaded, loads, level, phase, arms, model, answers>>
         /\ phase[c] = "generating"
         /\ \A d \in Callers : d # c => passes'[d] = passes[d]
         /\ \A d \in Callers : d # c =>
              trace'[d] = trace[d] \/ \E rec \in Trace : trace'[d] = Append(trace[d], rec)
         /\ \E pass \in Pass :
              /\ pass.length = PassLength(c) /\ passes'[c] = Append(passes[c], pass)
              /\ \E inert \in SUBSET hooks[model[c]] : \A o \in Owner : pass.changed[o] =
                   UNION {Mask(h, PassLength(c)) : h \in {g \in hooks[model[c]] \ inert : g.of = o}}
              /\ Trusted /\ Steered(c) =>
                   trace'[c] = Append(trace[c], [length |-> pass.length, steered |-> pass.changed[c] # {}])
<1>1. PICK inert \in SUBSET hooks[model[c]], pass \in Pass :
        /\ pass.length = PassLength(c)
        /\ \A o \in Owner : pass.changed[o] =
             UNION {Mask(h, PassLength(c)) : h \in {g \in hooks[model[c]] \ inert : g.of = o}}
        /\ passes' = [passes EXCEPT ![c] = Append(@, pass)]
        /\ hooks' = [hooks EXCEPT ![model[c]] = {Advanced(h, PassLength(c)) : h \in hooks[model[c]]}]
        /\ trace' = [o \in Callers |->
             IF o \in Owners(model[c])
               THEN Append(trace[o], [length |-> pass.length, steered |-> pass.changed[o] # {}])
               ELSE trace[o]]
        /\ UNCHANGED <<fixed, loaded, loads, level, phase, arms, model, answers>>
        /\ phase[c] = "generating"
  BY PassTaken
<1>2. \A o \in Callers : [length |-> pass.length, steered |-> pass.changed[o] # {}] \in Trace
  BY DEF Trace, Pass
<1>3. /\ \A d \in Callers : d # c => passes'[d] = passes[d]
      /\ passes'[c] = Append(passes[c], pass)
  BY <1>1 DEF Typed, TypeOK
<1>4. \A d \in Callers : d # c =>
        trace'[d] = trace[d] \/ \E rec \in Trace : trace'[d] = Append(trace[d], rec)
  BY <1>1, <1>2
<1>5. Trusted /\ Steered(c) =>
        trace'[c] = Append(trace[c], [length |-> pass.length, steered |-> pass.changed[c] # {}])
  BY <1>1, HookIsOn
<1>. QED  BY <1>1, <1>3, <1>4, <1>5

\* What RecordedStep needs of the call's own pass.
LEMMA OwnPassRecorded ==
  ASSUME Typed, Hooked, LoneHooks, Trusted, NEW c \in Callers, Steered(c), ForwardPass(c)
  PROVE  \E pass \in Pass :
           /\ passes'[c] = Append(passes[c], pass)
           /\ trace'[c] = Append(trace[c], [length |-> pass.length, steered |-> pass.changed[c] # {}])
<1>1. \E pass \in Pass :
        /\ pass.length = PassLength(c) /\ passes'[c] = Append(passes[c], pass)
        /\ \E inert \in SUBSET hooks[model[c]] : \A o \in Owner : pass.changed[o] =
             UNION {Mask(h, PassLength(c)) : h \in {g \in hooks[model[c]] \ inert : g.of = o}}
        /\ Trusted /\ Steered(c) =>
             trace'[c] = Append(trace[c], [length |-> pass.length, steered |-> pass.changed[c] # {}])
  BY PassRecorded
<1>. QED  BY <1>1, Zenon

\* Each pass of a steered arm is in its trace, no earlier than its own place.
Recorded(c) ==
  Trusted /\ Steered(c) =>
    /\ Len(passes[c]) <= Len(trace[c])
    /\ \A k \in 1..Len(passes[c]) : \E j \in k..Len(trace[c]) :
         trace[c][j].steered => passes[c][k].changed[c] # {}

LEMMA Appended ==
  ASSUME NEW S, NEW s \in Seq(S), NEW x \in S
  PROVE  /\ Len(s) \in Nat /\ Len(Append(s, x)) = Len(s) + 1
         /\ DOMAIN s = 1..Len(s) /\ DOMAIN Append(s, x) = 1..(Len(s) + 1)
         /\ \A i \in 1..Len(s) : Append(s, x)[i] = s[i]
         /\ Append(s, x)[Len(s) + 1] = x
  OBVIOUS

\* What happens to the answers of a caller: they are forgotten, or one is added.
LEMMA AnswersStep ==
  ASSUME Typed, Next, NEW d \in Callers
  PROVE  \/ answers'[d] = answers[d]
         \/ answers'[d] = <<>>
         \/ phase[d] = "generating" /\ FinishArm(d) /\ answers'[d] = Append(answers[d], ResultOf(d))
<1>1. ASSUME NEW c \in Callers, Advance(c), ~FinishArm(c)
      PROVE  answers'[d] = answers[d] \/ answers'[d] = <<>>
  BY <1>1 DEF Advance, RefuseRequest, BeginLoad, FinishLoad, FailLoad, TakeLoaded, RefusePrepared,
              BeginGenerate, ForwardPass, FailArm, Raise, Typed, TypeOK
<1>2. ASSUME NEW c \in Callers, FinishArm(c)
      PROVE  \/ answers'[d] = answers[d]
             \/ phase[d] = "generating" /\ FinishArm(d) /\ answers'[d] = Append(answers[d], ResultOf(d))
  BY <1>2 DEF FinishArm, Typed, TypeOK
<1>3. ASSUME NEW c \in Callers, NEW r \in Steerings[pairing], Call(c, r)
      PROVE  answers'[d] = answers[d] \/ answers'[d] = <<>>
  BY <1>3 DEF Call
<1>. QED  BY <1>1, <1>2, <1>3 DEF Next

LEMMA RecordedStep ==
  ASSUME Typed, Hooked, LoneHooks, Trusted, \A c \in Callers : Recorded(c), Next, NEW d \in Callers
  PROVE  Recorded(d)'
<1>1. ASSUME NEW c \in Callers, ForwardPass(c), Steered(d)
      PROVE  Recorded(d)'
  <2>1. /\ trace[d] \in Seq(Trace) /\ passes[d] \in Seq(Pass) /\ Recorded(d)
        /\ Len(trace[d]) \in Nat /\ Len(passes[d]) \in Nat /\ Len(passes[d]) <= Len(trace[d])
    <3>1. trace[d] \in Seq(Trace) /\ passes[d] \in Seq(Pass)
      BY DEF Typed, TypeOK
    <3>2. Recorded(d) /\ Len(passes[d]) <= Len(trace[d])
      BY <1>1 DEF Recorded
    <3>. QED  BY <3>1, <3>2, LenProperties
  <2>2. CASE d # c
    <3>1. passes'[d] = passes[d]
      BY <1>1, <2>2, PassRecorded
    <3>2. CASE trace'[d] = trace[d]
      BY <1>1, <2>1, <3>1, <3>2 DEF Recorded, Steered
    <3>3. ASSUME NEW rec \in Trace, trace'[d] = Append(trace[d], rec)
          PROVE  Recorded(d)'
      <4>1. /\ Len(trace'[d]) = Len(trace[d]) + 1
            /\ \A j \in 1..Len(trace[d]) : trace'[d][j] = trace[d][j]
        BY <2>1, <3>3, Appended
      <4>2. ASSUME NEW k \in 1..Len(passes'[d])
            PROVE  \E j \in k..Len(trace'[d]) : trace'[d][j].steered => passes'[d][k].changed[d] # {}
        <5>1. PICK j \in k..Len(trace[d]) : trace[d][j].steered => passes[d][k].changed[d] # {}
          BY <1>1, <2>1, <3>1, <4>2 DEF Recorded
        <5>2. j \in k..Len(trace'[d]) /\ trace'[d][j] = trace[d][j]
          BY <2>1, <3>1, <4>1, <4>2, <5>1
        <5>. QED  BY <3>1, <5>1, <5>2
      <4>3. Len(passes'[d]) <= Len(trace'[d])
        BY <2>1, <3>1, <4>1
      <4>. QED  BY <4>2, <4>3 DEF Recorded
    <3>. QED  BY <1>1, <2>2, <3>2, <3>3, PassRecorded
  <2>3. CASE d = c
    <3>1. PICK pass \in Pass :
            /\ passes'[d] = Append(passes[d], pass)
            /\ trace'[d] = Append(trace[d], [length |-> pass.length, steered |-> pass.changed[d] # {}])
      BY <1>1, <2>3, OwnPassRecorded
    <3>. DEFINE rec == [length |-> pass.length, steered |-> pass.changed[d] # {}]
    <3>2. rec \in Trace
      BY DEF Pass, Trace
    <3>3. /\ Len(trace'[d]) = Len(trace[d]) + 1 /\ Len(passes'[d]) = Len(passes[d]) + 1
          /\ \A j \in 1..Len(trace[d]) : trace'[d][j] = trace[d][j]
          /\ \A j \in 1..Len(passes[d]) : passes'[d][j] = passes[d][j]
          /\ trace'[d][Len(trace[d]) + 1] = rec /\ passes'[d][Len(passes[d]) + 1] = pass
      BY <2>1, <3>1, <3>2, Appended
    <3>4. rec.steered => pass.changed[d] # {}
      OBVIOUS
    <3>. HIDE DEF rec
    <3>5. ASSUME NEW k \in 1..Len(passes'[d])
          PROVE  \E j \in k..Len(trace'[d]) : trace'[d][j].steered => passes'[d][k].changed[d] # {}
      <4>1. CASE k = Len(passes[d]) + 1
        <5>1. Len(trace[d]) + 1 \in k..Len(trace'[d])
          BY <2>1, <3>3, <4>1
        <5>. QED  BY <3>3, <3>4, <4>1, <5>1
      <4>2. CASE k # Len(passes[d]) + 1
        <5>1. k \in 1..Len(passes[d])
          BY <2>1, <3>3, <4>2
        <5>2. PICK j \in k..Len(trace[d]) : trace[d][j].steered => passes[d][k].changed[d] # {}
          BY <1>1, <2>1, <5>1 DEF Recorded
        <5>3. passes'[d][k] = passes[d][k]
          BY <3>3, <5>1
        <5>4. j \in 1..Len(trace[d]) /\ j \in k..Len(trace'[d])
          BY <2>1, <3>3, <5>1, <5>2
        <5>5. trace'[d][j] = trace[d][j]
          BY <3>3, <5>4
        <5>. QED  BY <5>2, <5>3, <5>4, <5>5
      <4>. QED  BY <4>1, <4>2
    <3>6. Len(passes'[d]) <= Len(trace'[d])
      BY <2>1, <3>3
    <3>. QED  BY <3>5, <3>6 DEF Recorded
  <2>. QED  BY <2>2, <2>3
<1>2. ASSUME NEW c \in Callers, ForwardPass(c), ~Steered(d)
      PROVE  ~Steered(d)'
  BY <1>2 DEF ForwardPass, Steered, Arm
<1>3. ASSUME NEW c \in Callers, BeginGenerate(c)
      PROVE  Recorded(d)'
  <2>1. CASE d = c
    <3>1. passes'[d] = <<>> /\ phase[d] = "ready"
      BY <1>3, <2>1 DEF BeginGenerate, Typed, Shape
    <3>2. Steered(d)' => trace'[d] = <<>>
      BY <1>3, <2>1 DEF BeginGenerate, Steered, Arm, Typed, TypeOK
    <3>3. Len(<<>>) = 0 /\ 1..0 = {}
      OBVIOUS
    <3>. QED  BY <3>1, <3>2, <3>3 DEF Recorded
  <2>2. CASE d # c
    <3>1. /\ trace'[d] = trace[d] /\ passes'[d] = passes[d] /\ Steered(d)' = Steered(d)
      BY <1>3, <2>2 DEF BeginGenerate, Steered, Arm, Typed, TypeOK
    <3>. QED  BY <3>1 DEF Recorded
  <2>. QED  BY <2>1, <2>2
<1>4. ASSUME NEW c \in Callers, FinishArm(c) \/ FailArm(c)
      PROVE  Recorded(d)'
  <2>1. CASE d = c
    <3>1. passes'[d] = <<>> /\ trace'[d] = <<>>
      BY <1>4, <2>1 DEF FinishArm, FailArm, Raise, Typed, TypeOK
    <3>2. Len(<<>>) = 0 /\ 1..0 = {}
      OBVIOUS
    <3>. QED  BY <3>1, <3>2 DEF Recorded
  <2>2. CASE d # c
    <3>1. /\ trace'[d] = trace[d] /\ passes'[d] = passes[d] /\ Steered(d)' = Steered(d)
      BY <1>4, <2>2 DEF FinishArm, FailArm, Raise, Steered, Arm, Typed, TypeOK
    <3>. QED  BY <3>1 DEF Recorded
  <2>. QED  BY <2>1, <2>2
<1>5. ASSUME NEW c \in Callers,
             RefuseRequest(c) \/ BeginLoad(c) \/ FinishLoad(c) \/ FailLoad(c) \/ TakeLoaded(c) \/ RefusePrepared(c)
      PROVE  Recorded(d)'
  <2>1. CASE d = c
    <3>1. phase'[d] # "generating" /\ trace' = trace
      BY <1>5, <2>1 DEF RefuseRequest, BeginLoad, FinishLoad, FailLoad, TakeLoaded, RefusePrepared, Raise,
                        Typed, TypeOK
    <3>. QED  BY <3>1 DEF Recorded, Steered
  <2>2. CASE d # c
    <3>1. trace'[d] = trace[d] /\ passes'[d] = passes[d] /\ Steered(d)' = Steered(d)
      BY <1>5, <2>2 DEF RefuseRequest, BeginLoad, FinishLoad, FailLoad, TakeLoaded, RefusePrepared, Raise,
                        Steered, Arm, Typed, TypeOK
    <3>. QED  BY <3>1 DEF Recorded
  <2>. QED  BY <2>1, <2>2
<1>6. ASSUME NEW c \in Callers, NEW r \in Steerings[pairing], Call(c, r)
      PROVE  Recorded(d)'
  <2>1. CASE d = c
    <3>1. phase'[d] # "generating"
      BY <1>6, <2>1 DEF Call, Typed, TypeOK
    <3>. QED  BY <3>1 DEF Recorded, Steered
  <2>2. CASE d # c
    <3>1. trace'[d] = trace[d] /\ passes'[d] = passes[d] /\ Steered(d)' = Steered(d)
      BY <1>6, <2>2 DEF Call, Steered, Arm, Typed, TypeOK
    <3>. QED  BY <3>1 DEF Recorded
  <2>. QED  BY <2>1, <2>2
<1>7. ASSUME NEW c \in Callers, ForwardPass(c)
      PROVE  Recorded(d)'
  BY <1>1, <1>2, <1>7 DEF Recorded
<1>. QED  BY <1>3, <1>4, <1>5, <1>6, <1>7 DEF Next, Advance

\* The verdict of one result of c claims no more than its passes show.
Honest(c, a) ==
  a.confirmed => \A k \in Applicable(a.request.positions, Len(a.passes)) : a.passes[k].changed[c] # {}

LEMMA ResultIsHonest ==
  ASSUME Typed, Trusted, NEW c \in Callers, Recorded(c), phase[c] = "generating"
  PROVE  Honest(c, ResultOf(c))
<1>. DEFINE a == ResultOf(c)
            positions == Arm(c).positions
<1>1. a.request = Arm(c) /\ a.passes = passes[c] /\ (a.confirmed => Steered(c) /\ Confirmed(positions, trace[c]))
  BY DEF ResultOf, Steered
<1>2. trace[c] \in Seq(Trace) /\ passes[c] \in Seq(Pass)
  BY DEF Typed, TypeOK
<1>3. Len(trace[c]) \in Nat /\ Len(passes[c]) \in Nat
  BY <1>2, LenProperties
<1>. HIDE DEF a
<1>4. ASSUME a.confirmed, NEW k \in Applicable(positions, Len(passes[c]))
      PROVE  passes[c][k].changed[c] # {}
  <2>1. k \in 1..Len(passes[c]) /\ ~(positions = "generated_only" /\ k = 1)
    BY DEF Applicable
  <2>2. PICK j \in k..Len(trace[c]) : trace[c][j].steered => passes[c][k].changed[c] # {}
    BY <1>1, <1>4, <2>1 DEF Recorded
  <2>3. j \in Applicable(positions, Len(trace[c]))
    BY <1>3, <2>1, <2>2 DEF Applicable
  <2>. QED  BY <1>1, <1>4, <2>2, <2>3 DEF Confirmed
<1>5. Honest(c, a)
  BY <1>1, <1>4 DEF Honest
<1>. QED  BY <1>5 DEF a

\* nonzero_steer_confirmed never overclaims on Qwen, however calls overlap, nor on Gemma while
\* none does.  Recorded is why: another call's passes add records, but none of them takes the
\* place of a record of the call's own.
THEOREM VerdictsAreHonest == Spec => []VerdictNeverOverclaims
<1>. DEFINE AllRecorded == \A c \in Callers : Recorded(c)
            AllHonest == Trusted => \A c \in Callers : \A i \in DOMAIN answers[c] : Honest(c, answers[c][i])
<1>1. Init => AllRecorded /\ AllHonest
  <2>1. Init => \A c \in Callers : phase[c] = "idle" /\ answers[c] = <<>>
    BY DEF Init
  <2>. QED  BY <2>1 DEF Recorded, Steered, Honest
<1>2. ASSUME Typed, Hooked, LoneHooks, AllRecorded, [Next]_vars
      PROVE  AllRecorded'
  <2>1. CASE Trusted /\ Next
    BY <1>2, <2>1, RecordedStep
  <2>2. CASE UNCHANGED vars
    <3>1. ASSUME NEW c \in Callers
          PROVE  Recorded(c)'
      BY <1>2, <2>2 DEF vars, Recorded, Trusted, Steered, Arm
    <3>. QED  BY <3>1
  <2>3. CASE ~Trusted
    BY <1>2, <2>3, TrustGained DEF Recorded, Steered
  <2>. QED  BY <1>2, <2>1, <2>2, <2>3
<1>3. ASSUME Typed, AllRecorded, AllHonest, [Next]_vars
      PROVE  AllHonest'
  <2>1. ASSUME Trusted', NEW c \in Callers, NEW i \in DOMAIN answers'[c]
        PROVE  Honest(c, answers'[c][i])
    <3>1. CASE answers'[c] = <<>>
      BY <2>1, <3>1
    <3>2. CASE Trusted /\ answers'[c] = answers[c]
      BY <1>3, <2>1, <3>2
    <3>3. CASE Trusted /\ Next /\ phase[c] = "generating" /\ answers'[c] = Append(answers[c], ResultOf(c))
      <4>1. answers[c] \in Seq(Result) /\ ResultOf(c) \in Result
        BY <1>3, <3>3, ResultTyped DEF Typed, TypeOK
      <4>2. \/ i \in DOMAIN answers[c] /\ answers'[c][i] = answers[c][i]
            \/ answers'[c][i] = ResultOf(c)
        BY <2>1, <3>3, <4>1, Appended
      <4>3. Honest(c, ResultOf(c))
        BY <1>3, <3>3, ResultIsHonest
      <4>. QED  BY <1>3, <3>3, <4>2, <4>3
    <3>4. UNCHANGED vars => answers'[c] = answers[c]
      BY DEF vars
    <3>5. CASE ~Trusted
      BY <1>3, <2>1, <3>1, <3>5, TrustGained
    <3>. QED  BY <1>3, <3>1, <3>2, <3>3, <3>4, <3>5, AnswersStep
  <2>2. Trusted' => \A c \in Callers : \A i \in DOMAIN answers'[c] : Honest(c, answers'[c][i])
    BY <2>1
  <2>. QED  BY <2>2 DEF Honest
<1>4. AllHonest => VerdictNeverOverclaims
  BY DEF Honest, Trusted, VerdictNeverOverclaims
<1>. QED  BY <1>1, <1>2, <1>3, <1>4, HookInvariant, PTL DEF Spec

-------------------------------------------------------------------------------
(* Calls no other call overlapped. *)

\* The k-th pass of a reply to r: only r's own hook changed it, and only where r clamps.
OwnPass(c, r, k, pass) ==
  /\ \A h \in Owner \ {c} : pass.changed[h] = {}
  /\ r = Baseline => pass.changed[c] = {}
  /\ r # Baseline /\ r.positions = "generated_only" /\ k = 1 => pass.changed[c] = {}

OwnTrace(tr, ps) ==
  /\ Len(tr) = Len(ps)
  /\ \A k \in 1..Len(ps) : tr[k].length = ps[k].length

\* The arm a lone call is at.
OwnArm(c) ==
  /\ phase[c] = "loading" => loaded = 0
  /\ \A k \in 1..Len(passes[c]) : OwnPass(c, Arm(c), k, passes[c][k])
  /\ Steered(c) => OwnTrace(trace[c], passes[c])

OwnAnswer(c, a) ==
  /\ \A k \in 1..Len(a.passes) : OwnPass(c, a.request, k, a.passes[k])
  /\ a.request # Baseline => OwnTrace(a.trace, a.passes)

Lone ==
  alone => \A c \in Callers : OwnArm(c) /\ \A i \in DOMAIN answers[c] : OwnAnswer(c, answers[c][i])

\* A call begins: it overlaps the calls that run, or everything before it is forgotten.
LEMMA CallLone ==
  ASSUME Typed, Lone, NEW c \in Callers, NEW r \in Steerings[pairing], Call(c, r)
  PROVE  Lone'
<1>1. CASE alone'
  <2>1. \A d \in Callers : phase[d] = "idle" /\ answers'[d] = <<>>
    BY <1>1 DEF Call, Idle
  <2>2. \A d \in Callers : phase'[d] = IF d = c THEN "ensure" ELSE "idle"
    BY <2>1 DEF Call, Typed, TypeOK
  <2>3. \A d \in Callers : passes'[d] = <<>>
    BY <2>1 DEF Call, Typed, Shape
  <2>4. ASSUME NEW d \in Callers
        PROVE  OwnArm(d)'
    <3>1. phase'[d] \notin {"loading", "generating"} /\ Len(passes'[d]) = 0 /\ 1..0 = {}
      BY <2>2, <2>3
    <3>. QED  BY <3>1 DEF OwnArm, Steered
  <2>. QED  BY <1>1, <2>1, <2>4 DEF Lone
<1>2. CASE ~alone'
  BY <1>2 DEF Lone
<1>. QED  BY <1>1, <1>2

\* What is left to show of a step of a lone call: its own arm, and the answers it adds.
LEMMA AdvanceLone ==
  ASSUME Typed, LoneHooks, Lone, NEW c \in Callers, Advance(c), alone', OwnArm(c)',
         \A i \in DOMAIN answers'[c] : OwnAnswer(c, answers'[c][i])
  PROVE  Lone'
<1>1. ASSUME NEW d \in Callers
      PROVE  OwnArm(d)' /\ \A i \in DOMAIN answers'[d] : OwnAnswer(d, answers'[d][i])
  <2>1. CASE d = c
    BY <2>1
  <2>2. CASE d # c
    <3>1. /\ phase'[d] = "idle" /\ Len(passes'[d]) = 0 /\ 1..0 = {}
          /\ answers'[d] = answers[d] /\ alone
      BY <2>2, OthersIdle DEF LoneHooks
    <3>2. OwnArm(d)'
      BY <3>1 DEF OwnArm, Steered
    <3>. QED  BY <3>1, <3>2 DEF Lone
  <2>. QED  BY <2>1, <2>2
<1>. QED  BY <1>1 DEF Lone, OwnAnswer, OwnTrace, OwnPass

\* The only hook a lone call's pass runs is the call's own, at the positions it asked for.
LEMMA PassIsOwn ==
  ASSUME Typed, LoneHooks, alone, NEW c \in Callers, phase[c] = "generating",
         NEW inert \in SUBSET hooks[model[c]], NEW pass \in Pass,
         \A o \in Owner : pass.changed[o] =
           UNION {Mask(h, PassLength(c)) : h \in {g \in hooks[model[c]] \ inert : g.of = o}}
  PROVE  OwnPass(c, Arm(c), Len(passes[c]) + 1, pass)
<1>1. \A h \in hooks[model[c]] : /\ h.of = c /\ h.positions = Arm(c).positions /\ Arm(c) # Baseline
                                 /\ passes[c] = <<>> => h.counter = 0
  BY DEF LoneHooks, OwnHooks
<1>2. ASSUME NEW o \in Owner, o # c \/ Arm(c) = Baseline
      PROVE  pass.changed[o] = {}
  <2>1. {g \in hooks[model[c]] \ inert : g.of = o} = {}
    BY <1>1, <1>2
  <2>. QED  BY <2>1
<1>3. ASSUME Arm(c) # Baseline, Arm(c).positions = "generated_only", Len(passes[c]) + 1 = 1
      PROVE  pass.changed[c] = {}
  <2>1. passes[c] = <<>>
    <3>1. passes[c] \in Seq(Pass) /\ Len(passes[c]) \in Nat
      BY LenProperties DEF Typed, TypeOK
    <3>. QED  BY <1>3, <3>1, EmptySeq
  <2>2. PassLength(c) = PromptLength
    BY <2>1 DEF PassLength
  <2>3. ASSUME NEW h \in hooks[model[c]]
        PROVE  Mask(h, PassLength(c)) = {}
    <3>1. h.counter = 0 /\ h.positions = "generated_only"
      BY <1>1, <1>3, <2>1
    <3>. QED  BY <2>2, <3>1, Constants DEF Mask
  <2>4. c \in Owner
    BY DEF Owner
  <2>. QED  BY <2>3, <2>4
<1>4. c \in Owner
  BY DEF Owner
<1>. QED  BY <1>2, <1>3, <1>4 DEF OwnPass

LEMMA ForwardPassLone ==
  ASSUME Typed, Hooked, LoneHooks, Lone, NEW c \in Callers, ForwardPass(c), alone'
  PROVE  OwnArm(c)'
<1>1. /\ UNCHANGED <<fixed, loaded, loads, level, phase, arms, model, answers>>
      /\ phase[c] = "generating" /\ alone /\ Trusted
  BY PassRecorded DEF fixed, Trusted
<1>2. PICK pass \in Pass :
        /\ pass.length = PassLength(c) /\ passes'[c] = Append(passes[c], pass)
        /\ \E inert \in SUBSET hooks[model[c]] : \A o \in Owner : pass.changed[o] =
             UNION {Mask(h, PassLength(c)) : h \in {g \in hooks[model[c]] \ inert : g.of = o}}
        /\ Trusted /\ Steered(c) =>
             trace'[c] = Append(trace[c], [length |-> pass.length, steered |-> pass.changed[c] # {}])
  BY PassRecorded
<1>3. OwnPass(c, Arm(c), Len(passes[c]) + 1, pass)
  BY <1>1, <1>2, PassIsOwn
<1>4. passes[c] \in Seq(Pass) /\ trace[c] \in Seq(Trace) /\ OwnArm(c)
  BY <1>1 DEF Typed, TypeOK, Lone
<1>5. /\ Len(passes[c]) \in Nat /\ Len(passes'[c]) = Len(passes[c]) + 1
      /\ \A k \in 1..Len(passes[c]) : passes'[c][k] = passes[c][k]
      /\ passes'[c][Len(passes[c]) + 1] = pass
  BY <1>2, <1>4, Appended
<1>6. Arm(c)' = Arm(c) /\ Steered(c)' = Steered(c)
  BY <1>1 DEF Arm, Steered
<1>7. ASSUME NEW k \in 1..Len(passes'[c])
      PROVE  OwnPass(c, Arm(c)', k, passes'[c][k])
  <2>1. k \in 1..Len(passes[c]) \/ k = Len(passes[c]) + 1
    BY <1>5, <1>7
  <2>. QED  BY <1>3, <1>4, <1>5, <1>6, <2>1 DEF OwnArm
<1>8. ASSUME Steered(c)
      PROVE  OwnTrace(trace'[c], passes'[c])
  <2>. DEFINE rec == [length |-> pass.length, steered |-> pass.changed[c] # {}]
  <2>1. rec \in Trace /\ rec.length = pass.length
    BY DEF Pass, Trace
  <2>2. trace'[c] = Append(trace[c], rec)
    BY <1>1, <1>2, <1>8
  <2>. HIDE DEF rec
  <2>3. Len(trace[c]) = Len(passes[c]) /\ \A k \in 1..Len(passes[c]) : trace[c][k].length = passes[c][k].length
    BY <1>4, <1>8 DEF OwnArm, OwnTrace
  <2>4. /\ Len(trace'[c]) = Len(trace[c]) + 1
        /\ \A k \in 1..Len(trace[c]) : trace'[c][k] = trace[c][k]
        /\ trace'[c][Len(trace[c]) + 1] = rec
    BY <1>4, <2>1, <2>2, Appended
  <2>5. ASSUME NEW k \in 1..Len(passes'[c])
        PROVE  trace'[c][k].length = passes'[c][k].length
    <3>1. k \in 1..Len(passes[c]) \/ k = Len(passes[c]) + 1
      BY <1>5, <2>5
    <3>. QED  BY <1>5, <2>1, <2>3, <2>4, <3>1
  <2>. QED  BY <1>5, <2>3, <2>4, <2>5 DEF OwnTrace
<1>9. passes'[c] # <<>>
  <2>1. Len(passes'[c]) # Len(<<>>)
    BY <1>5
  <2>. QED  BY <2>1
<1>10. phase'[c] # "loading"
  BY <1>1
<1>. QED  BY <1>6, <1>7, <1>8, <1>9, <1>10 DEF OwnArm, OwnPass, OwnTrace

\* The answer a lone arm leaves is its own passes and its own trace.
LEMMA FinishArmLone ==
  ASSUME Typed, Lone, NEW c \in Callers, FinishArm(c), alone'
  PROVE  /\ OwnArm(c)'
         /\ \A i \in DOMAIN answers'[c] : OwnAnswer(c, answers'[c][i])
<1>1. /\ alone /\ phase[c] = "generating" /\ phase'[c] \in {"idle", "ensure"} /\ passes'[c] = <<>>
      /\ answers'[c] = Append(answers[c], ResultOf(c))
  BY DEF FinishArm, fixed, Typed, TypeOK
<1>2. OwnArm(c)'
  <2>1. Len(passes'[c]) = 0 /\ 1..0 = {}
    BY <1>1
  <2>. QED  BY <1>1, <2>1 DEF OwnArm, Steered
<1>3. OwnAnswer(c, ResultOf(c))
  <2>1. OwnArm(c)
    BY <1>1 DEF Lone
  <2>2. /\ ResultOf(c).passes = passes[c] /\ ResultOf(c).request = Arm(c)
        /\ Arm(c) # Baseline => ResultOf(c).trace = trace[c]
    BY DEF ResultOf
  <2>. QED  BY <1>1, <2>1, <2>2 DEF OwnArm, OwnAnswer, Steered
<1>4. ASSUME NEW i \in DOMAIN answers'[c]
      PROVE  OwnAnswer(c, answers'[c][i])
  <2>1. answers[c] \in Seq(Result) /\ ResultOf(c) \in Result
    BY <1>1, ResultTyped DEF Typed, TypeOK
  <2>2. (i \in DOMAIN answers[c] /\ answers'[c][i] = answers[c][i]) \/ answers'[c][i] = ResultOf(c)
    BY <1>1, <1>4, <2>1, Appended
  <2>. QED  BY <1>1, <1>3, <2>2 DEF Lone
<1>. QED  BY <1>2, <1>4

\* Any other step of a lone call, up to its first pass.
LEMMA OtherStepLone ==
  ASSUME Typed, Lone, NEW c \in Callers, alone',
         \/ RefuseRequest(c) \/ BeginLoad(c) \/ FinishLoad(c) \/ FailLoad(c) \/ TakeLoaded(c)
         \/ RefusePrepared(c) \/ BeginGenerate(c) \/ FailArm(c)
  PROVE  /\ OwnArm(c)'
         /\ \A i \in DOMAIN answers'[c] : OwnAnswer(c, answers'[c][i])
<1>1. alone /\ (answers'[c] = answers[c] \/ answers'[c] = <<>>)
  BY DEF RefuseRequest, BeginLoad, FinishLoad, FailLoad, TakeLoaded, RefusePrepared, Raise,
         BeginGenerate, FailArm, fixed, Typed, TypeOK
<1>2. passes'[c] = <<>> /\ (phase'[c] = "loading" => loaded' = 0)
  BY DEF RefuseRequest, BeginLoad, FinishLoad, FailLoad, TakeLoaded, RefusePrepared, Raise,
         BeginGenerate, FailArm, Typed, TypeOK, Shape
<1>3. Steered(c)' => trace'[c] = <<>>
  BY DEF RefuseRequest, BeginLoad, FinishLoad, FailLoad, TakeLoaded, RefusePrepared, Raise,
         BeginGenerate, FailArm, Typed, TypeOK, Steered, Arm
<1>4. OwnArm(c)'
  <2>1. Len(<<>>) = 0 /\ 1..0 = {}
    OBVIOUS
  <2>. QED  BY <1>2, <1>3, <2>1 DEF OwnArm, OwnTrace
<1>5. \A i \in DOMAIN answers'[c] : OwnAnswer(c, answers'[c][i])
  BY <1>1 DEF Lone
<1>. QED  BY <1>4, <1>5

LEMMA LoneStep ==
  ASSUME Typed, Hooked, LoneHooks, Lone, [Next]_vars
  PROVE  Lone'
<1>1. CASE UNCHANGED vars
  <2>1. /\ alone' = alone /\ phase' = phase /\ arms' = arms /\ passes' = passes
        /\ trace' = trace /\ loaded' = loaded /\ answers' = answers
    BY <1>1 DEF vars
  <2>2. \A c \in Callers : OwnArm(c)' = OwnArm(c)
    BY <2>1 DEF OwnArm, OwnTrace, OwnPass, Steered, Arm
  <2>3. \A c \in Callers : \A i \in DOMAIN answers[c] :
          OwnAnswer(c, answers'[c][i]) = OwnAnswer(c, answers[c][i])
    BY <2>1
  <2>. QED  BY <2>1, <2>2, <2>3 DEF Lone
<1>2. ASSUME NEW c \in Callers, NEW r \in Steerings[pairing], Call(c, r)
      PROVE  Lone'
  BY <1>2, CallLone
<1>3. ASSUME NEW c \in Callers, Advance(c), ~alone'
      PROVE  Lone'
  BY <1>3 DEF Lone
<1>4. ASSUME NEW c \in Callers, Advance(c), alone'
      PROVE  Lone'
  <2>1. OwnArm(c)' /\ \A i \in DOMAIN answers'[c] : OwnAnswer(c, answers'[c][i])
    <3>1. ASSUME ForwardPass(c)
          PROVE  OwnArm(c)' /\ \A i \in DOMAIN answers'[c] : OwnAnswer(c, answers'[c][i])
      <4>1. alone /\ answers' = answers
        BY <1>4, <3>1 DEF ForwardPass, fixed
      <4>. QED  BY <1>4, <3>1, <4>1, ForwardPassLone DEF Lone
    <3>. QED  BY <1>4, <3>1, FinishArmLone, OtherStepLone DEF Advance
  <2>. QED  BY <1>4, <2>1, AdvanceLone
<1>. QED  BY <1>1, <1>2, <1>3, <1>4 DEF Next

\* The strengthening behind the three theorems below: a call nothing has overlapped since
\* the backend was idle runs by itself, loads only what is not loaded, and its hooks, passes
\* and trace are its own from the arm's first pass on.
LEMMA LoneInvariant == Spec => [](Typed /\ Hooked /\ LoneHooks /\ Lone)
<1>1. Init => Lone
  <2>1. ASSUME Init, NEW c \in Callers
        PROVE  phase[c] = "idle" /\ passes[c] = <<>> /\ answers[c] = <<>>
    BY <2>1 DEF Init
  <2>2. Len(<<>>) = 0 /\ 1..0 = {}
    OBVIOUS
  <2>. QED  BY <2>1, <2>2 DEF Lone, OwnArm, Steered
<1>. QED  BY <1>1, LoneStep, HookInvariant, PTL DEF Spec

\* A reply no other call overlapped is steered by its own request alone: no foreign hook, no
\* position generated_only excludes, and no hook at all under "Original".
THEOREM LoneRepliesAreTheirOwn == Spec => []SteeredByItselfAlone
<1>1. ASSUME Typed, Lone, alone, NEW c \in Callers, NEW i \in DOMAIN answers[c],
             NEW k \in DOMAIN answers[c][i].passes
      PROVE  OwnPass(c, answers[c][i].request, k, answers[c][i].passes[k])
  <2>1. answers[c][i] \in Result
    BY <1>1 DEF Typed, TypeOK
  <2>2. answers[c][i].passes \in Seq(Pass)
    BY <2>1 DEF Result
  <2>3. k \in 1..Len(answers[c][i].passes)
    BY <1>1, <2>2
  <2>. QED  BY <1>1, <2>3 DEF Lone, OwnAnswer
<1>2. Typed /\ Lone => SteeredByItselfAlone
  BY <1>1 DEF SteeredByItselfAlone, OwnPass
<1>. QED  BY <1>2, LoneInvariant, PTL

\* "call_index == 0 is prefill, every later call is decode": the trace of a reply no other
\* call overlapped has one record for each of its own passes, in their order.
THEOREM LoneTracesAreTheirOwn == Spec => []TraceIsOfOwnPasses
<1>1. ASSUME Typed, Lone, alone, NEW c \in Callers, NEW i \in DOMAIN answers[c],
             answers[c][i].request # Baseline
      PROVE  /\ Len(answers[c][i].trace) = Len(answers[c][i].passes)
             /\ \A k \in DOMAIN answers[c][i].trace :
                  answers[c][i].trace[k].length = answers[c][i].passes[k].length
  <2>1. answers[c][i] \in Result
    BY <1>1 DEF Typed, TypeOK
  <2>2. answers[c][i].trace \in Seq(Trace)
    BY <2>1 DEF Result
  <2>3. OwnTrace(answers[c][i].trace, answers[c][i].passes)
    BY <1>1 DEF Lone, OwnAnswer
  <2>. QED  BY <2>2, <2>3 DEF OwnTrace
<1>2. Typed /\ Lone => TraceIsOfOwnPasses
  BY <1>1 DEF TraceIsOfOwnPasses
<1>. QED  BY <1>2, LoneInvariant, PTL

\* `if self._loaded is None`: without overlapping calls the model loaded on first use is
\* never replaced.
THEOREM LoneCallsLoadOnce == Spec => LoadedOnce
<1>1. ASSUME Typed, Lone, [Next]_vars
      PROVE  [loaded # 0 /\ alone => loaded' = loaded]_loaded
  <2>1. ASSUME NEW c \in Callers, Advance(c), alone, loaded # 0
        PROVE  loaded' = loaded
    <3>1. ~FinishLoad(c)
      BY <1>1, <2>1 DEF Lone, OwnArm, FinishLoad
    <3>. QED  BY <2>1, <3>1 DEF Advance, RefuseRequest, BeginLoad, FailLoad, TakeLoaded, RefusePrepared,
                             BeginGenerate, ForwardPass, FinishArm, FailArm
  <2>2. ASSUME NEW c \in Callers, NEW r \in Steerings[pairing], Call(c, r)
        PROVE  loaded' = loaded
    BY <2>2 DEF Call
  <2>3. UNCHANGED vars => loaded' = loaded
    BY DEF vars
  <2>. QED  BY <1>1, <2>1, <2>2, <2>3 DEF Next
<1>. QED  BY <1>1, LoneInvariant, PTL DEF Spec, LoadedOnce

===============================================================================
