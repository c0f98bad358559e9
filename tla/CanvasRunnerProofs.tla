------------------------- MODULE CanvasRunnerProofs -------------------------
(***************************************************************************)
(* The registration of runs, the interrupts and the terminator of a stream *)
(* for every set of requests and sessions and every channel capacity.      *)
(***************************************************************************)
EXTENDS CanvasRunner, TLAPS

FnPc ==
    {"none", "begin", "open", "compile", "invoke", "load", "store", "mark", "return", "over"}

Returns == {"none", "ok", "interrupt", "err", "panic", "cancelled"}

\* The events that are sent are events.
LEMMA EventSeqs ==
  /\ <<>> \in Seq(Events) /\ <<"done">> \in Seq(Events)
  /\ <<"waiting", "done">> \in Seq(Events) /\ <<"error", "done">> \in Seq(Events)
  /\ <<"progress">> \in Seq(Events) /\ <<"placeholder">> \in Seq(Events)
  /\ <<"message">> \in Seq(Events)
  BY DEF Events

\* An event that is taken from the head of a queue, and one that is added.
LEMMA HasTail ==
  ASSUME NEW s \in Seq(Events), s # <<>>, NEW e, Has(s, e)
  PROVE  e = Head(s) \/ Has(Tail(s), e)
  <1>1. PICK i \in 1..Len(s) : s[i] = e
    BY DEF Has
  <1>2. CASE i = 1
    BY <1>1, <1>2
  <1>3. CASE i > 1
    <2>1. i - 1 \in 1..Len(Tail(s)) /\ Tail(s)[i - 1] = e
      BY <1>1, <1>3
    <2> QED
      BY <2>1 DEF Has
  <1> QED
    BY <1>1, <1>2, <1>3

LEMMA HasAppend ==
  ASSUME NEW s \in Seq(Events), NEW e \in Events
  PROVE  Has(Append(s, e), e) /\ \A d : Has(s, d) => Has(Append(s, e), d)
  <1>1. Len(Append(s, e)) = Len(s) + 1 /\ Append(s, e)[Len(s) + 1] = e
    OBVIOUS
  <1>2. \A i \in 1..Len(s) : Append(s, e)[i] = s[i]
    OBVIOUS
  <1>3. Len(s) \in Nat
    OBVIOUS
  <1>4. Has(Append(s, e), e)
    BY <1>1, <1>3 DEF Has
  <1>5. ASSUME NEW d, Has(s, d)
        PROVE  Has(Append(s, e), d)
    BY <1>1, <1>2, <1>3, <1>5 DEF Has
  <1> QED
    BY <1>4, <1>5

\* Every report of an outcome is a state of the run goroutine, and it carries the
\* terminator unless the run was cancelled.
LEMMA ReportFacts ==
  ASSUME NEW ret
  PROVE  /\ Report(ret) \in [pc : {"save", "push"}, todo : Seq(Events)]
         /\ ret # "cancelled" => Has(Report(ret).todo, "done")
  <1>1. Has(<<"done">>, "done")
    BY DEF Has
  <1>2. Has(<<"waiting", "done">>, "done") /\ Has(<<"error", "done">>, "done")
    BY DEF Has
  <1> QED
    BY <1>1, <1>2, EventSeqs DEF Report

-----------------------------------------------------------------------------
(* Types *)

LEMMA InitRunnerInv == Init => RunnerInv
  <1> SUFFICES ASSUME Init PROVE RunnerInv
    OBVIOUS
  <1> USE CanvasAssumption
  <1>1. TypeOK
    <2>1. RunType
      BY EventSeqs DEF Init, RunType
    <2>2. FnType
      BY EventSeqs DEF Init, FnType
    <2>3. /\ session \in [Requests -> Sessions]
          /\ interruptID \in [Sessions -> Requests \cup {None}]
      BY DEF Init, Waiting
    <2>4. /\ out \in [Requests -> Seq(Events)]
          /\ \A r \in Requests : Len(out[r]) <= Cap
      BY EventSeqs DEF Init
    <2>5. /\ reader \in [Requests -> {"none", "reading", "over"}]
          /\ got \in [Requests -> SUBSET Told]
      BY DEF Init, Told
    <2>6. tracker \in [Sessions -> [status : Statuses, by : Requests \cup {None}]]
      BY <2>3 DEF Init, Statuses
    <2>7. /\ resumed \in [Requests -> Requests \cup {None}]
          /\ registered = None /\ cancelled = {} /\ left = {} /\ met = {}
          /\ history \in [Sessions -> SUBSET Requests]
      BY DEF Init
    <2> QED
      BY <2>1, <2>2, <2>3, <2>4, <2>5, <2>6, <2>7 DEF TypeOK
  <1>2. RegistrationKept /\ AnsweredOnce
    BY DEF Init, RegistrationKept, Holds, AnsweredOnce
  <1>3. Interrupts
    <2>1. \A s \in Sessions : interruptID[s] # None =>
              interruptID[s] \in Paused /\ session[interruptID[s]] = s
      BY DEF Init, Waiting
    <2>2. \A r \in Paused : run[r].pc = "over"
      BY DEF Init
    <2> QED
      BY <2>1, <2>2 DEF Init, Interrupts, Saved
  <1>4. ASSUME NEW r \in Requests
        PROVE  Terminator(r)
    <2>1. r \notin Paused => run[r].pc = "idle" /\ fn[r].ret = "none" /\ reader[r] = "none"
      BY DEF Init
    <2>2. r \in Paused =>
            /\ run[r].pc = "over" /\ run[r].todo = <<>> /\ "done" \in got[r]
            /\ fn[r].pc = "over" /\ fn[r].ret = "interrupt" /\ out[r] = <<>>
      BY DEF Init
    <2> QED
      BY <2>1, <2>2 DEF Terminator, DoneComes, Closed
  <1> QED
    BY <1>1, <1>2, <1>3, <1>4 DEF RunnerInv

\* A goroutine that only moves on.
LEMMA RunMoves ==
  ASSUME RunType, NEW r \in Requests,
         NEW p \in {"resume", "invoke", "push", "close", "over"},
         run' = [run EXCEPT ![r].pc = p]
  PROVE  RunType'
  BY DEF RunType

LEMMA FnMoves ==
  ASSUME FnType, NEW r \in Requests, NEW p \in FnPc, NEW t \in Seq(Events),
         NEW ret \in Returns, NEW row \in SUBSET Requests, Move(r, p, t, ret, row)
  PROVE  /\ FnType'
         /\ \A q \in Requests \ {r} : fn'[q] = fn[q]
         /\ fn'[r].pc = p /\ fn'[r].ret = ret
  BY DEF FnType, FnPc, Returns, Move

\* What the function goroutine has.
LEMMA FnHas ==
  ASSUME FnType, NEW r \in Requests
  PROVE  fn[r].pc \in FnPc /\ fn[r].todo \in Seq(Events) /\ fn[r].ret \in Returns
         /\ fn[r].read \in SUBSET Requests
  BY DEF FnType, FnPc, Returns

\* The common moves of the RunFunc: on, with its result as it was, or to its end.
LEMMA FnGoes ==
  ASSUME FnType, NEW r \in Requests, NEW p \in FnPc, NEW t \in Seq(Events),
         NEW ret \in Returns, Move(r, p, t, ret, {}) \/ Return(r, ret)
  PROVE  FnType' /\ (\A q \in Requests \ {r} : fn'[q] = fn[q]) /\ fn'[r].ret = ret
  <1>1. {} \in SUBSET Requests /\ "over" \in FnPc /\ <<>> \in Seq(Events)
    BY EventSeqs DEF FnPc
  <1>2. CASE Move(r, p, t, ret, {})
    BY <1>1, <1>2, FnMoves
  <1>3. CASE Return(r, ret)
    <2>1. Move(r, "over", <<>>, ret, {})
      BY <1>3 DEF Return
    <2> QED
      BY <1>1, <2>1, FnMoves
  <1> QED
    BY <1>2, <1>3

\* The steps of the run goroutine.
LEMMA RunTypes ==
  ASSUME TypeOK, NEW r \in Requests, Register(r) \/ RunNext(r)
  PROVE  TypeOK'
  <1> USE CanvasAssumption
  <1>1. CASE Register(r)
    <2>1. RunType'
      BY <1>1, RunMoves DEF Register, TypeOK
    <2>2. UNCHANGED <<interruptID, resumed, fn, out, left, got, tracker, history, session>>
      BY <1>1 DEF Register, storeVars
    <2>3. FnType'
      BY <2>2 DEF TypeOK, FnType
    <2>4. met' \subseteq Requests /\ cancelled' \subseteq Requests /\ registered' \in Requests
      BY <1>1 DEF Register, Others, TypeOK
    <2>5. reader' \in [Requests -> {"none", "reading", "over"}]
      BY <1>1 DEF Register, TypeOK
    <2> QED
      BY <2>1, <2>2, <2>3, <2>4, <2>5 DEF TypeOK
  <1>2. CASE TakeInterrupt(r)
    <2>1. RunType'
      BY <1>2, RunMoves DEF TakeInterrupt, TypeOK
    <2>2. FnType'
      <3>1. Move(r, "begin", <<>>, fn[r].ret, {}) /\ FnType
        BY <1>2 DEF TakeInterrupt, Continue, TypeOK
      <3>2. "begin" \in FnPc /\ <<>> \in Seq(Events) /\ fn[r].ret \in Returns
        BY <3>1, EventSeqs, FnHas DEF FnPc
      <3> QED
        BY <3>1, <3>2, FnGoes
    <2> QED
      BY <1>2, <2>1, <2>2 DEF TakeInterrupt, ConsumeInterrupt, clientVars, storeVars, TypeOK
  <1>3. CASE InvokeReturns(r)
    <2>1. PICK ret : run' = [run EXCEPT ![r] = Report(ret)]
      BY <1>3 DEF InvokeReturns
    <2>2. RunType'
      BY <2>1, ReportFacts DEF TypeOK, RunType
    <2> QED
      BY <1>3, <2>2 DEF InvokeReturns, runnerVars, clientVars, storeVars, TypeOK, FnType
  <1>4. CASE SaveInterrupt(r)
    <2>1. RunType'
      BY <1>4, RunMoves DEF SaveInterrupt, TypeOK
    <2> QED
      BY <1>4, <2>1 DEF SaveInterrupt, clientVars, storeVars, TypeOK, FnType
  <1>5. CASE Push(r)
    <2>1. Head(run[r].todo) \in Events /\ Tail(run[r].todo) \in Seq(Events)
      BY <1>5 DEF Push, TypeOK, RunType
    <2>2. run' = [run EXCEPT ![r].todo = Tail(run[r].todo)] /\ RunType
      BY <1>5 DEF Push, TypeOK
    <2>3. RunType'
      BY <2>1, <2>2 DEF RunType
    <2>4. out' \in [Requests -> Seq(Events)] /\ \A q \in Requests : Len(out'[q]) <= Cap
      BY <1>5, <2>1 DEF Push, Room, TypeOK
    <2> QED
      BY <1>5, <2>3, <2>4 DEF Push, runnerVars, clientVars, storeVars, TypeOK, FnType
  <1>6. CASE Cleanup(r)
    <2>1. RunType'
      BY <1>6, RunMoves DEF Cleanup, TypeOK
    <2> QED
      BY <1>6, <2>1 DEF Cleanup, Released, clientVars, storeVars, TypeOK, FnType
  <1>7. CASE CloseEvents(r)
    <2>1. RunType'
      BY <1>7, RunMoves DEF CloseEvents, TypeOK
    <2> QED
      BY <1>7, <2>1 DEF CloseEvents, runnerVars, clientVars, storeVars, TypeOK, FnType
  <1> QED
    BY <1>1, <1>2, <1>3, <1>4, <1>5, <1>6, <1>7 DEF RunNext

\* The steps of the function goroutine leave the runner and the clients alone.
LEMMA FnFrame ==
  ASSUME NEW r \in Requests, FnNext(r)
  PROVE  UNCHANGED <<runnerVars, run, clientVars, met>>
  BY DEF FnNext, Emit, FnBegin, FnOpen, FnCompile, FnInvoke, FnLoad, FnStore, FnMark,
         FnReturn

LEMMA TrackTypes ==
  ASSUME TypeOK, NEW r \in Requests, NEW status \in Statuses, Track(r, status)
  PROVE  tracker' \in [Sessions -> [status : Statuses, by : Requests \cup {None}]]
  BY DEF Track, TypeOK

\* What a step of the RunFunc other than Emit does: it was at work, nobody else's
\* function changes, and one that says it was cancelled has a context that is done.
FnStep(r) ==
    /\ FnActive(r)
    /\ FnType'
    /\ \A q \in Requests \ {r} : fn'[q] = fn[q]
    /\ fn'[r].ret = "cancelled" => fn[r].ret = "cancelled" \/ ContextDone(r)
    /\ UNCHANGED out

LEMMA FnSteps ==
  ASSUME TypeOK, NEW r \in Requests, FnNext(r)
  PROVE  /\ Emit(r) \/ FnStep(r)
         /\ UNCHANGED tracker \/ \E status \in Statuses : Track(r, status)
         /\ history' \in [Sessions -> SUBSET Requests]
  <1> USE EventSeqs
  <1>0. FnType
    BY DEF TypeOK
  <1>1. ASSUME NEW pc, At(r, pc), pc # "none", pc # "over"
        PROVE  FnActive(r)
    BY <1>1 DEF At, FnActive
  <1>2. ASSUME NEW ret \in Returns, Return(r, ret)
        PROVE  /\ FnType' /\ \A q \in Requests \ {r} : fn'[q] = fn[q]
               /\ fn'[r].ret = ret
    <2>1. "over" \in FnPc /\ <<>> \in Seq(Events)
      BY DEF FnPc
    <2> QED
      BY <1>0, <1>2, <2>1, FnGoes
  <1>3. ASSUME NEW pc \in FnPc, NEW events \in Seq(Events), Continue(r, pc, events)
        PROVE  /\ FnType' /\ \A q \in Requests \ {r} : fn'[q] = fn[q]
               /\ fn'[r].ret = fn[r].ret
    BY <1>0, <1>3, FnMoves, FnHas DEF Continue
  <1>4. ASSUME UNCHANGED history
        PROVE  history' \in [Sessions -> SUBSET Requests]
    BY <1>4 DEF TypeOK
  <1>5. CASE Emit(r)
    BY <1>4, <1>5 DEF Emit, storeVars
  <1>6. CASE FnBegin(r)
    <2>1. FnActive(r) /\ UNCHANGED <<out, storeVars>>
      BY <1>1, <1>6 DEF FnBegin
    <2>2. CASE ContextDone(r) /\ Return(r, "cancelled")
      BY <1>2, <1>4, <2>1, <2>2 DEF FnStep, Returns, storeVars
    <2>3. CASE ~ContextDone(r) /\ Continue(r, "open", IF resumed[r] = None THEN <<"progress">> ELSE <<>>)
      BY <1>3, <1>4, <2>1, <2>3 DEF FnStep, FnPc, storeVars
    <2> QED
      BY <1>6, <2>2, <2>3 DEF FnBegin
  <1>7. CASE FnOpen(r)
    <2>1. FnActive(r) /\ UNCHANGED <<out, history>>
      BY <1>1, <1>7 DEF FnOpen
    <2>2. CASE Move(r, "return", <<"placeholder">>, "ok", {}) /\ UNCHANGED tracker
      <3>1. "return" \in FnPc /\ "ok" \in Returns /\ <<"placeholder">> \in Seq(Events)
        BY DEF FnPc, Returns
      <3> QED
        BY <1>0, <1>4, <2>1, <2>2, <3>1, FnGoes DEF FnStep
    <2>3. CASE Return(r, "err") /\ Track(r, "failed")
      BY <1>2, <1>4, <2>1, <2>3 DEF FnStep, Returns, Statuses
    <2>4. CASE Continue(r, "compile", <<>>) /\ Track(r, "running")
      BY <1>3, <1>4, <2>1, <2>4 DEF FnStep, FnPc, Statuses
    <2> QED
      BY <1>7, <2>2, <2>3, <2>4 DEF FnOpen
  <1>8. CASE FnCompile(r)
    <2>1. FnActive(r) /\ UNCHANGED <<out, history>>
      BY <1>1, <1>8 DEF FnCompile
    <2>2. CASE Return(r, "err") /\ Track(r, "failed")
      BY <1>2, <1>4, <2>1, <2>2 DEF FnStep, Returns, Statuses
    <2>3. CASE Continue(r, "invoke", <<"progress">>) /\ UNCHANGED tracker
      BY <1>3, <1>4, <2>1, <2>3 DEF FnStep, FnPc
    <2> QED
      BY <1>8, <2>2, <2>3 DEF FnCompile
  <1>9. CASE FnInvoke(r)
    <2>1. FnActive(r) /\ UNCHANGED <<out, history>>
      BY <1>1, <1>9 DEF FnInvoke
    <2>2. ASSUME NEW ret \in {"ok", "interrupt"}, Move(r, "load", <<>>, ret, {})
          PROVE  FnStep(r)
      <3>1. "load" \in FnPc /\ ret \in Returns /\ ret # "cancelled" /\ <<>> \in Seq(Events)
        BY DEF FnPc, Returns
      <3> QED
        BY <1>0, <2>1, <2>2, <3>1, FnGoes DEF FnStep
    <2>3. ASSUME NEW ret \in {"interrupt", "err", "panic"}, Return(r, ret)
          PROVE  FnStep(r)
      BY <1>2, <2>1, <2>3 DEF FnStep, Returns
    <2>4. ASSUME ContextDone(r), Return(r, "cancelled")
          PROVE  FnStep(r)
      BY <1>2, <2>1, <2>4 DEF FnStep, Returns
    <2>5. UNCHANGED tracker \/ \E status \in Statuses : Track(r, status)
      BY <1>9 DEF FnInvoke, Statuses
    <2>6. FnStep(r)
      BY <1>9, <2>2, <2>3, <2>4 DEF FnInvoke
    <2> QED
      BY <1>4, <2>1, <2>5, <2>6
  <1>10. AfterAnswer(r) \in FnPc
    BY DEF AfterAnswer, FnPc
  <1>11. CASE FnLoad(r)
    <2>1. FnActive(r) /\ UNCHANGED <<out, storeVars>>
      BY <1>1, <1>11 DEF FnLoad
    <2>2. CASE Continue(r, AfterAnswer(r), <<"message">>)
      BY <1>3, <1>4, <1>10, <2>1, <2>2 DEF FnStep, storeVars
    <2>3. CASE Move(r, "store", <<>>, fn[r].ret, history[session[r]])
      <3>1. history[session[r]] \in SUBSET Requests
        BY DEF TypeOK
      <3>2. FnStep(r)
        BY <1>0, <2>1, <2>3, <3>1, FnMoves, FnHas DEF FnStep, FnPc
      <3> QED
        BY <1>4, <2>1, <3>2 DEF storeVars
    <2> QED
      BY <1>11, <2>2, <2>3 DEF FnLoad
  <1>12. CASE FnStore(r)
    <2>1. FnActive(r) /\ UNCHANGED <<out, tracker>>
      BY <1>1, <1>12 DEF FnStore
    <2>2. FnStep(r)
      BY <1>3, <1>10, <1>12, <2>1 DEF FnStore, FnStep
    <2>3. WithAnswer(r) \in SUBSET Requests
      BY <1>0, FnHas DEF WithAnswer
    <2>4. history' \in [Sessions -> SUBSET Requests]
      BY <1>12, <2>3 DEF FnStore, TypeOK
    <2> QED
      BY <2>1, <2>2, <2>4
  <1>13. CASE FnMark(r)
    BY <1>1, <1>2, <1>4, <1>13 DEF FnMark, FnStep, Returns, Statuses
  <1>14. CASE FnReturn(r)
    <2>1. FnActive(r) /\ UNCHANGED <<out, storeVars>>
      BY <1>1, <1>14 DEF FnReturn
    <2>2. Return(r, fn[r].ret) /\ fn[r].ret \in Returns
      BY <1>0, <1>14, FnHas DEF FnReturn
    <2> QED
      BY <1>2, <1>4, <2>1, <2>2 DEF FnStep, storeVars
  <1> QED
    BY <1>5, <1>6, <1>7, <1>8, <1>9, <1>11, <1>12, <1>13, <1>14 DEF FnNext

LEMMA FnTypes ==
  ASSUME TypeOK, NEW r \in Requests, FnNext(r)
  PROVE  TypeOK'
  <1>1. UNCHANGED <<registered, cancelled, interruptID, resumed, run, session, reader, left, got, met>>
    BY FnFrame DEF runnerVars, clientVars
  <1>2. RunType'
    BY <1>1 DEF TypeOK, RunType
  <1>3. tracker' \in [Sessions -> [status : Statuses, by : Requests \cup {None}]]
    BY FnSteps, TrackTypes DEF TypeOK
  <1>4. history' \in [Sessions -> SUBSET Requests]
    BY FnSteps
  <1>5. CASE FnStep(r)
    BY <1>1, <1>2, <1>3, <1>4, <1>5 DEF FnStep, TypeOK
  <1>6. CASE Emit(r)
    <2>1. fn[r].todo \in Seq(Events) /\ fn[r].todo # <<>> /\ FnType
      BY <1>6, FnHas DEF Emit, TypeOK
    <2>2. Head(fn[r].todo) \in Events /\ Tail(fn[r].todo) \in Seq(Events)
      BY <2>1
    <2>3. FnType'
      BY <1>6, <2>1, <2>2, FnMoves, FnHas DEF Emit
    <2>4. out' \in [Requests -> Seq(Events)] /\ \A q \in Requests : Len(out'[q]) <= Cap
      <3>1. CASE UNCHANGED out
        BY <3>1 DEF TypeOK
      <3>2. CASE Room(r) /\ out' = [out EXCEPT ![r] = Append(@, Head(fn[r].todo))]
        BY <2>2, <3>2, CanvasAssumption DEF Room, TypeOK
      <3> QED
        BY <1>6, <3>1, <3>2 DEF Emit
    <2> QED
      BY <1>1, <1>2, <1>3, <1>4, <2>3, <2>4 DEF TypeOK
  <1> QED
    BY <1>5, <1>6, FnSteps

\* The steps of the handler and of the client.
LEMMA ClientTypes ==
  ASSUME TypeOK, NEW r \in Requests, HandlerNext(r) \/ Leave(r)
  PROVE  TypeOK'
  <1> USE CanvasAssumption
  <1>1. UNCHANGED <<session, registered, cancelled, interruptID, resumed, run, fn, tracker, history, met>>
    BY DEF HandlerNext, Read, ReadEnd, Leave, runnerVars, storeVars
  <1>2. RunType' /\ FnType'
    BY <1>1 DEF TypeOK, RunType, FnType
  <1>3. CASE Read(r)
    <2>1. Tail(out[r]) \in Seq(Events) /\ Len(Tail(out[r])) <= Cap
      BY <1>3 DEF Read, TypeOK
    <2>2. out' \in [Requests -> Seq(Events)] /\ \A q \in Requests : Len(out'[q]) <= Cap
      BY <1>3, <2>1 DEF Read, TypeOK
    <2>3. got' \in [Requests -> SUBSET Told] /\ reader' \in [Requests -> {"none", "reading", "over"}]
          /\ left' = left
      <3>1. CASE r \in left
        BY <1>3, <3>1 DEF Read, TypeOK
      <3>2. CASE r \notin left
        <4>1. got[r] \cup ({Head(out[r])} \cap Told) \in SUBSET Told
          BY DEF TypeOK
        <4>2. got' = [got EXCEPT ![r] = got[r] \cup ({Head(out[r])} \cap Told)]
              /\ UNCHANGED <<reader, left>>
          BY <1>3, <3>2 DEF Read
        <4> QED
          BY <4>1, <4>2 DEF TypeOK
      <3> QED
        BY <3>1, <3>2
    <2> QED
      BY <1>1, <1>2, <2>2, <2>3 DEF TypeOK
  <1>4. CASE ReadEnd(r)
    BY <1>1, <1>2, <1>4 DEF ReadEnd, TypeOK
  <1>5. CASE Leave(r)
    BY <1>1, <1>2, <1>5 DEF Leave, TypeOK
  <1> QED
    BY <1>3, <1>4, <1>5 DEF HandlerNext

LEMMA NextTypes ==
  ASSUME TypeOK, [Next]_vars
  PROVE  TypeOK'
  <1>1. CASE UNCHANGED vars
    BY <1>1 DEF vars, TypeOK, RunType, FnType
  <1>2. ASSUME NEW r \in Requests,
               Register(r) \/ RunNext(r) \/ FnNext(r) \/ HandlerNext(r) \/ Leave(r)
        PROVE  TypeOK'
    BY <1>2, RunTypes, FnTypes, ClientTypes
  <1> QED
    BY <1>1, <1>2 DEF Next

-----------------------------------------------------------------------------
(* The registration and the interrupts *)

\* Only these steps touch what the runner keeps.
LEMMA RunnerFrame ==
  ASSUME [Next]_vars
  PROVE  \/ \E r \in Requests :
               \/ Register(r) \/ TakeInterrupt(r) \/ SaveInterrupt(r) \/ Cleanup(r)
               \/ (InvokeReturns(r) \/ Push(r) \/ CloseEvents(r)) /\ UNCHANGED <<session, runnerVars>>
         \/ UNCHANGED <<session, runnerVars, run>>
  BY FnFrame DEF Next, RunNext, HandlerNext, Read, ReadEnd, Leave, InvokeReturns, Push,
                 CloseEvents, clientVars, vars, runnerVars

\* A run that replaces another cancels it, and one that cleans up leaves the
\* registration of a newer one alone.
LEMMA NextRegistration ==
  ASSUME TypeOK, RegistrationKept, [Next]_vars
  PROVE  RegistrationKept'
  <1> USE CanvasAssumption
  <1>1. ASSUME NEW r \in Requests, Register(r)
        PROVE  RegistrationKept'
    BY <1>1 DEF Register, RegistrationKept, Holds, TypeOK, RunType
  <1>2. ASSUME NEW r \in Requests, TakeInterrupt(r) \/ SaveInterrupt(r)
        PROVE  RegistrationKept'
    BY <1>2 DEF TakeInterrupt, SaveInterrupt, RegistrationKept, Holds, TypeOK, RunType
  <1>3. ASSUME NEW r \in Requests, Cleanup(r)
        PROVE  RegistrationKept'
    BY <1>3 DEF Cleanup, Released, RegistrationKept, Holds, TypeOK, RunType
  <1>4. ASSUME NEW r \in Requests, InvokeReturns(r) \/ Push(r) \/ CloseEvents(r),
               UNCHANGED runnerVars
        PROVE  RegistrationKept'
    <2>1. \A q \in Requests : Holds(q)' => Holds(q)
      <3>1. \A q \in Requests \ {r} : run'[q] = run[q]
        BY <1>4 DEF InvokeReturns, Push, CloseEvents, TypeOK, RunType
      <3>2. Holds(r)' => Holds(r)
        BY <1>4 DEF InvokeReturns, Push, CloseEvents, Holds, TypeOK, RunType
      <3> QED
        BY <3>1, <3>2 DEF Holds
    <2> QED
      BY <1>4, <2>1 DEF runnerVars, RegistrationKept
  <1>5. CASE UNCHANGED <<runnerVars, run>>
    BY <1>5 DEF runnerVars, RegistrationKept, Holds
  <1> QED
    BY <1>1, <1>2, <1>3, <1>4, <1>5, RunnerFrame

\* A step that leaves the interrupts alone keeps what is known of them as long as
\* no run goes back.
LEMMA InterruptsKept ==
  ASSUME TypeOK, AnsweredOnce, Interrupts, UNCHANGED <<session, interruptID, resumed>>,
         \A q \in Requests : /\ Saved(q) => Saved(q)'
                             /\ run'[q].pc \in {"idle", "resume"} => run[q].pc \in {"idle", "resume"}
  PROVE  (AnsweredOnce /\ Interrupts)'
  <1>1. AnsweredOnce'
    BY DEF AnsweredOnce
  <1>2. ASSUME NEW s \in Sessions, interruptID[s] # None
        PROVE  session[interruptID[s]] = s /\ Saved(interruptID[s])'
    BY <1>2 DEF Interrupts, TypeOK
  <1>3. ASSUME NEW q \in Requests, resumed[q] # None
        PROVE  /\ Saved(resumed[q])' /\ run'[q].pc \notin {"idle", "resume"}
               /\ \A s \in Sessions : interruptID[s] # resumed[q]
    <2>1. /\ resumed[q] \in Requests /\ Saved(resumed[q]) /\ run[q].pc \notin {"idle", "resume"}
          /\ \A s \in Sessions : interruptID[s] # resumed[q]
      BY <1>3 DEF Interrupts, TypeOK
    <2>2. Saved(resumed[q])'
      BY <2>1
    <2> QED
      BY <2>1, <2>2
  <1> QED
    BY <1>1, <1>2, <1>3 DEF Interrupts

LEMMA NextInterrupts ==
  ASSUME TypeOK, AnsweredOnce, Interrupts, [Next]_vars
  PROVE  (AnsweredOnce /\ Interrupts)'
  <1> USE CanvasAssumption
  <1>1. ASSUME NEW r \in Requests, Register(r)
        PROVE  (AnsweredOnce /\ Interrupts)'
    BY <1>1, InterruptsKept DEF Register, Saved, TypeOK, RunType
  <1>2. ASSUME NEW r \in Requests, TakeInterrupt(r)
        PROVE  (AnsweredOnce /\ Interrupts)'
    <2>1. UNCHANGED session /\ run' = [run EXCEPT ![r].pc = "invoke"] /\ run[r].pc = "resume"
          /\ resumed' = [resumed EXCEPT ![r] = interruptID[session[r]]]
          /\ interruptID' = [interruptID EXCEPT ![session[r]] = None]
      BY <1>2 DEF TakeInterrupt, ConsumeInterrupt, clientVars
    <2>2. \A q \in Requests : Saved(q)' <=> Saved(q)
      BY <2>1 DEF Saved, TypeOK, RunType
    <2>3. Interrupts'
      BY <2>1, <2>2 DEF Interrupts, TypeOK, RunType
    <2>4. AnsweredOnce'
      BY <2>1 DEF AnsweredOnce, Interrupts, TypeOK
    <2> QED
      BY <2>3, <2>4
  <1>3. ASSUME NEW r \in Requests, SaveInterrupt(r)
        PROVE  (AnsweredOnce /\ Interrupts)'
    <2>1. UNCHANGED <<session, resumed>> /\ run' = [run EXCEPT ![r].pc = "push"] /\ run[r].pc = "save"
          /\ interruptID' = [interruptID EXCEPT ![session[r]] = r]
      BY <1>3 DEF SaveInterrupt, clientVars
    <2>2. Saved(r)' /\ ~Saved(r) /\ \A q \in Requests \ {r} : Saved(q)' <=> Saved(q)
      BY <2>1 DEF Saved, TypeOK, RunType
    <2>3. Interrupts'
      BY <2>1, <2>2 DEF Interrupts, TypeOK, RunType
    <2>4. AnsweredOnce'
      BY <2>1, <2>2 DEF AnsweredOnce, Interrupts, TypeOK
    <2> QED
      BY <2>3, <2>4
  <1>4. ASSUME NEW r \in Requests, Cleanup(r)
        PROVE  (AnsweredOnce /\ Interrupts)'
    BY <1>4, InterruptsKept DEF Cleanup, clientVars, Saved, TypeOK, RunType
  <1>5. ASSUME NEW r \in Requests, InvokeReturns(r) \/ Push(r) \/ CloseEvents(r),
               UNCHANGED <<session, runnerVars>>
        PROVE  (AnsweredOnce /\ Interrupts)'
    <2>1. \A q \in Requests : /\ Saved(q) => Saved(q)'
                              /\ run'[q].pc \in {"idle", "resume"} => run[q].pc \in {"idle", "resume"}
      <3>1. \A q \in Requests \ {r} : run'[q] = run[q]
        BY <1>5 DEF InvokeReturns, Push, CloseEvents, TypeOK, RunType
      <3>2. CASE InvokeReturns(r)
        <4>1. PICK ret : run' = [run EXCEPT ![r] = Report(ret)]
          BY <3>2 DEF InvokeReturns
        <4>2. run[r].pc = "invoke" /\ run'[r].pc \in {"save", "push"}
          BY <3>2, <4>1, ReportFacts DEF InvokeReturns, TypeOK, RunType
        <4> QED
          BY <3>1, <4>2 DEF Saved
      <3>3. CASE Push(r) \/ CloseEvents(r)
        <4>1. run[r].pc \in {"push", "close"} /\ run'[r].pc \in {"push", "over"}
          BY <3>3 DEF Push, CloseEvents, TypeOK, RunType
        <4> QED
          BY <3>1, <4>1 DEF Saved
      <3> QED
        BY <1>5, <3>2, <3>3
    <2> QED
      BY <1>5, <2>1, InterruptsKept DEF runnerVars
  <1>6. CASE UNCHANGED <<session, runnerVars, run>>
    BY <1>6, InterruptsKept DEF runnerVars, Saved
  <1> QED
    BY <1>1, <1>2, <1>3, <1>4, <1>5, <1>6, RunnerFrame

-----------------------------------------------------------------------------
(* The terminator of a stream *)

\* A request keeps its terminator while others, or nobody, take a step.
LEMMA TerminatorKept ==
  ASSUME NEW q \in Requests, Terminator(q), left \subseteq left', cancelled \subseteq cancelled',
         run'[q] = run[q], fn'[q] = fn[q], out'[q] = out[q], reader'[q] = reader[q],
         got'[q] = got[q]
  PROVE  Terminator(q)'
  BY DEF Terminator, DoneComes, Closed

\* A step touches the goroutines and the channel of one request.
LEMMA OthersUntouched ==
  ASSUME TypeOK, NEW r \in Requests,
         Register(r) \/ RunNext(r) \/ FnNext(r) \/ HandlerNext(r) \/ Leave(r)
  PROVE  /\ left \subseteq left' /\ cancelled \subseteq cancelled'
         /\ \A q \in Requests \ {r} :
               /\ run'[q] = run[q] /\ fn'[q] = fn[q] /\ out'[q] = out[q]
               /\ reader'[q] = reader[q] /\ got'[q] = got[q]
  <1>1. CASE Register(r)
    BY <1>1 DEF Register, TypeOK, RunType
  <1>2. CASE RunNext(r)
    BY <1>2 DEF RunNext, TakeInterrupt, Continue, Move, InvokeReturns, SaveInterrupt, Push,
                Cleanup, CloseEvents, runnerVars, clientVars, TypeOK, RunType, FnType
  <1>3. CASE FnNext(r)
    <2>1. UNCHANGED <<run, reader, got, left, cancelled>>
      BY <1>3, FnFrame DEF runnerVars, clientVars
    <2>2. CASE FnStep(r)
      BY <2>1, <2>2 DEF FnStep
    <2>3. CASE Emit(r)
      BY <2>1, <2>3 DEF Emit, Move, TypeOK, FnType
    <2> QED
      BY <1>3, <2>2, <2>3, FnSteps
  <1>4. CASE HandlerNext(r) \/ Leave(r)
    BY <1>4 DEF HandlerNext, Read, ReadEnd, Leave, runnerVars, TypeOK
  <1> QED
    BY <1>1, <1>2, <1>3, <1>4

\* The run goroutine.
LEMMA RunTerminator ==
  ASSUME TypeOK, NEW r \in Requests, Terminator(r), Register(r) \/ RunNext(r)
  PROVE  Terminator(r)'
  <1> USE DEF Terminator, DoneComes, Closed
  <1>1. CASE Register(r)
    BY <1>1 DEF Register, TypeOK, RunType
  <1>2. CASE TakeInterrupt(r)
    BY <1>2 DEF TakeInterrupt, Continue, Move, clientVars, TypeOK, RunType, FnType
  <1>3. CASE InvokeReturns(r)
    <2>1. PICK ret : /\ run' = [run EXCEPT ![r] = Report(ret)]
                     /\ r \in cancelled \/ (fn[r].pc = "over" /\ ret = fn[r].ret)
      <3>1. CASE fn[r].pc = "over" /\ run' = [run EXCEPT ![r] = Report(fn[r].ret)]
        BY <3>1
      <3>2. CASE r \in cancelled /\ run' = [run EXCEPT ![r] = Report("cancelled")]
        BY <3>2
      <3> QED
        BY <1>3, <3>1, <3>2 DEF InvokeReturns
    <2>2. UNCHANGED <<fn, out, reader, left, got, cancelled>> /\ run[r].pc = "invoke"
      BY <1>3 DEF InvokeReturns, runnerVars, clientVars
    <2>3. run'[r] = Report(ret)
      BY <2>1 DEF TypeOK, RunType
    <2>4. r \in left \cup cancelled \/ Has(run'[r].todo, "done")
      BY <2>1, <2>3, ReportFacts
    <2>5. run'[r].pc \in {"save", "push"}
      BY <2>3, ReportFacts
    <2> QED
      BY <2>1, <2>2, <2>4, <2>5
  <1>4. CASE SaveInterrupt(r)
    BY <1>4 DEF SaveInterrupt, clientVars, TypeOK, RunType
  <1>5. CASE Push(r)
    <2>1. run[r].todo \in Seq(Events) /\ run[r].todo # <<>> /\ out[r] \in Seq(Events)
          /\ run[r].pc = "push"
      BY <1>5 DEF Push, TypeOK, RunType
    <2>2. out'[r] = Append(out[r], Head(run[r].todo)) /\ run'[r].todo = Tail(run[r].todo)
          /\ run'[r].pc = "push" /\ UNCHANGED <<fn, reader, left, got, cancelled>>
      BY <1>5 DEF Push, runnerVars, clientVars, TypeOK, RunType
    <2>3. Head(run[r].todo) \in Events
      BY <2>1
    <2>4. DoneComes(r) => DoneComes(r)'
      BY <2>1, <2>2, <2>3, HasTail, HasAppend
    <2> QED
      BY <2>1, <2>2, <2>4
  <1>6. CASE Cleanup(r)
    BY <1>6 DEF Cleanup, clientVars, TypeOK, RunType
  <1>7. CASE CloseEvents(r)
    BY <1>7 DEF CloseEvents, runnerVars, clientVars, TypeOK, RunType
  <1> QED
    BY <1>1, <1>2, <1>3, <1>4, <1>5, <1>6, <1>7 DEF RunNext

\* The RunFunc says that it was cancelled only when its context is done: its client
\* has left, or the channel was closed under it because the run was cancelled.
LEMMA FnTerminator ==
  ASSUME TypeOK, NEW r \in Requests, Terminator(r), FnNext(r)
  PROVE  Terminator(r)'
  <1> USE DEF Terminator, DoneComes, Closed
  <1>1. UNCHANGED <<run, reader, got, left, cancelled>>
    BY FnFrame DEF runnerVars, clientVars
  <1>2. CASE FnStep(r)
    BY <1>1, <1>2 DEF FnStep, FnActive, ContextDone
  <1>3. CASE Emit(r)
    <2>1. fn'[r].pc = fn[r].pc /\ fn'[r].ret = fn[r].ret
      BY <1>3 DEF Emit, Move, TypeOK, FnType
    <2>2. CASE UNCHANGED out
      BY <1>1, <2>1, <2>2
    <2>3. CASE ~Closed(r) /\ out' = [out EXCEPT ![r] = Append(@, Head(fn[r].todo))]
      <3>1. out[r] \in Seq(Events) /\ fn[r].todo \in Seq(Events) /\ fn[r].todo # <<>>
            /\ out'[r] = Append(out[r], Head(fn[r].todo))
        BY <1>3, <2>3 DEF Emit, TypeOK, FnType
      <3>2. Has(out[r], "done") => Has(out'[r], "done")
        BY <3>1, HasAppend
      <3> QED
        BY <1>1, <2>1, <2>3, <3>2
    <2> QED
      BY <1>3, <2>2, <2>3 DEF Emit
  <1> QED
    BY <1>2, <1>3, FnSteps

\* The handler and the client.
LEMMA ClientTerminator ==
  ASSUME TypeOK, NEW r \in Requests, Terminator(r), HandlerNext(r) \/ Leave(r)
  PROVE  Terminator(r)'
  <1> USE DEF Terminator, DoneComes, Closed
  <1>1. CASE Read(r)
    <2>1. UNCHANGED <<run, fn, left, cancelled>> /\ out'[r] = Tail(out[r])
          /\ out[r] \in Seq(Events) /\ out[r] # <<>> /\ reader[r] = "reading"
      BY <1>1 DEF Read, runnerVars, TypeOK
    <2>2. CASE r \in left
      BY <2>1, <2>2
    <2>3. CASE r \notin left
      <3>1. got'[r] = got[r] \cup ({Head(out[r])} \cap Told) /\ reader' = reader
        BY <1>1, <2>3 DEF Read, TypeOK
      <3>2. DoneComes(r) => DoneComes(r)'
        BY <2>1, <3>1, HasTail DEF Told
      <3> QED
        BY <2>1, <3>1, <3>2
    <2> QED
      BY <2>2, <2>3
  <1>2. CASE ReadEnd(r)
    BY <1>2 DEF ReadEnd, runnerVars, TypeOK
  <1>3. CASE Leave(r)
    BY <1>3 DEF Leave, runnerVars, TypeOK
  <1> QED
    BY <1>1, <1>2, <1>3 DEF HandlerNext

-----------------------------------------------------------------------------
(* The theorems *)

LEMMA NextRunnerInv == RunnerInv /\ [Next]_vars => RunnerInv'
  <1> SUFFICES ASSUME RunnerInv, [Next]_vars PROVE RunnerInv'
    OBVIOUS
  <1>1. TypeOK' /\ RegistrationKept' /\ (AnsweredOnce /\ Interrupts)'
    BY NextTypes, NextRegistration, NextInterrupts DEF RunnerInv
  <1>2. ASSUME NEW q \in Requests PROVE Terminator(q)'
    <2>1. CASE UNCHANGED vars
      BY <2>1, TerminatorKept DEF vars, RunnerInv
    <2>2. ASSUME NEW r \in Requests,
                 Register(r) \/ RunNext(r) \/ FnNext(r) \/ HandlerNext(r) \/ Leave(r)
          PROVE  Terminator(q)'
      <3>1. CASE q = r
        BY <2>2, <3>1, RunTerminator, FnTerminator, ClientTerminator DEF RunnerInv
      <3>2. CASE q # r
        BY <2>2, <3>2, OthersUntouched, TerminatorKept DEF RunnerInv
      <3> QED
        BY <3>1, <3>2
    <2> QED
      BY <2>1, <2>2 DEF Next
  <1> QED
    BY <1>1, <1>2 DEF RunnerInv

\* The invariant the other theorems rest on holds in every run of the specification.
THEOREM RunnerInvariant == Spec => []RunnerInv
  BY InitRunnerInv, NextRunnerInv, PTL DEF Spec

\* Of two runs of the canvas that have not cleaned up one has been cancelled,
\* whatever the number of requests and the order of their registrations and ends.
THEOREM OneRunAtATime == Spec => []OneRunGoesOn
  <1>1. RunnerInv => OneRunGoesOn
    BY DEF RunnerInv, RegistrationKept, OneRunGoesOn
  <1> QED
    BY <1>1, RunnerInvariant, PTL

\* An interrupt is answered by at most one request, whether the requests that find it
\* come at the same time or one after the other.
THEOREM InterruptsAreAnsweredOnce == Spec => []AnsweredOnce
  <1>1. RunnerInv => AnsweredOnce
    BY DEF RunnerInv
  <1> QED
    BY <1>1, RunnerInvariant, PTL

\* A stream that ends under a client that stayed, and whose run was not cancelled,
\* has ended with `done`, for every capacity of the channel.
THEOREM StreamsEndWithDone == Spec => []EndsWithDone
  <1>1. RunnerInv => EndsWithDone
    BY DEF RunnerInv, EndsWithDone, Terminator, DoneComes, Closed, Has
  <1> QED
    BY <1>1, RunnerInvariant, PTL
=============================================================================
