------------------------ MODULE CanvasSessionProofs ------------------------
(***************************************************************************)
(* What the requests of one session may rely on, for every set of requests *)
(* and sessions: an interrupt they were told of is not lost, an answer they *)
(* have seen is kept, and a run tracked as running is running.             *)
(***************************************************************************)
EXTENDS CanvasRunnerProofs

Step(r) == Register(r) \/ RunNext(r) \/ FnNext(r) \/ HandlerNext(r) \/ Leave(r)

\* Where an event of a queue comes from.
LEMMA HasOrigins ==
  ASSUME NEW s \in Seq(Events), NEW d
  PROVE  /\ \A e \in Events : Has(Append(s, e), d) => Has(s, d) \/ d = e
         /\ s # <<>> => Has(s, Head(s))
         /\ s # <<>> /\ Has(Tail(s), d) => Has(s, d)
         /\ ~Has(<<>>, d)
  <1>1. ASSUME NEW e \in Events, Has(Append(s, e), d)
        PROVE  Has(s, d) \/ d = e
    <2>1. PICK i \in 1..Len(Append(s, e)) : Append(s, e)[i] = d
      BY <1>1 DEF Has
    <2>2. Len(Append(s, e)) = Len(s) + 1 /\ Len(s) \in Nat
      OBVIOUS
    <2>3. CASE i = Len(s) + 1
      BY <2>1, <2>3
    <2>4. CASE i \in 1..Len(s)
      <3>1. Append(s, e)[i] = s[i]
        BY <2>4
      <3> QED
        BY <2>1, <2>4, <3>1 DEF Has
    <2> QED
      BY <2>1, <2>2, <2>3, <2>4
  <1>2. ASSUME s # <<>> PROVE Has(s, Head(s))
    <2>1. 1 \in 1..Len(s) /\ Head(s) = s[1]
      BY <1>2
    <2> QED
      BY <2>1 DEF Has
  <1>3. ASSUME s # <<>>, Has(Tail(s), d) PROVE Has(s, d)
    <2>1. PICK i \in 1..Len(Tail(s)) : Tail(s)[i] = d
      BY <1>3 DEF Has
    <2>2. i + 1 \in 1..Len(s) /\ s[i + 1] = Tail(s)[i]
      BY <1>3, <2>1
    <2> QED
      BY <2>1, <2>2 DEF Has
  <1>4. ~Has(<<>>, d)
    BY DEF Has
  <1> QED
    BY <1>1, <1>2, <1>3, <1>4

\* No one else's events are among the ones a step puts together.
LEMMA NotAmong ==
  /\ \A d : Has(<<"progress">>, d) => d = "progress"
  /\ \A d : Has(<<"placeholder">>, d) => d = "placeholder"
  /\ \A d : Has(<<"message">>, d) => d = "message"
  /\ \A d : ~Has(<<>>, d)
  BY DEF Has

LEMMA ReportSays ==
  ASSUME NEW ret
  PROVE  /\ ~Has(Report(ret).todo, "message")
         /\ Report(ret).pc = "push" => ~Has(Report(ret).todo, "waiting")
  <1>1. ~Has(<<"done">>, "message") /\ ~Has(<<"done">>, "waiting")
    BY DEF Has
  <1>2. ~Has(<<"waiting", "done">>, "message")
    BY DEF Has
  <1>3. ~Has(<<"error", "done">>, "message") /\ ~Has(<<"error", "done">>, "waiting")
    BY DEF Has
  <1>4. ~Has(<<>>, "message") /\ ~Has(<<>>, "waiting")
    BY DEF Has
  <1> QED
    BY <1>1, <1>2, <1>3, <1>4 DEF Report

LEMMA MoveSets ==
  ASSUME FnType, NEW r \in Requests, NEW p, NEW t, NEW ret, NEW row, Move(r, p, t, ret, row)
  PROVE  /\ fn'[r].pc = p /\ fn'[r].todo = t /\ fn'[r].ret = ret /\ fn'[r].read = row
         /\ \A q \in Requests \ {r} : fn'[q] = fn[q]
  BY DEF FnType, Move

-----------------------------------------------------------------------------
(* The steps, by what they do to the parts of a request *)

\* Only a registration makes a request active, or meets another.
LEMMA ActiveShrinks ==
  ASSUME TypeOK, NEW r \in Requests, Step(r), ~Register(r)
  PROVE  /\ UNCHANGED <<session, met>>
         /\ \A q \in Requests : Active(q)' => Active(q)
  <1>1. UNCHANGED <<session, met>>
    <2>1. CASE FnNext(r)
      BY <2>1, FnFrame DEF clientVars
    <2>2. CASE ~FnNext(r)
      BY <2>2 DEF Step, RunNext, TakeInterrupt, InvokeReturns, SaveInterrupt, Push, Cleanup, CloseEvents,
                  HandlerNext, Read, ReadEnd, Leave, clientVars
    <2> QED
      BY <2>1, <2>2
  <1>2. ASSUME NEW q \in Requests \ {r}, Active(q)' PROVE Active(q)
    BY <1>2, OthersUntouched DEF Step, Active, FnActive
  <1>3. Active(r)' => Active(r)
    <2>1. CASE RunNext(r)
      BY <2>1 DEF RunNext, TakeInterrupt, InvokeReturns, SaveInterrupt, Push, Cleanup, CloseEvents, Active
    <2>2. CASE FnNext(r)
      <3>1. UNCHANGED run
        BY <2>2, FnFrame
      <3>2. FnActive(r)' => FnActive(r)
        <4>1. CASE FnStep(r)
          BY <4>1 DEF FnStep
        <4>2. CASE Emit(r)
          BY <4>2 DEF Emit, Move, FnActive, FnType, TypeOK
        <4> QED
          BY <2>2, <4>1, <4>2, FnSteps
      <3> QED
        BY <3>1, <3>2 DEF Active
    <2>3. CASE HandlerNext(r) \/ Leave(r)
      BY <2>3 DEF HandlerNext, Read, ReadEnd, Leave, Active, FnActive
    <2> QED
      BY <2>1, <2>2, <2>3 DEF Step
  <1> QED
    BY <1>1, <1>2, <1>3

\* A request that starts while another of its session is at work has met it.
LEMMA NextApart ==
  ASSUME TypeOK, Apart, NEW r \in Requests, Step(r)
  PROVE  Apart' /\ met \subseteq met' /\ UNCHANGED session
  <1>1. CASE Register(r)
    <2>1. met' = met \cup Others(r) \cup (IF Others(r) = {} THEN {} ELSE {r}) /\ UNCHANGED session
      BY <1>1 DEF Register
    <2>2. \A q \in Requests \ {r} : Active(q)' <=> Active(q)
      BY <1>1, OthersUntouched DEF Active, FnActive
    <2>3. ASSUME NEW q \in Requests \ met', Active(q)', NEW x \in Others(q)' PROVE FALSE
      <3>1. q \notin met /\ x \in Requests \ {q} /\ session[x] = session[q] /\ Active(x)'
        BY <2>1, <2>3 DEF Others
      <3>2. CASE q = r
        <4>1. x \in Others(r)
          BY <2>2, <3>1, <3>2 DEF Others
        <4> QED
          BY <2>1, <2>3, <3>2, <4>1
      <3>3. CASE x = r
        <4>1. q \in Others(r)
          BY <2>2, <2>3, <3>1, <3>3 DEF Others
        <4> QED
          BY <2>1, <2>3, <4>1
      <3>4. CASE q # r /\ x # r
        <4>1. x \in Others(q) /\ Active(q)
          BY <2>2, <2>3, <3>1, <3>4 DEF Others
        <4> QED
          BY <3>1, <4>1 DEF Apart
      <3> QED
        BY <3>2, <3>3, <3>4
    <2>4. Apart'
      BY <2>3 DEF Apart
    <2> QED
      BY <2>1, <2>4
  <1>2. CASE ~Register(r)
    BY <1>2, ActiveShrinks DEF Apart, Others
  <1> QED
    BY <1>1, <1>2

\* The steps of the RunFunc that neither emit nor touch the conversation.
FnQuiet(r) ==
    FnBegin(r) \/ FnOpen(r) \/ FnCompile(r) \/ FnInvoke(r) \/ FnMark(r) \/ FnReturn(r)

LEMMA FnQuietSays ==
  ASSUME TypeOK, NEW r \in Requests, FnQuiet(r)
  PROVE  /\ ~Has(fn'[r].todo, "message") /\ ~Has(fn'[r].todo, "waiting")
         /\ fn'[r].pc # "store"
         /\ UNCHANGED <<out, history>>
  <1>0. FnType
    BY DEF TypeOK
  <1>1. ASSUME NEW p, p # "store", NEW t \in {<<>>, <<"progress">>, <<"placeholder">>}, NEW ret,
               Move(r, p, t, ret, {})
        PROVE  /\ ~Has(fn'[r].todo, "message") /\ ~Has(fn'[r].todo, "waiting")
               /\ fn'[r].pc # "store"
    <2>1. fn'[r].todo = t /\ fn'[r].pc = p
      BY <1>0, <1>1 DEF Move, FnType
    <2> QED
      BY <1>1, <2>1, NotAmong
  <1>2. UNCHANGED <<out, history>>
    BY DEF FnQuiet, FnBegin, FnOpen, FnCompile, FnInvoke, FnMark, FnReturn, storeVars
  <1>3. \E p \in FnPc, t \in {<<>>, <<"progress">>, <<"placeholder">>}, ret \in Returns \cup {fn[r].ret} :
            p # "store" /\ Move(r, p, t, ret, {})
    <2>1. CASE FnBegin(r)
      BY <2>1 DEF FnBegin, Return, Continue, FnPc, Returns
    <2>2. CASE FnOpen(r)
      BY <2>2 DEF FnOpen, Return, Continue, FnPc, Returns
    <2>3. CASE FnCompile(r)
      BY <2>3 DEF FnCompile, Return, Continue, FnPc, Returns
    <2>4. CASE FnInvoke(r)
      BY <2>4 DEF FnInvoke, Return, Continue, FnPc, Returns
    <2>5. CASE FnMark(r) \/ FnReturn(r)
      BY <2>5 DEF FnMark, FnReturn, Return, FnPc, Returns
    <2> QED
      BY <2>1, <2>2, <2>3, <2>4, <2>5 DEF FnQuiet
  <1> QED
    BY <1>1, <1>2, <1>3

\* The steps that leave the conversation and what was read of it alone.
LEMMA Conversation ==
  ASSUME TypeOK, NEW r \in Requests, Step(r), ~FnLoad(r), ~FnStore(r)
  PROVE  /\ UNCHANGED history
         /\ \A q \in Requests :
               fn'[q].pc = "store" => fn[q].pc = "store" /\ fn'[q].read = fn[q].read
  <1>1. \A q \in Requests \ {r} : fn'[q] = fn[q]
    BY OthersUntouched DEF Step
  <1>2. CASE Register(r) \/ HandlerNext(r) \/ Leave(r)
    BY <1>2 DEF Register, HandlerNext, Read, ReadEnd, Leave, storeVars
  <1>3. CASE RunNext(r)
    <2>1. CASE TakeInterrupt(r)
      <3>1. fn'[r].pc = "begin" /\ UNCHANGED history
        BY <2>1 DEF TakeInterrupt, Continue, Move, TypeOK, FnType, storeVars
      <3> QED
        BY <1>1, <3>1
    <2>2. CASE ~TakeInterrupt(r)
      BY <1>3, <2>2 DEF RunNext, InvokeReturns, SaveInterrupt, Push, Cleanup, CloseEvents, storeVars
    <2> QED
      BY <2>1, <2>2
  <1>4. CASE Emit(r)
    <2>1. fn'[r].pc = fn[r].pc /\ fn'[r].read = fn[r].read /\ UNCHANGED history
      BY <1>4 DEF Emit, Move, TypeOK, FnType, storeVars
    <2> QED
      BY <1>1, <2>1
  <1>5. CASE FnQuiet(r)
    BY <1>1, <1>5, FnQuietSays
  <1> QED
    BY <1>2, <1>3, <1>4, <1>5 DEF Step, FnNext, FnQuiet

\* Where what a request says comes from: an answer from the row of its session
\* having been written or not being kept, a question from its interrupt being saved.
LEMMA NextSays ==
  ASSUME TypeOK, Speakers, NEW r \in Requests, Step(r)
  PROVE  /\ Speakers'
         /\ \A q \in Requests : Asks(q)' => Asks(q) \/ (q = r /\ SaveInterrupt(r))
         /\ \A q \in Requests : Answers(q)' => Answers(q) \/ (q = r /\ (FnLoad(r) \/ FnStore(r)))
  <1>0. /\ run[r].todo \in Seq(Events) /\ fn[r].todo \in Seq(Events) /\ out[r] \in Seq(Events)
        /\ ~Has(fn[r].todo, "waiting") /\ ~Has(run[r].todo, "message")
    BY DEF TypeOK, RunType, FnType, Speakers
  <1>1. ASSUME NEW q \in Requests \ {r}
        PROVE  /\ ~Has(fn'[q].todo, "waiting") /\ ~Has(run'[q].todo, "message")
               /\ Asks(q)' => Asks(q)
               /\ Answers(q)' => Answers(q)
    BY OthersUntouched DEF Step, Speakers, Asks, Answers, Saved
  <1>2. /\ ~Has(fn'[r].todo, "waiting") /\ ~Has(run'[r].todo, "message")
        /\ Asks(r)' => Asks(r) \/ SaveInterrupt(r)
        /\ Answers(r)' => Answers(r) \/ FnLoad(r) \/ FnStore(r)
    <2>1. CASE Register(r)
      <3>1. /\ UNCHANGED <<fn, out, got>> /\ run'[r].pc = "resume" /\ run'[r].todo = run[r].todo
        BY <2>1 DEF Register, TypeOK, RunType
      <3> QED
        BY <1>0, <3>1 DEF Asks, Answers, Saved
    <2>2. CASE TakeInterrupt(r)
      <3>1. /\ UNCHANGED <<out, got>> /\ run'[r].pc = "invoke" /\ run'[r].todo = run[r].todo
            /\ fn'[r].todo = <<>>
        BY <2>2 DEF TakeInterrupt, Continue, Move, clientVars, TypeOK, RunType, FnType
      <3> QED
        BY <1>0, <3>1, NotAmong DEF Asks, Answers, Saved
    <2>3. CASE InvokeReturns(r)
      <3>1. PICK ret : run' = [run EXCEPT ![r] = Report(ret)]
        BY <2>3 DEF InvokeReturns
      <3>2. UNCHANGED <<fn, out, got>> /\ run'[r] = Report(ret)
        BY <2>3, <3>1 DEF InvokeReturns, clientVars, TypeOK, RunType
      <3>3. /\ ~Has(run'[r].todo, "message") /\ run'[r].pc \in {"save", "push"}
            /\ run'[r].pc = "push" => ~Has(run'[r].todo, "waiting")
        BY <3>2, ReportSays, ReportFacts
      <3> QED
        BY <1>0, <3>2, <3>3 DEF Asks, Answers, Saved
    <2>4. CASE SaveInterrupt(r)
      <3>1. UNCHANGED <<fn, out, got>> /\ run'[r].todo = run[r].todo
        BY <2>4 DEF SaveInterrupt, clientVars, TypeOK, RunType
      <3> QED
        BY <1>0, <2>4, <3>1 DEF Answers
    <2>5. CASE Push(r)
      <3>1. /\ UNCHANGED <<fn, got>> /\ run[r].pc = "push" /\ run[r].todo # <<>>
            /\ run'[r].todo = Tail(run[r].todo)
            /\ out'[r] = Append(out[r], Head(run[r].todo))
        BY <2>5 DEF Push, clientVars, TypeOK, RunType
      <3>2. Head(run[r].todo) \in Events /\ Has(run[r].todo, Head(run[r].todo))
        BY <1>0, <3>1, HasOrigins
      <3>3. \A d : Has(run'[r].todo, d) => Has(run[r].todo, d)
        BY <1>0, <3>1, HasOrigins
      <3>4. \A d : Has(out'[r], d) => Has(out[r], d) \/ d = Head(run[r].todo)
        BY <1>0, <3>1, <3>2, HasOrigins
      <3> QED
        BY <1>0, <3>1, <3>2, <3>3, <3>4 DEF Asks, Answers, Saved
    <2>6. CASE Cleanup(r) \/ CloseEvents(r)
      <3>1. /\ UNCHANGED <<fn, out, got>> /\ run[r].pc \in {"push", "close"}
            /\ run'[r].todo = run[r].todo
        BY <2>6 DEF Cleanup, CloseEvents, clientVars, TypeOK, RunType
      <3> QED
        BY <1>0, <3>1 DEF Asks, Answers, Saved
    <2>7. CASE FnNext(r)
      <3>1. UNCHANGED <<run, got>>
        BY <2>7, FnFrame DEF clientVars
      <3>2. CASE Emit(r)
        <4>1. /\ fn[r].todo # <<>> /\ fn'[r].todo = Tail(fn[r].todo)
              /\ out'[r] = out[r] \/ out'[r] = Append(out[r], Head(fn[r].todo))
          BY <3>2 DEF Emit, Move, TypeOK, FnType
        <4>2. Head(fn[r].todo) \in Events /\ Has(fn[r].todo, Head(fn[r].todo))
          BY <1>0, <4>1, HasOrigins
        <4>3. \A d : Has(fn'[r].todo, d) => Has(fn[r].todo, d)
          BY <1>0, <4>1, HasOrigins
        <4>4. \A d : Has(out'[r], d) => Has(out[r], d) \/ d = Head(fn[r].todo)
          <5>1. CASE out'[r] = out[r]
            BY <5>1
          <5>2. CASE out'[r] = Append(out[r], Head(fn[r].todo))
            BY <1>0, <4>2, <5>2, HasOrigins
          <5> QED
            BY <4>1, <5>1, <5>2
        <4> QED
          BY <1>0, <3>1, <4>2, <4>3, <4>4 DEF Asks, Answers, Saved
      <3>3. CASE FnQuiet(r)
        BY <1>0, <3>1, <3>3, FnQuietSays DEF Asks, Answers, Saved
      <3>4. CASE FnLoad(r) \/ FnStore(r)
        <4>1. UNCHANGED out
          BY <3>4 DEF FnLoad, FnStore
        <4>2. fn'[r].todo = <<>> \/ fn'[r].todo = <<"message">>
          BY <3>4 DEF FnLoad, FnStore, Continue, Move, TypeOK, FnType
        <4> QED
          BY <1>0, <3>1, <3>4, <4>1, <4>2, NotAmong DEF Asks, Saved
      <3> QED
        BY <2>7, <3>2, <3>3, <3>4 DEF FnNext, FnQuiet
    <2>8. CASE Read(r)
      <3>1. /\ UNCHANGED <<run, fn>> /\ out[r] # <<>> /\ out'[r] = Tail(out[r])
            /\ got'[r] \subseteq got[r] \cup {Head(out[r])}
        BY <2>8 DEF Read, TypeOK
      <3>2. Has(out[r], Head(out[r])) /\ \A d : Has(out'[r], d) => Has(out[r], d)
        BY <1>0, <3>1, HasOrigins
      <3> QED
        BY <1>0, <3>1, <3>2 DEF Asks, Answers, Saved
    <2>9. CASE ReadEnd(r) \/ Leave(r)
      BY <1>0, <2>9 DEF ReadEnd, Leave, Asks, Answers, Saved
    <2> QED
      BY <2>1, <2>2, <2>3, <2>4, <2>5, <2>6, <2>7, <2>8, <2>9 DEF Step, RunNext, HandlerNext
  <1> QED
    BY <1>1, <1>2 DEF Speakers

\* The RunFunc of a run starts when the run has taken its interrupt, not before.
LEMMA NextFresh ==
  ASSUME TypeOK, Fresh, NEW r \in Requests, Step(r)
  PROVE  Fresh'
  <1>1. \A q \in Requests \ {r} : run'[q] = run[q] /\ fn'[q] = fn[q]
    BY OthersUntouched DEF Step
  <1>2. ASSUME run'[r].pc \in {"idle", "resume"} PROVE fn'[r].pc = "none"
    <2>1. CASE Register(r)
      BY <2>1 DEF Register, Fresh
    <2>2. CASE RunNext(r)
      <3>1. CASE InvokeReturns(r)
        <4>1. PICK ret : run'[r] = Report(ret)
          BY <3>1 DEF InvokeReturns, TypeOK, RunType
        <4> QED
          BY <1>2, <4>1, ReportFacts
      <3>2. CASE TakeInterrupt(r) \/ SaveInterrupt(r) \/ Cleanup(r) \/ CloseEvents(r) \/ Push(r)
        <4>1. run'[r].pc \in {"invoke", "push", "close", "over"}
          BY <3>2 DEF TakeInterrupt, SaveInterrupt, Cleanup, CloseEvents, Push, TypeOK, RunType
        <4> QED
          BY <1>2, <4>1
      <3> QED
        BY <2>2, <3>1, <3>2 DEF RunNext
    <2>3. CASE FnNext(r)
      <3>1. run' = run /\ fn[r].pc = "none"
        BY <1>2, <2>3, FnFrame DEF Fresh
      <3>2. Emit(r)
        BY <2>3, <3>1, FnSteps DEF FnStep, FnActive
      <3> QED
        BY <3>1, <3>2 DEF Emit, Move, TypeOK, FnType
    <2>4. CASE HandlerNext(r) \/ Leave(r)
      BY <1>2, <2>4 DEF HandlerNext, Read, ReadEnd, Leave, Fresh
    <2> QED
      BY <2>1, <2>2, <2>3, <2>4 DEF Step
  <1> QED
    BY <1>1, <1>2 DEF Fresh

-----------------------------------------------------------------------------
(* The interrupt of a run that asks *)

\* The steps of the run goroutine that may put it where it can save an interrupt.
LEMMA MaySave ==
  ASSUME TypeOK, NEW r \in Requests, Step(r), ~TakeInterrupt(r), ~SaveInterrupt(r)
  PROVE  /\ UNCHANGED <<interruptID, resumed>>
         /\ \A q \in Requests : run'[q].pc \in {"invoke", "save"} => run[q].pc \in {"invoke", "save"}
  <1>1. \A q \in Requests \ {r} : run'[q] = run[q]
    BY OthersUntouched DEF Step
  <1>2. CASE FnNext(r)
    BY <1>2, FnFrame DEF runnerVars
  <1>3. CASE Register(r) \/ Cleanup(r) \/ CloseEvents(r) \/ Push(r) \/ InvokeReturns(r)
    <2>1. UNCHANGED <<interruptID, resumed>>
      BY <1>3 DEF Register, Cleanup, CloseEvents, Push, InvokeReturns, runnerVars
    <2>2. run'[r].pc \in {"invoke", "save"} => run[r].pc \in {"invoke", "save"}
      BY <1>3 DEF Register, Cleanup, CloseEvents, Push, InvokeReturns, TypeOK, RunType
    <2> QED
      BY <1>1, <2>1, <2>2
  <1>4. CASE HandlerNext(r) \/ Leave(r)
    BY <1>4 DEF HandlerNext, Read, ReadEnd, Leave, runnerVars
  <1> QED
    BY <1>2, <1>3, <1>4 DEF Step, RunNext

\* A run saves its interrupt over one that nobody waits on any more.
LEMMA NextInterruptKept ==
  ASSUME TypeOK, Speakers, Apart, Interrupts, NEW r \in Requests, Step(r),
         NEW q \in Requests \ met', InterruptKept(q)
  PROVE  InterruptKept(q)'
  <1> SUFFICES ASSUME Asks(q)'
               PROVE  /\ interruptID'[session'[q]] = q \/ Resumed(q)'
                      /\ \A x \in Requests \ {q} :
                            session'[x] = session'[q] /\ run'[x].pc \in {"invoke", "save"}
                               => Resumed(q)'
    BY DEF InterruptKept
  <1>1. UNCHANGED session /\ q \notin met
    BY NextApart
  <1>2. Asks(q) \/ (q = r /\ SaveInterrupt(r))
    BY NextSays
  <1>3. CASE TakeInterrupt(r)
    <2>1. /\ run[r].pc = "resume" /\ run'[r].pc = "invoke"
          /\ \A x \in Requests \ {r} : run'[x] = run[x]
          /\ resumed' = [resumed EXCEPT ![r] = interruptID[session[r]]]
          /\ interruptID' = [interruptID EXCEPT ![session[r]] = None]
      BY <1>3 DEF TakeInterrupt, ConsumeInterrupt, TypeOK, RunType
    <2>2. Asks(q)
      BY <1>2, <2>1 DEF SaveInterrupt
    <2>3. resumed[r] = None
      BY <2>1 DEF Interrupts
    <2>4. Resumed(q) => Resumed(q)'
      BY <2>1, <2>3, CanvasAssumption DEF Resumed, TypeOK
    <2>5. CASE session[q] = session[r]
      <3>1. interruptID[session[q]] = q => resumed'[r] = q
        BY <2>1, <2>5 DEF TypeOK
      <3>2. Resumed(q)'
        BY <2>2, <2>4, <3>1 DEF InterruptKept, Resumed
      <3> QED
        BY <3>2
    <2>6. CASE session[q] # session[r]
      <3>1. interruptID'[session[q]] = interruptID[session[q]]
        BY <2>1, <2>6 DEF TypeOK
      <3> QED
        BY <1>1, <2>1, <2>2, <2>4, <2>6, <3>1 DEF InterruptKept
    <2> QED
      BY <2>5, <2>6
  <1>4. CASE SaveInterrupt(r)
    <2>1. /\ run[r].pc = "save" /\ run'[r].pc = "push" /\ UNCHANGED <<resumed, met>>
          /\ \A x \in Requests \ {r} : run'[x] = run[x]
          /\ interruptID' = [interruptID EXCEPT ![session[r]] = r]
      BY <1>4 DEF SaveInterrupt, TypeOK, RunType
    <2>2. Resumed(q)' <=> Resumed(q)
      BY <2>1 DEF Resumed
    <2>3. CASE q = r
      <3>1. interruptID'[session[q]] = q
        BY <2>1, <2>3 DEF TypeOK
      <3>2. ASSUME NEW x \in Requests \ {q}, session[x] = session[q], run'[x].pc \in {"invoke", "save"}
            PROVE  FALSE
        <4>1. Active(q) /\ x \in Others(q)
          BY <2>1, <2>3, <3>2 DEF Active, Others
        <4> QED
          BY <1>1, <4>1 DEF Apart
      <3> QED
        BY <1>1, <3>1, <3>2
    <2>4. CASE q # r
      <3>1. Asks(q)
        BY <1>2, <2>4
      <3>2. CASE session[q] = session[r]
        <4>1. Resumed(q)
          BY <2>1, <2>4, <3>1, <3>2 DEF InterruptKept
        <4> QED
          BY <2>2, <4>1
      <3>3. CASE session[q] # session[r]
        <4>1. interruptID'[session[q]] = interruptID[session[q]]
          BY <2>1, <3>3 DEF TypeOK
        <4> QED
          BY <1>1, <2>1, <2>2, <3>1, <3>3, <4>1 DEF InterruptKept
      <3> QED
        BY <3>2, <3>3
    <2> QED
      BY <2>3, <2>4
  <1>5. CASE ~TakeInterrupt(r) /\ ~SaveInterrupt(r)
    <2>1. Asks(q) /\ UNCHANGED <<interruptID, resumed>>
      BY <1>2, <1>5, MaySave
    <2>2. \A x \in Requests : run'[x].pc \in {"invoke", "save"} => run[x].pc \in {"invoke", "save"}
      BY <1>5, MaySave
    <2>3. Resumed(q)' <=> Resumed(q)
      BY <2>1 DEF Resumed
    <2> QED
      BY <1>1, <2>1, <2>2, <2>3 DEF InterruptKept
  <1> QED
    BY <1>3, <1>4, <1>5

-----------------------------------------------------------------------------
(* The answer of a run in the conversation *)

\* A RunFunc writes back the row it has read, which has the answers of every run
\* that it has not met.
LEMMA NextAnswerKept ==
  ASSUME TypeOK, Speakers, Apart, NEW r \in Requests, Step(r),
         NEW q \in Requests \ met', AnswerKept(q)
  PROVE  AnswerKept(q)'
  <1> SUFFICES ASSUME Answers(q)', session'[q] \in Stored
               PROVE  /\ q \in history'[session'[q]]
                      /\ \A x \in Requests \ {q} :
                            session'[x] = session'[q] /\ fn'[x].pc = "store" => q \in fn'[x].read
    BY DEF AnswerKept
  <1>1. UNCHANGED session /\ q \notin met
    BY NextApart
  <1>2. Answers(q) \/ (q = r /\ (FnLoad(r) \/ FnStore(r)))
    BY NextSays
  <1>3. \A x \in Requests \ {r} : fn'[x] = fn[x]
    BY OthersUntouched DEF Step
  <1>4. CASE FnLoad(r)
    <2>1. UNCHANGED <<history, out, got>> /\ fn[r].pc = "load"
      BY <1>4 DEF FnLoad, At, storeVars, clientVars
    <2>2. fn'[r].pc = "store" => fn'[r].todo = <<>> /\ fn'[r].read = history[session[r]]
      BY <1>4 DEF FnLoad, AfterAnswer, Continue, Move, TypeOK, FnType
    <2>3. fn'[r].pc = "store" \/ session[r] \notin Stored
      BY <1>4 DEF FnLoad, Continue, Move, TypeOK, FnType
    <2>4. Answers(q)
      <3>1. CASE q # r
        BY <1>2, <3>1
      <3>2. CASE q = r
        BY <1>1, <2>1, <2>2, <2>3, <3>2, NotAmong DEF Answers
      <3> QED
        BY <3>1, <3>2
    <2>5. q \in history[session[q]]
      BY <1>1, <2>4 DEF AnswerKept
    <2>6. ASSUME NEW x \in Requests \ {q}, session[x] = session[q], fn'[x].pc = "store"
          PROVE  q \in fn'[x].read
      <3>1. CASE x = r
        BY <2>2, <2>5, <2>6, <3>1
      <3>2. CASE x # r
        BY <1>1, <1>3, <2>4, <2>6, <3>2 DEF AnswerKept
      <3> QED
        BY <3>1, <3>2
    <2> QED
      BY <1>1, <2>1, <2>5, <2>6
  <1>5. CASE FnStore(r)
    <2>1. /\ fn[r].pc = "store" /\ fn'[r].pc # "store" /\ UNCHANGED met
          /\ history' = [history EXCEPT ![session[r]] = fn[r].read \cup {r}]
      BY <1>5 DEF FnStore, At, AfterAnswer, WithAnswer, Continue, Move, TypeOK, FnType
    <2>2. CASE q = r
      <3>1. q \in history'[session[q]]
        BY <2>1, <2>2 DEF TypeOK
      <3>2. ASSUME NEW x \in Requests \ {q}, session[x] = session[q], fn'[x].pc = "store"
            PROVE  FALSE
        <4>1. Active(q) /\ x \in Others(q)
          BY <1>3, <2>1, <2>2, <3>2 DEF Active, FnActive, Others
        <4> QED
          BY <1>1, <4>1 DEF Apart
      <3> QED
        BY <1>1, <3>1, <3>2
    <2>3. CASE q # r
      <3>1. Answers(q)
        BY <1>2, <2>3
      <3>2. q \in history'[session[q]]
        <4>1. CASE session[q] = session[r]
          BY <1>1, <2>1, <2>3, <3>1, <4>1 DEF AnswerKept, TypeOK
        <4>2. CASE session[q] # session[r]
          BY <1>1, <2>1, <3>1, <4>2 DEF AnswerKept, TypeOK
        <4> QED
          BY <4>1, <4>2
      <3>3. ASSUME NEW x \in Requests \ {q}, session[x] = session[q], fn'[x].pc = "store"
            PROVE  q \in fn'[x].read
        BY <1>1, <1>3, <2>1, <3>1, <3>3 DEF AnswerKept
      <3> QED
        BY <1>1, <3>2, <3>3
    <2> QED
      BY <2>2, <2>3
  <1>6. CASE ~FnLoad(r) /\ ~FnStore(r)
    BY <1>1, <1>2, <1>6, Conversation DEF AnswerKept
  <1> QED
    BY <1>4, <1>5, <1>6

-----------------------------------------------------------------------------
(* The tracker *)

\* A context that is done stays done: only a run that has not started gets a reader.
LEMMA ContextStays ==
  ASSUME RunnerInv, NEW r \in Requests, Step(r), NEW q \in Requests, ContextDone(q)
  PROVE  ContextDone(q)'
  <1>1. TypeOK /\ Terminator(q)
    BY DEF RunnerInv
  <1>2. left \subseteq left' /\ (q # r => reader'[q] = reader[q])
    BY <1>1, OthersUntouched DEF Step
  <1>3. CASE Register(r)
    BY <1>1, <1>2, <1>3 DEF Register, ContextDone, Terminator, Closed
  <1>4. CASE ~Register(r)
    <2>1. reader[r] = "over" => reader'[r] = "over"
      <3>1. CASE FnNext(r)
        BY <3>1, FnFrame DEF clientVars
      <3>2. CASE RunNext(r)
        BY <3>2 DEF RunNext, TakeInterrupt, InvokeReturns, SaveInterrupt, Push, Cleanup,
                    CloseEvents, clientVars
      <3>3. CASE HandlerNext(r) \/ Leave(r)
        BY <1>1, <3>3 DEF HandlerNext, Read, ReadEnd, Leave, TypeOK
      <3> QED
        BY <1>4, <3>1, <3>2, <3>3 DEF Step
    <2> QED
      BY <1>2, <2>1 DEF ContextDone
  <1> QED
    BY <1>3, <1>4

\* A step of the RunFunc writes the tracker for its own session, and records its end
\* when it ends.
LEMMA FnTracks ==
  ASSUME TypeOK, NEW r \in Requests, FnNext(r), ~ContextDone(r)
  PROVE  /\ \A s \in Sessions \ {session[r]} : tracker'[s] = tracker[s]
         /\ \/ tracker'[session[r]].by = r /\ tracker'[session[r]].status # "running"
            \/ tracker'[session[r]].by = r /\ Unrecorded(r)'
            \/ UNCHANGED tracker /\ (Unrecorded(r) => Unrecorded(r)')
  <1>0. FnType /\ session[r] \in Sessions
    BY DEF TypeOK
  <1>1. ASSUME NEW status, Track(r, status)
        PROVE  /\ \A s \in Sessions \ {session[r]} : tracker'[s] = tracker[s]
               /\ tracker'[session[r]].status = status /\ tracker'[session[r]].by = r
    BY <1>1 DEF Track, TypeOK
  <1> USE DEF Unrecorded
  <1>2. CASE Emit(r)
    BY <1>0, <1>2 DEF Emit, Move, FnType, storeVars
  <1>3. CASE FnBegin(r)
    BY <1>0, <1>3 DEF FnBegin, At, storeVars
  <1>4. CASE FnOpen(r)
    <2>1. CASE UNCHANGED tracker
      BY <1>0, <1>4, <2>1 DEF FnOpen, At
    <2>2. CASE Track(r, "failed")
      BY <1>1, <2>2
    <2>3. CASE Continue(r, "compile", <<>>) /\ Track(r, "running")
      BY <1>0, <1>1, <2>3 DEF Continue, Move, FnType
    <2> QED
      BY <1>4, <2>1, <2>2, <2>3 DEF FnOpen
  <1>5. CASE FnCompile(r)
    <2>1. CASE Track(r, "failed")
      BY <1>1, <2>1
    <2>2. CASE Continue(r, "invoke", <<"progress">>) /\ UNCHANGED tracker
      BY <1>0, <2>2 DEF Continue, Move, FnType
    <2> QED
      BY <1>5, <2>1, <2>2 DEF FnCompile
  <1>6. CASE FnInvoke(r)
    <2>1. CASE Track(r, "failed")
      BY <1>1, <2>1
    <2>2. CASE Move(r, "load", <<>>, "ok", {}) /\ UNCHANGED tracker
      BY <1>0, <2>2 DEF Move, FnType
    <2>3. CASE Return(r, "panic") /\ UNCHANGED tracker
      BY <1>0, <2>3 DEF Return, Move, FnType
    <2> QED
      BY <1>6, <2>1, <2>2, <2>3 DEF FnInvoke
  <1>7. CASE FnLoad(r)
    <2>1. UNCHANGED tracker /\ fn[r].pc = "load"
      BY <1>7 DEF FnLoad, At, storeVars
    <2>2. fn[r].ret = "ok" => fn'[r].ret = "ok" /\ fn'[r].pc \in {"store", "mark"}
      BY <1>0, <1>7 DEF FnLoad, AfterAnswer, Continue, Move, FnType
    <2> QED
      BY <2>1, <2>2
  <1>8. CASE FnStore(r)
    <2>1. UNCHANGED tracker /\ fn[r].pc = "store"
      BY <1>8 DEF FnStore, At
    <2>2. fn[r].ret = "ok" => fn'[r].ret = "ok" /\ fn'[r].pc = "mark"
      BY <1>0, <1>8 DEF FnStore, AfterAnswer, Continue, Move, FnType
    <2> QED
      BY <2>1, <2>2
  <1>9. CASE FnMark(r)
    BY <1>1, <1>9 DEF FnMark
  <1>10. CASE FnReturn(r)
    BY <1>0, <1>10 DEF FnReturn, At, storeVars
  <1> QED
    BY <1>2, <1>3, <1>4, <1>5, <1>6, <1>7, <1>8, <1>9, <1>10 DEF FnNext

LEMMA NextTracked ==
  ASSUME RunnerInv, Fresh, TrackedLive, NEW r \in Requests, Step(r), UNCHANGED session
  PROVE  TrackedLive'
  <1>0. TypeOK
    BY DEF RunnerInv
  <1> SUFFICES ASSUME NEW s \in Sessions, tracker'[s].status = "running", NEW b,
                      tracker'[s].by = b
               PROVE  /\ b \in Requests /\ session[b] = s
                      /\ ContextDone(b)' \/ Unrecorded(b)'
    BY DEF TrackedLive, ContextDone, Unrecorded
  <1>1. \A q \in Requests \ {r} : fn'[q] = fn[q]
    BY <1>0, OthersUntouched DEF Step
  <1>2. CASE FnNext(r) /\ ~ContextDone(r)
    <2>1. CASE s # session[r]
      <3>1. tracker'[s] = tracker[s]
        BY <1>0, <1>2, <2>1, FnTracks
      <3>2. /\ tracker[s].by \in Requests /\ session[tracker[s].by] = s /\ tracker[s].by # r
            /\ ContextDone(tracker[s].by) \/ Unrecorded(tracker[s].by)
        BY <2>1, <3>1 DEF TrackedLive
      <3> QED
        BY <1>1, <3>1, <3>2, ContextStays DEF Unrecorded
    <2>2. CASE s = session[r]
      <3>1. CASE tracker'[s].by = r /\ Unrecorded(r)'
        BY <2>2, <3>1
      <3>2. CASE UNCHANGED tracker /\ (Unrecorded(r) => Unrecorded(r)')
        <4>1. /\ tracker[s].by \in Requests /\ session[tracker[s].by] = s
              /\ ContextDone(tracker[s].by) \/ Unrecorded(tracker[s].by)
          BY <3>2 DEF TrackedLive
        <4>2. CASE tracker[s].by = r
          BY <1>2, <3>2, <4>1, <4>2
        <4>3. CASE tracker[s].by # r
          BY <1>1, <3>2, <4>1, <4>3, ContextStays DEF Unrecorded
        <4> QED
          BY <4>2, <4>3
      <3> QED
        BY <1>0, <1>2, <2>2, <3>1, <3>2, FnTracks
    <2> QED
      BY <2>1, <2>2
  <1>3. CASE ~FnNext(r) \/ ContextDone(r)
    <2>1. UNCHANGED tracker
      <3>1. CASE FnNext(r) /\ ContextDone(r)
        BY <1>0, <3>1, FnSteps DEF Track
      <3>2. CASE ~FnNext(r)
        BY <3>2 DEF Step, Register, RunNext, TakeInterrupt, InvokeReturns, SaveInterrupt, Push,
                    Cleanup, CloseEvents, HandlerNext, Read, ReadEnd, Leave, storeVars
      <3> QED
        BY <1>3, <3>1, <3>2
    <2>2. /\ tracker[s].by \in Requests /\ session[tracker[s].by] = s
          /\ ContextDone(tracker[s].by) \/ Unrecorded(tracker[s].by)
      BY <2>1 DEF TrackedLive
    <2>3. CASE ContextDone(tracker[s].by)
      BY <2>1, <2>2, <2>3, ContextStays
    <2>4. CASE ~ContextDone(tracker[s].by) /\ Unrecorded(tracker[s].by)
      <3>1. CASE tracker[s].by # r
        BY <1>1, <2>1, <2>2, <2>4, <3>1 DEF Unrecorded
      <3>2. CASE tracker[s].by = r /\ TakeInterrupt(r)
        BY <2>4, <3>2 DEF TakeInterrupt, Fresh, Unrecorded
      <3>3. CASE tracker[s].by = r /\ ~TakeInterrupt(r)
        <4>1. UNCHANGED fn
          BY <1>3, <2>4, <3>3 DEF Step, Register, RunNext, InvokeReturns, SaveInterrupt, Push,
                      Cleanup, CloseEvents, HandlerNext, Read, ReadEnd, Leave
        <4> QED
          BY <2>1, <2>2, <2>4, <4>1 DEF Unrecorded
      <3> QED
        BY <3>1, <3>2, <3>3
    <2> QED
      BY <2>2, <2>3, <2>4
  <1> QED
    BY <1>2, <1>3

-----------------------------------------------------------------------------
(* The theorems *)

LEMMA InitSessions == Init => IInv
  <1> SUFFICES ASSUME Init PROVE IInv
    OBVIOUS
  <1>1. RunnerInv
    BY InitRunnerInv
  <1>2. \A r \in Requests :
           /\ run[r].pc \in {"idle", "over"} /\ fn[r].pc \in {"none", "over"}
           /\ run[r].pc = "idle" => fn[r].pc = "none"
           /\ run[r].todo = <<>> /\ fn[r].todo = <<>> /\ out[r] = <<>>
           /\ "message" \notin got[r]
    BY DEF Init
  <1>3. Apart /\ Fresh
    BY <1>2 DEF Apart, Fresh, Active, FnActive
  <1>4. TrackedLive
    BY DEF Init, TrackedLive
  <1>5. Speakers /\ \A r \in Requests : ~Answers(r)
    BY <1>2, NotAmong DEF Speakers, Answers
  <1>6. ASSUME NEW r \in Requests
        PROVE  InterruptKept(r)
    <2>1. CASE r \in Paused
      <3>1. interruptID[session[r]] = r
        BY <2>1 DEF Init, Waiting
      <3> QED
        BY <1>2, <3>1 DEF InterruptKept
    <2>2. CASE r \notin Paused
      <3>1. got[r] = {}
        BY <2>2 DEF Init
      <3> QED
        BY <1>2, <3>1, NotAmong DEF InterruptKept, Asks
    <2> QED
      BY <2>1, <2>2
  <1> QED
    BY <1>1, <1>3, <1>4, <1>5, <1>6 DEF IInv, AnswerKept

LEMMA NextSessions == IInv /\ [Next]_vars => IInv'
  <1> SUFFICES ASSUME IInv, [Next]_vars PROVE IInv'
    OBVIOUS
  <1>0. RunnerInv'
    BY NextRunnerInv DEF IInv
  <1>1. CASE UNCHANGED vars
    BY <1>0, <1>1 DEF vars, IInv, Apart, Speakers, Fresh, TrackedLive, InterruptKept, AnswerKept,
        Active, FnActive, Others, Asks, Saved, Resumed, Answers, Unrecorded, ContextDone
  <1>2. ASSUME NEW r \in Requests, Step(r) PROVE IInv'
    <2>1. TypeOK /\ Interrupts /\ Speakers /\ Apart /\ Fresh /\ TrackedLive /\ RunnerInv
      BY DEF IInv, RunnerInv
    <2>2. Apart' /\ met \subseteq met' /\ UNCHANGED session
      BY <1>2, <2>1, NextApart
    <2>3. Speakers' /\ Fresh' /\ TrackedLive'
      BY <1>2, <2>1, <2>2, NextSays, NextFresh, NextTracked
    <2>4. ASSUME NEW q \in Requests \ met' PROVE InterruptKept(q)' /\ AnswerKept(q)'
      <3>1. InterruptKept(q) /\ AnswerKept(q)
        BY <2>2 DEF IInv
      <3> QED
        BY <1>2, <2>1, <3>1, NextInterruptKept, NextAnswerKept
    <2> QED
      BY <1>0, <2>2, <2>3, <2>4 DEF IInv
  <1> QED
    BY <1>1, <1>2 DEF Next, Step

\* The inductive invariant of the canvas runs, with what the requests of one session
\* do to each other, holds in every run of the specification.
THEOREM SessionInvariant == Spec => []IInv
  BY InitSessions, NextSessions, PTL DEF Spec

\* A client that has been told that its run waits can answer it, unless requests of
\* its session overlapped: no other run of the session saves its interrupt over one
\* that has not been taken.
THEOREM InterruptsAreNotLost == Spec => []WaitingCanBeAnswered
  <1>1. IInv => WaitingCanBeAnswered
    BY DEF IInv, WaitingCanBeAnswered, InterruptKept, Asks, Resumed
  <1> QED
    BY <1>1, SessionInvariant, PTL

\* An answer that a client has seen stays in the conversation of its session through
\* every later write of the row, unless requests of the session overlapped.
THEOREM AnswersAreKept == Spec => []AnswersKept
  <1>1. IInv => AnswersKept
    BY DEF IInv, AnswersKept, AnswerKept, Answers
  <1> QED
    BY <1>1, SessionInvariant, PTL

\* A run that is tracked as running runs, or its end could not be recorded because
\* its context was done or it panicked.
THEOREM TrackedRunsAreLive == Spec => []RunningIsLive
  <1>1. IInv => RunningIsLive
    BY DEF IInv, RunningIsLive, TrackedLive, Unrecorded, FnActive
  <1> QED
    BY <1>1, SessionInvariant, PTL
=============================================================================
