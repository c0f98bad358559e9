------------------------ MODULE CancelContextProofs ------------------------
(***************************************************************************)
(* For every number of callers, every workflow, every mode and timeout: the *)
(* deadlines of an agent run are kept; once the Wait of a caller has        *)
(* returned no agent of the run is at work; and a cancellation that was     *)
(* handled is reported.                                                     *)
(*                                                                          *)
(* The deadlines come first.  TimingInv is inductive; each action has a     *)
(* lemma, and the actions of the run, which leave the caller's side alone   *)
(* or end the context, share two.                                           *)
(***************************************************************************)
EXTENDS CancelContext, TLAPS

\* What the invariant says of the cancel function and the deadline.
Side == /\ ContextType /\ CallType /\ TimerType
        /\ now \in 0..MaxTimeout
        /\ cc.done <=> cc.state \in {"done", "handled"}
        /\ mu \in Callers \cup {Nobody}
        /\ \A c \in Callers : mu = c <=> call[c].pc \in {"open", "join"}
        /\ Timing /\ TimeoutIsReal

\* The invariant is about two halves of the state.
LEMMA Halves == TimingInv <=> Side /\ RunType
  BY DEF TimingInv, TypeOK, Side

LEMMA HalvesNext == Side' /\ RunType' => TimingInv'
  BY DEF TimingInv, TypeOK, Side

\* A step that leaves the caller's side alone keeps what is said of it.
LEMMA SideStutters ==
  ASSUME Side, UNCHANGED <<cc, mu, call, timer, now>>
  PROVE  Side'
  BY DEF Side, ContextType, CallType, CallFields, TimerType, Timing, TimeoutIsReal, Passed

\* Neither markDone nor markHandled touches a deadline.
LEMMA SideEnds ==
  ASSUME Side, cc' \in {cc, MarkedDone, MarkedHandled}, UNCHANGED <<mu, call, timer, now>>
  PROVE  Side'
  <1>1. ContextType'
    BY DEF Side, ContextType, MarkedDone, MarkedHandled
  <1>2. cc'.done <=> cc'.state \in {"done", "handled"}
    BY DEF Side, ContextType, MarkedDone, MarkedHandled, Ended
  <1>3. /\ cc'.deadline = cc.deadline /\ cc'.notify = cc.notify
        /\ cc'.timeoutEscalated = cc.timeoutEscalated
    BY DEF Side, ContextType, MarkedDone, MarkedHandled
  <1>4. Timing' /\ TimeoutIsReal'
    BY <1>3 DEF Side, Timing, TimeoutIsReal, Passed
  <1> QED
    BY <1>1, <1>2, <1>4 DEF Side, CallType, CallFields, TimerType

-----------------------------------------------------------------------------
(* The cancel function *)

\* A call that returns at once, or takes the lock and closes the state to others.
LEMMA CancelKeeps ==
  ASSUME Side, NEW c \in Callers, NEW m \in Modes, NEW d \in Timeouts, Cancel(c, m, d)
  PROVE  Side'
  <1> USE CancelAssumption DEF Side
  <1>1. UNCHANGED <<timer, now>> /\ call[c].pc = "idle" /\ call[c].due = 0
    BY DEF Cancel, Timing
  <1>2. CASE Ended /\ Return(c, EndedResult) /\ UNCHANGED <<cc, mu>>
    <2>1. EndedResult \in {"ended", "nil"}
      BY DEF EndedResult
    <2>2. CallType'
      <3>1. call[c] \in CallFields
        BY DEF CallType
      <3>2. [call[c] EXCEPT !.pc = "returned", !.result = EndedResult] \in CallFields
        BY <2>1, <3>1 DEF CallFields
      <3> QED
        BY <1>2, <3>2 DEF CallType, Return
    <2>3. /\ \A e \in Callers : call'[e].due = call[e].due
          /\ \A e \in Callers \ {c} : call'[e] = call[e]
          /\ call'[c].pc = "returned" /\ call'[c].result # "timeout"
      BY <1>2, <2>1 DEF CallType, CallFields, Return
    <2>4. Timing' /\ TimeoutIsReal'
      BY <1>1, <1>2, <2>3 DEF Timing, TimeoutIsReal, Passed
    <2>5. \A e \in Callers : mu' = e <=> call'[e].pc \in {"open", "join"}
      BY <1>1, <1>2, <2>3
    <2> QED
      BY <1>1, <1>2, <2>2, <2>4, <2>5 DEF ContextType, TimerType
  <1>3. CASE /\ ~Ended /\ mu = Nobody /\ mu' = c
             /\ cc' = [cc EXCEPT !.state = "cancelling"]
             /\ call' = [call EXCEPT ![c].pc = IF cc.state = "running" THEN "open" ELSE "join",
                                     ![c].mode = m, ![c].timeout = d,
                                     ![c].seen = IF cc.state = "running" THEN @ ELSE cc.mode]
    <2>1. m \in SUBSET SafePoints /\ d \in 0..MaxTimeout
      OBVIOUS
    <2>2. CallType'
      <3> DEFINE r == [call[c] EXCEPT !.pc = IF cc.state = "running" THEN "open" ELSE "join",
                                      !.mode = m, !.timeout = d,
                                      !.seen = IF cc.state = "running" THEN @ ELSE cc.mode]
      <3>1. call[c] \in CallFields /\ cc.mode \in SUBSET SafePoints
        BY DEF CallType, ContextType
      <3>2. r \in CallFields
        BY <2>1, <3>1 DEF CallFields
      <3> QED
        BY <1>3, <3>2 DEF CallType
    <2>3. /\ \A e \in Callers : call'[e].due = call[e].due /\ call'[e].result = call[e].result
          /\ \A e \in Callers \ {c} : call'[e] = call[e]
          /\ call'[c].pc \in {"open", "join"}
      BY <1>3 DEF CallType, CallFields
    <2>4. /\ ContextType'
          /\ cc'.done = cc.done /\ cc'.state = "cancelling"
          /\ cc'.deadline = cc.deadline /\ cc'.notify = cc.notify
          /\ cc'.timeoutEscalated = cc.timeoutEscalated
      BY <1>3 DEF ContextType
    <2>5. Timing' /\ TimeoutIsReal'
      BY <1>1, <2>3, <2>4 DEF Timing, TimeoutIsReal, Passed
    <2>6. \A e \in Callers : mu' = e <=> call'[e].pc \in {"open", "join"}
      BY <1>3, <2>3
    <2> QED
      BY <1>1, <1>3, <2>2, <2>4, <2>5, <2>6 DEF TimerType, Ended
  <1> QED
    BY <1>2, <1>3 DEF Cancel

\* The only step that sets a deadline: it stays the earliest that was asked for,
\* and a goroutine that sleeps past it has a token.
LEMMA RequestKeeps ==
  ASSUME Side, NEW c \in Callers, Request(c)
  PROVE  Side'
  <1> USE CancelAssumption DEF Side
  <1> DEFINE mode  == IF call[c].pc = "open" THEN call[c].mode
                                            ELSE join(call[c].seen, call[c].mode)
             due   == now + call[c].timeout
             timed == mode # Immediate /\ call[c].timeout > 0
  <1>1. /\ call[c].pc \in {"open", "join"} /\ mu = c /\ call[c].due = 0
        /\ mu' = Nobody /\ UNCHANGED now
        /\ cc' = [cc EXCEPT !.mode = mode, !.cancel = TRUE,
                            !.deadline = IF timed THEN EarliestDeadline(@, due) ELSE @,
                            !.notify = @ \/ timed]
        /\ call' = [call EXCEPT ![c].seen = Immediate,
                                ![c].due = IF timed THEN due ELSE 0,
                                ![c].pc = IF mode = Immediate THEN "trigger" ELSE "wait"]
        /\ timer' = IF timed /\ timer.pc = "none" THEN [timer EXCEPT !.pc = "loop"] ELSE timer
    BY DEF Request, Timing
  <1>2. mode \in SUBSET SafePoints
    BY DEF join, CallType, CallFields, Immediate
  <1>3. due \in 0..(2 * MaxTimeout) /\ now \in Nat /\ (timed => due > now)
    BY DEF CallType, CallFields
  <1>4. cc.deadline = 0 => due \in 0..MaxTimeout
    BY DEF CallType, CallFields, Timing
  <1> HIDE DEF mode, due
  <1>5. /\ cc'.deadline = IF timed THEN EarliestDeadline(cc.deadline, due) ELSE cc.deadline
        /\ cc'.notify = (cc.notify \/ timed)
        /\ cc'.timeoutEscalated = cc.timeoutEscalated
        /\ cc'.state = cc.state /\ cc'.done = cc.done
    BY <1>1 DEF ContextType
  <1>6. cc'.deadline \in 0..MaxTimeout
    BY <1>3, <1>4, <1>5 DEF EarliestDeadline, ContextType
  <1>7. ContextType'
    BY <1>1, <1>2, <1>5, <1>6 DEF ContextType
  <1>8. CallType'
    <2> DEFINE r == [call[c] EXCEPT !.seen = Immediate, !.due = IF timed THEN due ELSE 0,
                                    !.pc = IF mode = Immediate THEN "trigger" ELSE "wait"]
    <2>1. call[c] \in CallFields
      BY DEF CallType
    <2>2. Immediate \in SUBSET SafePoints
      BY DEF Immediate
    <2>3. (IF timed THEN due ELSE 0) \in 0..(2 * MaxTimeout)
      BY <1>3
    <2>4. (IF mode = Immediate THEN "trigger" ELSE "wait") \in {"trigger", "wait"}
      OBVIOUS
    <2>5. r \in CallFields
      BY <2>1, <2>2, <2>3, <2>4 DEF CallFields
    <2> QED
      BY <1>1, <2>5 DEF CallType
  <1>9. /\ \A e \in Callers \ {c} : call'[e] = call[e]
        /\ call'[c].due = IF timed THEN due ELSE 0
        /\ call'[c].pc \in {"trigger", "wait"}
        /\ call'[c].result = call[c].result
    BY <1>1 DEF CallType, CallFields
  <1>10. TimerType' /\ timer'.at = timer.at
         /\ (timer'.pc = timer.pc \/ (timed /\ timer'.pc = "loop"))
    BY <1>1 DEF TimerType
  <1>11. \A e \in Callers : mu' = e <=> call'[e].pc \in {"open", "join"}
    BY <1>1, <1>9
  <1>12. \A e \in Callers : call[e].due # 0 => call'[e].due = call[e].due
    BY <1>1, <1>9
  <1>13. Passed => Passed'
    BY <1>1, <1>12 DEF Passed, CallType, CallFields
  <1>14. Timing'
    <2>1. \A e \in Callers : call'[e].pc \in {"idle", "open", "join"} => call'[e].due = 0
      BY <1>9 DEF Timing
    <2>2. \A e \in Callers : call'[e].due # 0 => cc'.deadline \in 1..call'[e].due
      BY <1>3, <1>5, <1>9 DEF Timing, EarliestDeadline, CallType, CallFields, ContextType
    <2>3. cc'.deadline # 0 => \E e \in Callers : call'[e].due = cc'.deadline
      BY <1>3, <1>5, <1>9, <1>12 DEF Timing, EarliestDeadline
    <2>4. cc'.deadline = 0 => now' = 0
      BY <1>1, <1>3, <1>5 DEF Timing, EarliestDeadline
    <2>5. timer'.pc = "loop" => cc'.deadline # 0
      BY <1>3, <1>5, <1>10 DEF Timing, EarliestDeadline
    <2>6. timer'.pc = "armed" =>
             /\ timer'.at = cc'.deadline \/ cc'.notify
             /\ timer'.at # 0 /\ \E e \in Callers : call'[e].due = timer'.at
      BY <1>5, <1>10, <1>12 DEF Timing
    <2>7. timer'.pc = "fire" \/ cc'.timeoutEscalated => Passed'
      BY <1>5, <1>10, <1>13 DEF Timing
    <2> QED
      BY <2>1, <2>2, <2>3, <2>4, <2>5, <2>6, <2>7 DEF Timing
  <1>15. TimeoutIsReal'
    BY <1>9, <1>13 DEF TimeoutIsReal
  <1> QED
    BY <1>1, <1>5, <1>7, <1>8, <1>10, <1>11, <1>14, <1>15

\* Whoever asked for an immediate cancel, no deadline changes.
LEMMA TriggerKeeps ==
  ASSUME Side, NEW c \in Callers, TriggerImmediate(c)
  PROVE  Side'
  <1> USE CancelAssumption DEF Side
  <1>1. /\ call[c].pc = "trigger" /\ cc' = [cc EXCEPT !.mode = Immediate, !.immediate = TRUE]
        /\ call' = [call EXCEPT ![c].pc = "wait"] /\ UNCHANGED <<mu, timer, now>>
    BY DEF TriggerImmediate, Triggered, Goto
  <1>2. Immediate \in SUBSET SafePoints
    BY DEF Immediate
  <1>3. /\ ContextType'
        /\ cc'.done = cc.done /\ cc'.state = cc.state
        /\ cc'.deadline = cc.deadline /\ cc'.notify = cc.notify
        /\ cc'.timeoutEscalated = cc.timeoutEscalated
    BY <1>1, <1>2 DEF ContextType
  <1>4. CallType'
    <2>1. [call[c] EXCEPT !.pc = "wait"] \in CallFields
      BY DEF CallType, CallFields
    <2> QED
      BY <1>1, <2>1 DEF CallType
  <1>5. /\ \A e \in Callers : call'[e].due = call[e].due /\ call'[e].result = call[e].result
        /\ \A e \in Callers \ {c} : call'[e] = call[e]
        /\ call'[c].pc = "wait"
    BY <1>1 DEF CallType, CallFields
  <1>6. Timing' /\ TimeoutIsReal'
    BY <1>1, <1>3, <1>5 DEF Timing, TimeoutIsReal, Passed
  <1>7. \A e \in Callers : mu' = e <=> call'[e].pc \in {"open", "join"}
    BY <1>1, <1>5
  <1> QED
    BY <1>1, <1>3, <1>4, <1>6, <1>7 DEF TimerType

\* A Wait that reports a timeout has seen timeoutEscalated.
LEMMA WaitKeeps ==
  ASSUME Side, NEW c \in Callers, WaitReturns(c)
  PROVE  Side'
  <1> USE CancelAssumption DEF Side
  <1>1. PICK r \in {"nil", "ended", "timeout"} :
              r = ResultOf /\ (r = "timeout" => cc.timeoutEscalated)
    BY DEF ResultOf
  <1>2. call[c].pc = "wait" /\ UNCHANGED <<cc, mu, timer, now>>
    BY DEF WaitReturns
  <1>3. call' = [call EXCEPT ![c].pc = "returned", ![c].result = r]
    BY <1>1 DEF WaitReturns, Return
  <1>4. CallType'
    <2>1. call[c] \in CallFields
      BY DEF CallType
    <2>2. [call[c] EXCEPT !.pc = "returned", !.result = r] \in CallFields
      BY <2>1 DEF CallFields
    <2> QED
      BY <1>3, <2>2 DEF CallType
  <1>5. /\ \A e \in Callers : call'[e].due = call[e].due
        /\ \A e \in Callers \ {c} : call'[e] = call[e]
        /\ call'[c].pc = "returned" /\ call'[c].result = r
    BY <1>3 DEF CallType, CallFields
  <1>6. Timing'
    BY <1>2, <1>5 DEF Timing, Passed
  <1>7. TimeoutIsReal'
    BY <1>1, <1>2, <1>5 DEF Timing, TimeoutIsReal, Passed
  <1>8. \A e \in Callers : mu' = e <=> call'[e].pc \in {"open", "join"}
    BY <1>2, <1>5
  <1> QED
    BY <1>2, <1>4, <1>6, <1>7, <1>8 DEF TimerType, ContextType

-----------------------------------------------------------------------------
(* The deadline goroutine and the time *)

\* It sleeps until a deadline that somebody asked for, and goes on when one has
\* passed.
LEMMA DeadlineStepKeeps ==
  ASSUME Side, DeadlineStep
  PROVE  Side'
  <1> USE CancelAssumption DEF Side
  <1>1. UNCHANGED <<mu, call, now>>
    BY DEF DeadlineStep, TimerLoop, TimerWoken, TimerSelect, TimerFire
  <1>2. Passed' <=> Passed
    BY <1>1 DEF Passed
  <1>3. CASE TimerLoop
    <2>1. TimerType' /\ UNCHANGED cc
      BY <1>3 DEF TimerLoop, TimerType, ContextType
    <2>2. cc.deadline <= now => Passed
      BY <1>3 DEF TimerLoop, Timing, Passed, ContextType
    <2>3. Timing'
      BY <1>1, <1>2, <1>3, <2>1, <2>2 DEF TimerLoop, Timing, ContextType
    <2> QED
      BY <1>1, <1>2, <2>1, <2>3 DEF ContextType, CallType, TimeoutIsReal
  <1>4. CASE TimerWoken
    <2>1. /\ timer' = [pc |-> "loop", at |-> 0] /\ timer.pc = "armed"
          /\ cc' = [cc EXCEPT !.notify = FALSE]
      BY <1>4 DEF TimerWoken
    <2>2. TimerType' /\ timer'.pc = "loop"
      BY <2>1 DEF TimerType
    <2>3. /\ ContextType'
          /\ cc'.done = cc.done /\ cc'.state = cc.state /\ cc'.deadline = cc.deadline
          /\ cc'.timeoutEscalated = cc.timeoutEscalated
      BY <2>1 DEF ContextType
    <2>4. cc.deadline # 0
      BY <2>1 DEF Timing, CallType, CallFields
    <2>5. Timing'
      BY <1>1, <1>2, <2>2, <2>3, <2>4 DEF Timing
    <2> QED
      BY <1>1, <1>2, <2>2, <2>3, <2>5 DEF CallType, TimeoutIsReal
  <1>5. CASE TimerSelect
    <2>1. /\ timer.pc = "armed" /\ UNCHANGED cc
          /\ \/ now >= timer.at /\ timer' = [pc |-> "fire", at |-> 0]
             \/ timer' = [pc |-> "over", at |-> 0]
      BY <1>5 DEF TimerSelect
    <2>2. TimerType' /\ timer'.pc \in {"fire", "over"}
      BY <2>1 DEF TimerType
    <2>3. timer'.pc = "fire" => Passed
      BY <2>1 DEF Timing, Passed, TimerType
    <2>4. Timing'
      BY <1>1, <1>2, <2>1, <2>2, <2>3 DEF Timing
    <2> QED
      BY <1>1, <1>2, <2>1, <2>2, <2>4 DEF ContextType, CallType, TimeoutIsReal
  <1>6. CASE TimerFire
    <2>1. /\ timer.pc = "fire" /\ timer' = [pc |-> "over", at |-> 0]
          /\ cc' = [[cc EXCEPT !.mode = Immediate, !.immediate = TRUE]
                       EXCEPT !.timeoutEscalated = TRUE]
      BY <1>6 DEF TimerFire, Triggered
    <2>2. Immediate \in SUBSET SafePoints
      BY DEF Immediate
    <2>3. TimerType' /\ timer'.pc = "over"
      BY <2>1 DEF TimerType
    <2>4. /\ ContextType'
          /\ cc'.done = cc.done /\ cc'.state = cc.state /\ cc'.deadline = cc.deadline
      BY <2>1, <2>2 DEF ContextType
    <2>5. Timing'
      BY <1>1, <1>2, <2>1, <2>3, <2>4 DEF Timing
    <2> QED
      BY <1>1, <1>2, <2>3, <2>4, <2>5 DEF CallType, TimeoutIsReal
  <1> QED
    BY <1>3, <1>4, <1>5, <1>6 DEF DeadlineStep

\* What has passed has passed.
LEMMA TickKeeps ==
  ASSUME Side, Tick
  PROVE  Side'
  <1> USE CancelAssumption DEF Side
  <1>1. UNCHANGED <<cc, mu, call, timer>> /\ now < cc.deadline /\ now' = now + 1
    BY DEF Tick
  <1>2. now' \in 0..MaxTimeout
    BY <1>1 DEF ContextType
  <1>3. Passed => Passed'
    BY <1>1, <1>2 DEF Passed
  <1>4. Timing' /\ TimeoutIsReal'
    BY <1>1, <1>3 DEF Timing, TimeoutIsReal, ContextType
  <1> QED
    BY <1>1, <1>2, <1>4 DEF ContextType, CallType, TimerType

-----------------------------------------------------------------------------
(* The run *)

\* The agents, the wrappers and the workflow only ever end the context.
LEMMA RunKeepsSide ==
  ASSUME Side,
         \/ Run \/ WorkflowStep
         \/ \E w \in Wrappers : RunFails(w) \/ WrapStep(w) \/ AgentEnds(w)
  PROVE  Side'
  <1>1. UNCHANGED <<mu, call, timer, now>>
    BY DEF Run, WorkflowStep, WorkflowCheck, WorkflowAfter, WorkflowHandle, RunFails,
           WrapStep, WrapClosed, WrapHandle, WrapLast, AgentEnds, InnerEnds
  <1>2. cc' \in {cc, MarkedDone, MarkedHandled}
    BY DEF Run, WorkflowStep, WorkflowCheck, WorkflowAfter, WorkflowHandle, RunFails,
           WrapStep, WrapClosed, WrapHandle, WrapLast, AgentEnds, InnerEnds
  <1> QED
    BY <1>1, <1>2, SideEnds

\* One step of a wrapper or of the agent inside it.
LEMMA WrapperKeepsTypes ==
  ASSUME RunType, NEW w \in Wrappers, RunFails(w) \/ WrapStep(w) \/ AgentEnds(w)
  PROVE  RunType'
  <1> USE CancelAssumption
  <1>1. UNCHANGED wf
    BY DEF RunFails, WrapStep, WrapClosed, WrapHandle, WrapLast, AgentEnds, InnerEnds
  <1>2. CASE RunFails(w)
    BY <1>1, <1>2 DEF RunFails, RunType, Set, Sends
  <1>3. CASE WrapClosed(w)
    BY <1>1, <1>3 DEF WrapClosed, FirstLook, RunType, Set
  <1>4. CASE WrapHandle(w)
    BY <1>1, <1>4 DEF WrapHandle, RunType, Set, Sends
  <1>5. CASE WrapLast(w)
    BY <1>1, <1>5 DEF WrapLast, RunType, Set
  <1>6. ASSUME NEW ev \in Events \cup {"none", "err", "interrupt", "cancel"},
               InnerEnds(w, ev)
        PROVE  RunType'
    <2>1. FirstLook \in {"handle", "last"}
      BY DEF FirstLook
    <2>2. wrap' \in [Wrappers -> {"idle", "run", "closed", "handle", "last", "over"}]
      BY <1>6, <2>1 DEF InnerEnds, RunType, Set
    <2>3. out' \in [Wrappers -> SUBSET {"err", "interrupt", "cancel"}]
      <3>1. ev \in {"end", "none"} \/ ev \in {"err", "interrupt", "cancel"}
        BY <1>6 DEF InnerEnds, RunType
      <3>2. CASE ev \in {"end", "none"}
        BY <1>6, <3>2 DEF InnerEnds, RunType
      <3>3. CASE ev \in {"err", "interrupt", "cancel"}
        BY <1>6, <3>3 DEF InnerEnds, RunType, Sends
      <3> QED
        BY <3>1, <3>2, <3>3
    <2> QED
      BY <1>1, <2>2, <2>3 DEF RunType
  <1> QED
    BY <1>2, <1>3, <1>4, <1>5, <1>6 DEF WrapStep, AgentEnds

\* One step of the workflow: it never goes past its last sub-agent.
LEMMA WorkflowKeepsTypes ==
  ASSUME RunType, WorkflowStep
  PROVE  RunType'
  <1> USE CancelAssumption
  <1>1. CASE WorkflowCheck
    <2>1. wf.next \in Wrappers
      BY DEF RunType, Wrappers
    <2> QED
      BY <1>1, <2>1 DEF WorkflowCheck, RunType, Set
  <1>2. CASE WorkflowAfter
    <2>1. UNCHANGED <<wrap, out>>
      BY <1>2 DEF WorkflowAfter
    <2>2. out[wf.next] \in SUBSET {"err", "interrupt", "cancel"}
      BY DEF RunType, Wrappers
    <2>3. \/ wf' = [wf EXCEPT !.pc = "handle"]
          \/ \E event \in {"none", "err", "interrupt", "cancel"} :
                wf' = [wf EXCEPT !.pc = "closed", !.out = event]
          \/ wf.next < SubAgents /\ wf' = [wf EXCEPT !.pc = "check", !.next = wf.next + 1]
      BY <1>2, <2>2 DEF WorkflowAfter, WorkflowEnds
    <2>4. CASE wf' = [wf EXCEPT !.pc = "handle"]
      BY <2>1, <2>4 DEF RunType
    <2>5. ASSUME NEW event \in {"none", "err", "interrupt", "cancel"},
                 wf' = [wf EXCEPT !.pc = "closed", !.out = event]
          PROVE  RunType'
      BY <2>1, <2>5 DEF RunType
    <2>6. CASE wf.next < SubAgents /\ wf' = [wf EXCEPT !.pc = "check", !.next = wf.next + 1]
      <3>1. wf.next + 1 \in Subs
        BY <2>6 DEF RunType, Subs
      <3> QED
        BY <2>1, <2>6, <3>1 DEF RunType
    <2> QED
      BY <2>3, <2>4, <2>5, <2>6
  <1>3. CASE WorkflowHandle
    BY <1>3 DEF WorkflowHandle, RunType
  <1> QED
    BY <1>1, <1>2, <1>3 DEF WorkflowStep

-----------------------------------------------------------------------------
(* The theorems *)

LEMMA InitTimingInv == Init => TimingInv
  <1> SUFFICES ASSUME Init PROVE TimingInv
    OBVIOUS
  <1> USE CancelAssumption
  <1>1. Immediate \in SUBSET SafePoints
    BY DEF Immediate
  <1>2. ContextType /\ TimerType /\ now \in 0..MaxTimeout
    BY <1>1 DEF Init, ContextType, TimerType
  <1>3. CallType
    BY <1>1 DEF Init, CallType, CallFields
  <1>4. RunType
    BY DEF Init, RunType, Wrappers, Subs, Outer
  <1>5. Timing /\ TimeoutIsReal
    BY DEF Init, Timing, TimeoutIsReal, Passed
  <1>6. /\ cc.done <=> cc.state \in {"done", "handled"}
        /\ mu \in Callers \cup {Nobody}
        /\ \A c \in Callers : mu = c <=> call[c].pc \in {"open", "join"}
    BY DEF Init
  <1> QED
    BY <1>2, <1>3, <1>4, <1>5, <1>6 DEF TimingInv, TypeOK

LEMMA NextTimingInv == TimingInv /\ [Next]_vars => TimingInv'
  <1> SUFFICES ASSUME TimingInv, [Next]_vars PROVE TimingInv'
    OBVIOUS
  <1>1. Side /\ RunType
    BY Halves
  <1>2. ASSUME UNCHANGED runVars PROVE RunType'
    BY <1>1, <1>2 DEF runVars, RunType
  <1>3. ASSUME NEW c \in Callers, CallerStep(c) PROVE TimingInv'
    <2>1. UNCHANGED runVars
      BY <1>3 DEF CallerStep, Request, TriggerImmediate, WaitReturns
    <2>2. Side'
      BY <1>1, <1>3, RequestKeeps, TriggerKeeps, WaitKeeps DEF CallerStep
    <2> QED
      BY <1>2, <2>1, <2>2, HalvesNext
  <1>4. ASSUME NEW c \in Callers, NEW m \in Modes, NEW d \in Timeouts, Cancel(c, m, d)
        PROVE  TimingInv'
    <2>1. UNCHANGED runVars
      BY <1>4 DEF Cancel
    <2> QED
      BY <1>1, <1>2, <1>4, <2>1, CancelKeeps, HalvesNext
  <1>5. CASE DeadlineStep
    <2>1. UNCHANGED runVars
      BY <1>5 DEF DeadlineStep, TimerLoop, TimerWoken, TimerSelect, TimerFire
    <2> QED
      BY <1>1, <1>2, <1>5, <2>1, DeadlineStepKeeps, HalvesNext
  <1>6. CASE Tick
    <2>1. UNCHANGED runVars
      BY <1>6 DEF Tick
    <2> QED
      BY <1>1, <1>2, <1>6, <2>1, TickKeeps, HalvesNext
  <1>7. CASE Run
    <2>1. RunType'
      BY <1>1, <1>7 DEF Run, RunType, Set, Wrappers
    <2> QED
      BY <1>1, <1>7, <2>1, RunKeepsSide, HalvesNext
  <1>8. CASE WorkflowStep
    BY <1>1, <1>8, WorkflowKeepsTypes, RunKeepsSide, HalvesNext
  <1>9. ASSUME NEW w \in Wrappers, RunFails(w) \/ WrapStep(w) \/ AgentEnds(w)
        PROVE  TimingInv'
    BY <1>1, <1>9, WrapperKeepsTypes, RunKeepsSide, HalvesNext
  <1>10. CASE UNCHANGED vars
    BY <1>1, <1>2, <1>10, SideStutters, HalvesNext DEF vars, runVars
  <1> QED
    BY <1>3, <1>4, <1>5, <1>6, <1>7, <1>8, <1>9, <1>10 DEF Next

\* Types and timing: the fields of the context agree with each other and with
\* who holds cancelMu, the deadline is the earliest that was asked for, and the
\* goroutine of startTimeout sleeps until it or is about to look again.
THEOREM Deadlines == Spec => []TimingInv
  BY InitTimingInv, NextTimingInv, PTL DEF Spec

\* setDeadlineMinUnixNano and wakeTimeout: a later cancel never extends an
\* earlier timeout, however many callers race.
THEOREM NoTimeoutIsExtended == Spec => []TimeoutNotExtended
  <1>1. TimingInv => TimeoutNotExtended
    <2> SUFFICES ASSUME TimingInv, NEW c \in Callers,
                        timer.pc = "armed", call[c].due # 0, timer.at > call[c].due
                 PROVE  cc.notify
      BY DEF TimeoutNotExtended
    <2>1. cc.deadline \in 1..call[c].due /\ (timer.at = cc.deadline \/ cc.notify)
      BY DEF TimingInv, Timing
    <2>2. call[c].due \in Nat /\ timer.at \in Nat
      BY CancelAssumption DEF TimingInv, TypeOK, CallType, CallFields, TimerType
    <2> QED
      BY <2>1, <2>2
  <1> QED
    BY <1>1, Deadlines, PTL

\* waitDone: ErrCancelTimeout is reported only after a deadline that a caller
\* asked for has passed.
THEOREM TimeoutsAreReal == Spec => []TimeoutIsReal
  <1>1. TimingInv => TimeoutIsReal
    BY DEF TimingInv
  <1> QED
    BY <1>1, Deadlines, PTL

-----------------------------------------------------------------------------
(* What a caller of the cancel function may rely on: IInv *)


RunInv == Nested /\ Looked /\ Settled /\ Reported

\* The wrappers are numbered, and the outer one is none of the others.
LEMMA Numbers ==
  ASSUME TypeOK
  PROVE  /\ Subs \subseteq Nat /\ Subs \subseteq Wrappers
         /\ Outer \in Wrappers /\ Outer \notin Subs
         /\ wf.next \in Subs /\ Leaves \subseteq Wrappers
         /\ wf.kind \in {"plain", "workflow"}
         /\ \A w \in Wrappers : w = Outer \/ w \in Subs
  BY CancelAssumption DEF TypeOK, RunType, Subs, Wrappers, Outer, Leaves

\* What markDone and markHandled do to the state, and to nothing else that matters
\* to the run.
LEMMA Marks ==
  ASSUME TypeOK
  PROVE  /\ MarkedDone.cancel = cc.cancel /\ MarkedHandled.cancel = cc.cancel
         /\ MarkedDone.state = IF Ended THEN cc.state ELSE "done"
         /\ MarkedHandled.state = IF cc.state = "cancelling" THEN "handled" ELSE cc.state
  BY DEF TypeOK, ContextType, MarkedDone, MarkedHandled, Ended

-----------------------------------------------------------------------------
(* The callers and the deadline goroutine *)

Outside ==
    \/ \E c \in Callers : CallerStep(c) \/ \E m \in Modes, d \in Timeouts : Cancel(c, m, d)
    \/ DeadlineStep \/ Tick

\* They ask for a cancellation and never end the context; a call returns when it
\* has ended.
LEMMA OutsideSteps ==
  ASSUME TimingInv, Outside
  PROVE  /\ UNCHANGED runVars
         /\ shouldCancel => shouldCancel'
         /\ Ended' <=> Ended
         /\ cc'.state = "handled" <=> cc.state = "handled"
         /\ \A c \in Callers : call'[c].pc = "returned" => call[c].pc = "returned" \/ Ended
  <1> USE DEF Ended, shouldCancel
  <1>0. ContextType /\ CallType /\ (cc.done <=> Ended)
    BY DEF TimingInv, TypeOK
  <1>1. ASSUME NEW c \in Callers, Request(c)
        PROVE  /\ UNCHANGED runVars /\ cc'.state = cc.state /\ cc'.cancel
               /\ \A e \in Callers : call'[e].pc = "returned" => call[e].pc = "returned"
    <2>1. UNCHANGED runVars
      BY <1>1 DEF Request
    <2>2. cc'.state = cc.state /\ cc'.cancel
      BY <1>0, <1>1 DEF Request, ContextType
    <2>3. \A e \in Callers : call'[e].pc = "returned" => call[e].pc = "returned"
      BY <1>0, <1>1 DEF Request, CallType, CallFields
    <2> QED
      BY <2>1, <2>2, <2>3
  <1>2. ASSUME NEW c \in Callers, TriggerImmediate(c)
        PROVE  /\ UNCHANGED runVars /\ cc'.state = cc.state /\ cc'.cancel = cc.cancel
               /\ \A e \in Callers : call'[e].pc = "returned" => call[e].pc = "returned"
    <2>1. UNCHANGED runVars
      BY <1>2 DEF TriggerImmediate
    <2>2. cc'.state = cc.state /\ cc'.cancel = cc.cancel
      BY <1>0, <1>2 DEF TriggerImmediate, Triggered, ContextType
    <2>3. \A e \in Callers : call'[e].pc = "returned" => call[e].pc = "returned"
      BY <1>0, <1>2 DEF TriggerImmediate, Goto, CallType, CallFields
    <2> QED
      BY <2>1, <2>2, <2>3
  <1>3. ASSUME NEW c \in Callers, WaitReturns(c)
        PROVE  /\ UNCHANGED <<runVars, cc>> /\ Ended
    BY <1>0, <1>3 DEF WaitReturns
  <1>4. ASSUME NEW c \in Callers, NEW m \in Modes, NEW d \in Timeouts, Cancel(c, m, d)
        PROVE  /\ UNCHANGED runVars /\ cc'.cancel = cc.cancel
               /\ Ended' <=> Ended
               /\ cc'.state = "handled" <=> cc.state = "handled"
               /\ \A e \in Callers : call'[e].pc = "returned" => call[e].pc = "returned" \/ Ended
    <2>1. UNCHANGED runVars
      BY <1>4 DEF Cancel
    <2>2. CASE Ended /\ UNCHANGED cc
      BY <2>1, <2>2
    <2>3. CASE /\ ~Ended /\ cc' = [cc EXCEPT !.state = "cancelling"]
               /\ call' = [call EXCEPT ![c].pc = IF cc.state = "running" THEN "open" ELSE "join",
                                  ![c].mode = m, ![c].timeout = d,
                                  ![c].seen = IF cc.state = "running" THEN @ ELSE cc.mode]
      <3>1. cc'.state = "cancelling" /\ cc'.cancel = cc.cancel
        BY <1>0, <2>3 DEF ContextType
      <3>2. \A e \in Callers : call'[e].pc = "returned" => call[e].pc = "returned"
        BY <1>0, <2>3 DEF CallType, CallFields
      <3> QED
        BY <2>1, <2>3, <3>1, <3>2
    <2> QED
      BY <1>4, <2>2, <2>3 DEF Cancel
  <1>5. CASE DeadlineStep \/ Tick
    <2>1. UNCHANGED <<runVars, call>>
      BY <1>5 DEF DeadlineStep, TimerLoop, TimerWoken, TimerSelect, TimerFire, Tick
    <2>2. cc'.state = cc.state /\ cc'.cancel = cc.cancel
      BY <1>0, <1>5 DEF DeadlineStep, TimerLoop, TimerWoken, TimerSelect, TimerFire, Tick,
                        Triggered, ContextType
    <2> QED
      BY <2>1, <2>2
  <1> QED
    BY <1>1, <1>2, <1>3, <1>4, <1>5 DEF Outside, CallerStep

LEMMA OutsideKeeps ==
  ASSUME TimingInv, RunInv, Outside
  PROVE  RunInv'
  <1>1. UNCHANGED <<wrap, out, wf>>
    BY OutsideSteps DEF runVars
  <1>2. Nested'
    BY <1>1 DEF RunInv, Nested
  <1>3. Looked'
    BY <1>1, OutsideSteps DEF RunInv, Looked
  <1>4. Settled'
    BY <1>1, OutsideSteps DEF RunInv, Settled, Leaves
  <1>5. Reported'
    BY <1>1, OutsideSteps DEF RunInv, Reported
  <1> QED
    BY <1>2, <1>3, <1>4, <1>5 DEF RunInv

-----------------------------------------------------------------------------
(* The wrappers *)

LEMMA RunKeepsRun ==
  ASSUME TypeOK, RunInv, Run
  PROVE  RunInv'
  <1> USE Numbers
  <1>1. /\ wrap[Outer] = "idle" /\ wrap'[Outer] = "run" /\ UNCHANGED <<cc, call, out, wf>>
        /\ \A v \in Wrappers \ {Outer} : wrap'[v] = wrap[v]
    BY DEF Run, Set, TypeOK, RunType
  <1>2. ~Ended /\ Leaves' = Leaves
    BY <1>1 DEF RunInv, Settled, Leaves
  <1>3. Nested'
    BY <1>1 DEF RunInv, Nested
  <1>4. Looked'
    BY <1>1 DEF RunInv, Looked, shouldCancel
  <1>5. Settled' /\ Reported'
    BY <1>1, <1>2 DEF RunInv, Settled, Reported, Ended
  <1> QED
    BY <1>3, <1>4, <1>5 DEF RunInv

\* The agent inside a wrapper, or the workflow inside the outer one, ends.
LEMMA InnerKeepsRun ==
  ASSUME TypeOK, RunInv, NEW w \in Wrappers, NEW ev, InnerEnds(w, ev)
  PROVE  RunInv'
  <1> USE Numbers
  <1>1. UNCHANGED <<cc, call, wf>> /\ wrap[w] = "run" /\ Leaves' = Leaves
    BY DEF InnerEnds, Leaves
  <1>2. /\ wrap'[w] \in {"handle", "closed", "last"}
        /\ wrap'[w] = "handle" => shouldCancel
        /\ wrap'[w] # "closed" => out'[w] = out[w]
        /\ \A v \in Wrappers \ {w} : wrap'[v] = wrap[v] /\ out'[v] = out[v]
        /\ out[w] \subseteq out'[w] /\ out'[w] \subseteq out[w] \cup {ev}
    BY DEF InnerEnds, Set, Sends, FirstLook, TypeOK, RunType
  <1>3. w \in Leaves => ev \in {"end", "err", "interrupt"}
    BY CancelAssumption DEF InnerEnds
  <1>4. w \notin Leaves => wf.pc = "closed" /\ ev = wf.out
    BY DEF InnerEnds
  <1>5. w \in Subs => w \in Leaves /\ w = wf.next /\ wf.pc = "drain"
    BY <1>1 DEF RunInv, Nested, Leaves
  <1>6. Nested'
    <2>1. \A v \in Subs : /\ v < wf.next => wrap'[v] = "over"
                          /\ v > wf.next \/ (v = wf.next /\ wf.pc = "check") => wrap'[v] = "idle"
      BY <1>2, <1>5 DEF RunInv, Nested
    <2>2. \A v \in Subs : /\ wrap'[v] \notin {"idle", "over"} => wf.pc = "drain" \/ "err" \in out'[v]
                          /\ "cancel" \in out'[v] => wrap'[v] = "over"
      BY <1>1, <1>2, <1>3, <1>5 DEF RunInv, Nested
    <2>3. wf.pc \in {"drain", "handle"} => wrap'[Outer] = "run"
      <3>1. CASE w = Outer
        BY <1>1, <1>4, <3>1 DEF RunInv, Nested, Leaves
      <3>2. CASE w # Outer
        BY <1>2, <3>2 DEF RunInv, Nested
      <3> QED
        BY <3>1, <3>2
    <2>4. \A v \in Wrappers : wrap'[v] \in {"idle", "run"} => out'[v] = {}
      BY <1>2 DEF RunInv, Nested
    <2>5. wrap'[Outer] = "idle" => wf.pc = "check" /\ wf.next = 1
      BY <1>2 DEF RunInv, Nested
    <2>6. wf.kind = "plain" => wf.pc = "check" /\ \A v \in Subs : wrap'[v] = "idle"
      BY <1>2, <1>5 DEF RunInv, Nested
    <2> QED
      BY <1>1, <2>1, <2>2, <2>3, <2>4, <2>5, <2>6 DEF Nested
  <1>7. Looked'
    BY <1>1, <1>2 DEF RunInv, Looked, shouldCancel
  <1>8. Settled'
    BY <1>1, <1>2, <1>5 DEF RunInv, Settled, Ended, shouldCancel
  <1>9. Reported'
    <2> SUFFICES ASSUME cc.state = "handled", \A v \in Subs : "err" \notin out'[v]
                 PROVE  \/ "cancel" \in out'[Outer]
                        \/ /\ wrap'[Outer] = "run"
                           /\ wf.pc \in {"drain", "handle"} \/ (wf.pc = "closed" /\ wf.out = "cancel")
      BY <1>1 DEF Reported
    <2>1. \A v \in Subs : "err" \notin out[v]
      BY <1>2
    <2>2. CASE w # Outer
      BY <1>2, <2>1, <2>2 DEF RunInv, Reported
    <2>3. CASE w = Outer /\ "cancel" \in out[Outer]
      BY <1>2, <2>3
    <2>4. CASE w = Outer /\ "cancel" \notin out[Outer]
      <3>1. w \notin Leaves
        BY <1>1, <2>4 DEF RunInv, Settled, Ended
      <3>2. ev = "cancel"
        BY <1>4, <2>1, <2>4, <3>1 DEF RunInv, Reported
      <3>3. out'[w] = out[w] \cup {ev}
        BY <3>2 DEF InnerEnds, Sends, TypeOK, RunType
      <3> QED
        BY <2>4, <3>2, <3>3
    <2> QED
      BY <2>2, <2>3, <2>4
  <1> QED
    BY <1>6, <1>7, <1>8, <1>9 DEF RunInv

\* A wrapper whose agent has ended takes its first look, or its last, or reports.
LEMMA EndOfWrapper ==
  ASSUME TypeOK, RunInv, NEW w \in Wrappers, WrapClosed(w) \/ WrapHandle(w) \/ WrapLast(w)
  PROVE  RunInv'
  <1> USE Numbers
  <1>1. UNCHANGED <<call, wf>> /\ Leaves' = Leaves /\ wrap[w] \in {"closed", "handle", "last"}
    BY DEF WrapClosed, WrapHandle, WrapLast, Leaves
  <1>2. /\ wrap'[w] \in {"handle", "last", "over"}
        /\ wrap'[w] = "handle" => shouldCancel
        /\ \A v \in Wrappers \ {w} : wrap'[v] = wrap[v] /\ out'[v] = out[v]
        /\ out[w] \subseteq out'[w]
        /\ wrap'[w] # "over" => out'[w] = out[w]
        /\ "err" \in out'[w] => "err" \in out[w]
    BY DEF WrapClosed, WrapHandle, WrapLast, Set, Sends, FirstLook, TypeOK, RunType
  <1>3. cc'.cancel = cc.cancel /\ (Ended => cc'.state = cc.state)
    BY Marks DEF WrapClosed, WrapHandle, WrapLast, Ended
  <1>4. Ended' => Ended \/ (shouldCancel /\ wrap'[w] = "over")
    <2>1. CASE WrapClosed(w)
      BY <2>1 DEF WrapClosed, Ended
    <2>2. CASE WrapHandle(w)
      BY <2>2, Marks DEF WrapHandle, Ended, Set, TypeOK, RunType, RunInv, Looked
    <2>3. CASE WrapLast(w)
      BY <2>3, Marks DEF WrapLast, Ended, Set, TypeOK, RunType
    <2> QED
      BY <2>1, <2>2, <2>3
  <1>5. cc'.state = "handled" => cc.state = "handled" \/ (shouldCancel /\ "cancel" \in out'[w])
    <2>1. CASE WrapClosed(w)
      BY <2>1 DEF WrapClosed
    <2>2. CASE WrapHandle(w)
      BY <2>2, Marks DEF WrapHandle, Sends, TypeOK, RunType, RunInv, Looked
    <2>3. CASE WrapLast(w)
      BY <2>3, Marks DEF WrapLast, Ended
    <2> QED
      BY <2>1, <2>2, <2>3
  <1>6. w \in Subs => w = wf.next /\ wf.kind = "workflow" /\ (wf.pc = "drain" \/ "err" \in out[w])
    BY <1>1 DEF RunInv, Nested
  <1>7. Nested'
    <2>1. \A v \in Subs : /\ v < wf.next => wrap'[v] = "over"
                          /\ v > wf.next \/ (v = wf.next /\ wf.pc = "check") => wrap'[v] = "idle"
      BY <1>1, <1>2, <1>6 DEF RunInv, Nested
    <2>2. \A v \in Subs : /\ wrap'[v] \notin {"idle", "over"} => wf.pc = "drain" \/ "err" \in out'[v]
                          /\ "cancel" \in out'[v] => wrap'[v] = "over"
      BY <1>1, <1>2, <1>6 DEF RunInv, Nested
    <2>3. wf.pc \in {"drain", "handle"} => wrap'[Outer] = "run"
      BY <1>1, <1>2 DEF RunInv, Nested
    <2>4. \A v \in Wrappers : wrap'[v] \in {"idle", "run"} => out'[v] = {}
      BY <1>2 DEF RunInv, Nested
    <2>5. wrap'[Outer] = "idle" => wf.pc = "check" /\ wf.next = 1
      BY <1>2 DEF RunInv, Nested
    <2>6. wf.kind = "plain" => wf.pc = "check" /\ \A v \in Subs : wrap'[v] = "idle"
      BY <1>2, <1>6 DEF RunInv, Nested
    <2> QED
      BY <1>1, <2>1, <2>2, <2>3, <2>4, <2>5, <2>6 DEF Nested
  <1>8. Looked'
    BY <1>1, <1>2, <1>3, <1>5 DEF RunInv, Looked, shouldCancel
  <1>9. Settled'
    <2>1. \A c \in Callers : call'[c].pc = "returned" => Ended'
      BY <1>1, <1>3 DEF RunInv, Settled, Ended
    <2>2. CASE Ended
      BY <1>1, <1>2, <1>3, <2>1, <2>2 DEF RunInv, Settled, shouldCancel
    <2>3. CASE ~Ended /\ Ended'
      <3>1. shouldCancel /\ wrap'[w] = "over"
        BY <1>4, <2>3
      <3>2. wrap'[Outer] # "idle"
        <4>1. CASE w = Outer
          BY <3>1, <4>1
        <4>2. CASE w # Outer
          BY <1>1, <1>2, <1>6, <4>2 DEF RunInv, Nested
        <4> QED
          BY <4>1, <4>2
      <3>3. \A v \in Leaves : wrap'[v] # "run"
        <4> SUFFICES ASSUME NEW v \in Leaves, v # w, wrap[v] = "run" PROVE FALSE
          BY <1>2, <3>1
        <4>1. CASE wf.kind = "plain"
          BY <1>6, <4>1 DEF Leaves
        <4>2. CASE wf.kind = "workflow"
          <5>1. v = wf.next /\ wf.pc = "drain" /\ wrap[Outer] = "run"
            BY <4>2 DEF RunInv, Nested, Leaves
          <5> QED
            BY <1>1, <1>6, <5>1
        <4> QED
          BY <4>1, <4>2
      <3> QED
        BY <1>1, <1>3, <2>1, <3>1, <3>2, <3>3 DEF Settled, shouldCancel
    <2>4. CASE ~Ended'
      BY <2>1, <2>4 DEF Settled
    <2> QED
      BY <2>2, <2>3, <2>4
  <1>10. Reported'
    <2> SUFFICES ASSUME cc'.state = "handled", \A v \in Subs : "err" \notin out'[v]
                 PROVE  \/ "cancel" \in out'[Outer]
                        \/ /\ wrap'[Outer] = "run"
                           /\ wf.pc \in {"drain", "handle"} \/ (wf.pc = "closed" /\ wf.out = "cancel")
      BY <1>1 DEF Reported
    <2>1. \A v \in Subs : "err" \notin out[v]
      BY <1>2
    <2>2. CASE cc.state = "handled"
      BY <1>1, <1>2, <2>1, <2>2 DEF RunInv, Reported
    <2>3. CASE "cancel" \in out'[w]
      <3>1. CASE w = Outer
        BY <2>3, <3>1
      <3>2. CASE w # Outer
        BY <1>1, <1>2, <1>6, <2>1, <3>2 DEF RunInv, Nested
      <3> QED
        BY <3>1, <3>2
    <2> QED
      BY <1>5, <2>2, <2>3
  <1> QED
    BY <1>7, <1>8, <1>9, <1>10 DEF RunInv

\* flowAgent.Run fails and ends the context for everyone.
LEMMA RunFailsKeeps ==
  ASSUME TypeOK, RunInv, NEW w \in Wrappers, RunFails(w)
  PROVE  RunInv'
  <1> USE Numbers
  <1>1. /\ UNCHANGED <<call, wf>> /\ Leaves' = Leaves /\ wrap[w] = "run"
        /\ w = Outer => wf.pc = "check" /\ wf.next = 1
    BY DEF RunFails, Leaves
  <1>2. /\ wrap'[w] = "over" /\ out'[w] = out[w] \cup {"err"} /\ out[w] = {}
        /\ \A v \in Wrappers \ {w} : wrap'[v] = wrap[v] /\ out'[v] = out[v]
    BY <1>1 DEF RunFails, Set, Sends, TypeOK, RunType, RunInv, Nested
  <1>3. /\ cc'.cancel = cc.cancel /\ Ended' /\ (Ended => cc'.state = cc.state)
        /\ cc'.state = "handled" => cc.state = "handled"
    BY Marks DEF RunFails, Ended
  <1>4. w \in Subs => w = wf.next /\ wf.kind = "workflow" /\ wf.pc = "drain" /\ wrap[Outer] = "run"
    BY <1>1, <1>2 DEF RunInv, Nested
  <1>5. Nested'
    BY <1>1, <1>2, <1>4 DEF RunInv, Nested
  <1>6. Looked'
    BY <1>1, <1>2, <1>3 DEF RunInv, Looked, shouldCancel
  <1>7. Settled'
    <2>1. wrap'[Outer] # "idle"
      BY <1>2, <1>4
    <2>2. \A v \in Leaves : wrap'[v] # "run"
      <3> SUFFICES ASSUME NEW v \in Leaves, v # w, wrap[v] = "run" PROVE FALSE
        BY <1>2
      <3>1. CASE wf.kind = "plain"
        BY <1>4, <3>1 DEF Leaves
      <3>2. CASE wf.kind = "workflow"
        <4>1. v = wf.next /\ wf.pc = "drain"
          BY <3>2 DEF RunInv, Nested, Leaves
        <4> QED
          BY <1>1, <1>4, <4>1
      <3> QED
        BY <3>1, <3>2
    <2>3. wrap'[Outer] # "run" \/ (wf.pc = "drain" /\ "err" \in out'[wf.next])
      BY <1>2, <1>4
    <2> QED
      BY <1>1, <1>3, <2>1, <2>2, <2>3 DEF Settled
  <1>8. Reported'
    <2>1. CASE w \in Subs
      BY <1>2, <2>1 DEF Reported
    <2>2. CASE w = Outer
      <3>1. \A v \in Subs : out'[v] = out[v]
        BY <1>2, <2>2
      <3>2. wrap[Outer] = "run" /\ wf.pc = "check" /\ out[Outer] = {}
        BY <1>1, <1>2, <2>2
      <3> QED
        BY <1>3, <3>1, <3>2 DEF RunInv, Reported
    <2> QED
      BY <2>1, <2>2
  <1> QED
    BY <1>5, <1>6, <1>7, <1>8 DEF RunInv

-----------------------------------------------------------------------------
(* The workflow *)

\* Before a sub-agent: a workflow on a context that has ended sees the cancellation.
LEMMA CheckKeeps ==
  ASSUME TypeOK, RunInv, WorkflowCheck
  PROVE  RunInv'
  <1> USE Numbers
  <1>1. /\ UNCHANGED <<cc, call, out>> /\ wf.kind = "workflow" /\ wrap[Outer] = "run"
        /\ wf.pc = "check" /\ wf'.kind = wf.kind /\ wf'.next = wf.next /\ wf'.out = wf.out
    BY DEF WorkflowCheck, TypeOK, RunType
  <1>2. Leaves' = Leaves /\ Leaves = Subs
    BY <1>1 DEF Leaves
  <1>3. CASE shouldCancel /\ UNCHANGED wrap /\ wf'.pc = "handle"
    <2>1. Nested'
      BY <1>1, <1>3 DEF RunInv, Nested
    <2>2. Looked'
      BY <1>1, <1>3 DEF RunInv, Looked, shouldCancel
    <2>3. Settled'
      BY <1>1, <1>2, <1>3 DEF RunInv, Settled, Ended, shouldCancel
    <2>4. Reported'
      BY <1>1, <1>3 DEF RunInv, Reported
    <2> QED
      BY <2>1, <2>2, <2>3, <2>4 DEF RunInv
  <1>4. CASE ~shouldCancel /\ wf'.pc = "drain" /\ Set(wf.next, "run")
    <2>1. ~Ended
      BY <1>1, <1>4 DEF RunInv, Settled
    <2>2. wrap'[wf.next] = "run" /\ \A v \in Wrappers \ {wf.next} : wrap'[v] = wrap[v]
      BY <1>4 DEF Set, TypeOK, RunType
    <2>3. Nested'
      BY <1>1, <1>4, <2>2 DEF RunInv, Nested
    <2>4. Looked'
      BY <1>1, <1>4, <2>2 DEF RunInv, Looked, shouldCancel
    <2>5. Settled' /\ Reported'
      BY <1>1, <2>1 DEF RunInv, Settled, Reported, Ended
    <2> QED
      BY <2>3, <2>4, <2>5 DEF RunInv
  <1>5. \/ shouldCancel /\ UNCHANGED wrap /\ wf'.pc = "handle"
        \/ ~shouldCancel /\ wf'.pc = "drain" /\ Set(wf.next, "run")
    BY DEF WorkflowCheck, WorkflowStops, TypeOK, RunType
  <1> QED
    BY <1>3, <1>4, <1>5

\* After a sub-agent: one that handled the cancellation is followed by the workflow's
\* own report, one that failed by nothing.
LEMMA AfterKeeps ==
  ASSUME TypeOK, RunInv, WorkflowAfter
  PROVE  RunInv'
  <1> USE Numbers
  <1>1. UNCHANGED <<cc, call, out, wrap>> /\ wf.pc = "drain" /\ wrap[Outer] = "run" /\ Drained
    BY DEF WorkflowAfter, RunInv, Nested
  <1>2. wf'.kind = wf.kind /\ Leaves' = Leaves /\ wf.kind = "workflow" /\ Leaves = Subs
    BY <1>1 DEF WorkflowAfter, WorkflowEnds, TypeOK, RunType, Leaves, RunInv, Nested
  <1>3. wrap[wf.next] # "run"
    BY <1>1 DEF Drained, RunInv, Nested
  <1>4. \A v \in Subs : wrap[v] # "run"
    BY <1>3 DEF RunInv, Nested
  <1>5. CASE shouldCancel /\ wf' = [wf EXCEPT !.pc = "handle"]
    <2>1. wf'.pc = "handle" /\ wf'.next = wf.next
      BY <1>5 DEF TypeOK, RunType
    <2>2. \A v \in Subs : wrap[v] \notin {"idle", "over"} => "err" \in out[v]
      <3> SUFFICES ASSUME NEW v \in Subs, wrap[v] \notin {"idle", "over"} PROVE "err" \in out[v]
        OBVIOUS
      <3>1. v = wf.next
        BY DEF RunInv, Nested
      <3> QED
        BY <1>1, <3>1 DEF Drained, RunInv, Nested
    <2>3. Nested'
      BY <1>1, <1>2, <2>1, <2>2 DEF RunInv, Nested
    <2>4. Looked'
      BY <1>1, <1>5 DEF RunInv, Looked, shouldCancel
    <2>5. Settled'
      BY <1>1, <1>2, <1>4, <1>5 DEF RunInv, Settled, Ended, shouldCancel
    <2>6. Reported'
      BY <1>1, <2>1 DEF Reported
    <2> QED
      BY <2>3, <2>4, <2>5, <2>6 DEF RunInv
  <1>6. CASE ~shouldCancel
    <2>1. cc.state # "handled"
      BY <1>6 DEF RunInv, Looked
    <2>2. Reported'
      BY <1>1, <2>1 DEF Reported
    <2>3. CASE \E event : wf' = [wf EXCEPT !.pc = "closed", !.out = event]
      <3>1. wf'.pc = "closed" /\ wf'.next = wf.next
        BY <2>3 DEF TypeOK, RunType
      <3>2. \A v \in Subs : wrap[v] \notin {"idle", "over"} => "err" \in out[v]
        <4> SUFFICES ASSUME NEW v \in Subs, wrap[v] \notin {"idle", "over"} PROVE "err" \in out[v]
          OBVIOUS
        <4>1. v = wf.next
          BY DEF RunInv, Nested
        <4> QED
          BY <1>1, <4>1 DEF Drained, RunInv, Nested
      <3>3. Nested'
        BY <1>1, <1>2, <3>1, <3>2 DEF RunInv, Nested
      <3>4. Looked'
        BY <1>1, <3>1 DEF RunInv, Looked, shouldCancel
      <3>5. Settled'
        BY <1>1, <1>2, <1>4, <3>1 DEF RunInv, Settled, Ended, shouldCancel
      <3> QED
        BY <2>2, <3>3, <3>4, <3>5 DEF RunInv
    <2>4. CASE /\ out[wf.next] = {} /\ wf.next < SubAgents
               /\ wf' = [wf EXCEPT !.pc = "check", !.next = wf.next + 1]
      <3>1. wf'.pc = "check" /\ wf'.next = wf.next + 1
        BY <2>4 DEF TypeOK, RunType
      <3>2. wrap[wf.next] = "over"
        BY <1>1, <2>4 DEF Drained
      <3>3. ~Ended
        BY <1>1, <1>6, <2>4 DEF RunInv, Settled
      <3>4. \A v \in Subs : /\ v < wf.next + 1 => wrap[v] = "over"
                            /\ v > wf.next => wrap[v] = "idle"
                            /\ v = wf.next + 1 => v > wf.next
                            /\ v > wf.next + 1 => v > wf.next
        BY <3>2 DEF RunInv, Nested
      <3>5. Nested'
        BY <1>1, <1>2, <3>1, <3>4 DEF RunInv, Nested
      <3>6. Looked'
        BY <1>1, <3>1 DEF RunInv, Looked, shouldCancel
      <3>7. Settled'
        BY <1>1, <3>3 DEF RunInv, Settled, Ended
      <3> QED
        BY <2>2, <3>5, <3>6, <3>7 DEF RunInv
    <2> QED
      BY <1>6, <2>3, <2>4 DEF WorkflowAfter, WorkflowStops, WorkflowEnds
  <1> QED
    BY <1>5, <1>6 DEF WorkflowAfter, WorkflowStops

\* The workflow's own CancelError.
LEMMA HandleKeeps ==
  ASSUME TypeOK, RunInv, WorkflowHandle
  PROVE  RunInv'
  <1> USE Numbers
  <1>1. /\ UNCHANGED <<call, out, wrap>> /\ wf.pc = "handle" /\ wf'.pc = "closed" /\ wf'.out = "cancel"
        /\ wf'.kind = wf.kind /\ wf'.next = wf.next /\ wrap[Outer] = "run" /\ shouldCancel
    BY DEF WorkflowHandle, RunInv, Nested, Looked, TypeOK, RunType
  <1>2. /\ cc'.cancel = cc.cancel /\ (Ended => cc'.state = cc.state)
    BY Marks DEF WorkflowHandle, Ended
  <1>3. Leaves' = Leaves /\ Leaves = Subs
    BY <1>1 DEF Leaves, RunInv, Nested
  <1>4. \A v \in Subs : wrap[v] # "run"
    BY <1>1 DEF RunInv, Nested
  <1>5. Nested'
    BY <1>1 DEF RunInv, Nested
  <1>6. Looked'
    BY <1>1, <1>2 DEF RunInv, Looked, shouldCancel
  <1>7. Settled'
    BY <1>1, <1>2, <1>3, <1>4 DEF RunInv, Settled, Ended, shouldCancel
  <1>8. Reported'
    BY <1>1 DEF Reported
  <1> QED
    BY <1>5, <1>6, <1>7, <1>8 DEF RunInv

-----------------------------------------------------------------------------
(* The theorems *)

LEMMA InitIInv == Init => IInv
  <1> SUFFICES ASSUME Init PROVE IInv
    OBVIOUS
  <1>1. TimingInv
    BY InitTimingInv
  <1>2. Nested
    BY CancelAssumption DEF Init, Nested, Subs, Wrappers
  <1>3. Looked /\ Settled /\ Reported
    BY DEF Init, Looked, Settled, Reported, Ended
  <1> QED
    BY <1>1, <1>2, <1>3 DEF IInv

LEMMA NextIInv == IInv /\ [Next]_vars => IInv'
  <1> SUFFICES ASSUME IInv, [Next]_vars PROVE IInv'
    OBVIOUS
  <1>1. TimingInv /\ TypeOK /\ RunInv /\ TimingInv'
    BY NextTimingInv DEF IInv, TimingInv, RunInv
  <1>2. CASE Outside
    BY <1>1, <1>2, OutsideKeeps DEF IInv, RunInv
  <1>3. CASE Run \/ WorkflowStep
    BY <1>1, <1>3, RunKeepsRun, CheckKeeps, AfterKeeps, HandleKeeps DEF WorkflowStep, IInv, RunInv
  <1>4. ASSUME NEW w \in Wrappers, RunFails(w) \/ WrapStep(w) \/ AgentEnds(w)
        PROVE  IInv'
    <2>1. RunInv'
      BY <1>1, <1>4, RunFailsKeeps, EndOfWrapper, InnerKeepsRun DEF WrapStep, AgentEnds
    <2> QED
      BY <1>1, <2>1 DEF IInv, RunInv
  <1>5. CASE UNCHANGED vars
    <2>1. Nested' /\ Looked' /\ Settled' /\ Reported'
      BY <1>1, <1>5 DEF vars, RunInv, Nested, Looked, Settled, Reported, Ended, shouldCancel, Leaves
    <2> QED
      BY <1>1, <2>1 DEF IInv
  <1> QED
    BY <1>2, <1>3, <1>4, <1>5 DEF Next, Outside

\* The sub-agents run one at a time inside the outer run, a context that has ended
\* has no agent at work, and a handled cancellation is on its way to the caller.
THEOREM RunInvariant == Spec => []IInv
  BY InitIInv, NextIInv, PTL DEF Spec

\* A cancellation that was handled, by whichever sub-agent or by the workflow, comes
\* out of the run as a CancelError, unless the events of a failed sub-agent were not
\* read to their end.
THEOREM CancellationIsReported == Spec => []HandledIsReported
  <1>1. IInv => HandledIsReported
    BY DEF IInv, HandledIsReported, Reported
  <1> QED
    BY <1>1, RunInvariant, PTL

\* Once a Wait has returned no agent of the cancelled run is at work and none will
\* be started, for any number of sub-agents that share the context.
THEOREM WaitEndsTheRun == Spec => []QuietAfterWait
  <1>1. IInv => QuietAfterWait
    BY DEF IInv, QuietAfterWait, Settled
  <1> QED
    BY <1>1, RunInvariant, PTL
============================================================================
