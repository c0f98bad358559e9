--------------------------- MODULE CancelContext ---------------------------
(***************************************************************************)
(* The cancellation of an agent run: cancelContext, the cancel function    *)
(* that WithCancel gives to the caller, the goroutine that watches its     *)
(* deadline, the iterator wrappers that report a cancellation, and the     *)
(* sequential and looping workflows, which share one context among all     *)
(* their sub-agents.                                                       *)
(*                                                                         *)
(* A step is what a goroutine does to the shared fields between two points *)
(* where another one can get in: the fields are atomics, and markDone,     *)
(* triggerImmediate and the deadline goroutine do not take cancelMu.       *)
(*                                                                         *)
(* Left out: parallel workflows, checkpoints of interrupted runs, contexts *)
(* derived for agent tools and interrupts from a graph                     *)
(* (nothing outside the tests makes them, so recursive does not matter),   *)
(* the events of a run that carry neither an error nor an interrupt, and   *)
(* what an agent does with an immediate cancel before it ends.             *)
(***************************************************************************)
EXTENDS Naturals, FiniteSets

CONSTANTS
    Callers,   \* goroutines that call the cancel function, once each
    SubAgents, \* how many sub-agents the workflow runs, loop rounds counted
    Kinds,     \* the agents that are run: "plain" or "workflow"
    Modes,     \* the modes a cancel may ask for
    Timeouts,  \* the timeouts it may ask for, 0 is none
    MaxTimeout, \* the longest of them
    Events     \* how an agent may end: "end", "err", "interrupt", "noInput"

SafePoints == {"chatModel", "toolCalls"}
Immediate  == {}
Nobody     == "nobody"

ASSUME CancelAssumption ==
    /\ Nobody \notin Callers
    /\ SubAgents \in Nat \ {0}
    /\ Kinds \subseteq {"plain", "workflow"}
    /\ Modes \subseteq SUBSET SafePoints
    /\ MaxTimeout \in Nat
    /\ Timeouts \subseteq 0..MaxTimeout
    /\ Events \subseteq {"end", "err", "interrupt", "noInput"}

Outer    == 0
Subs     == 1..SubAgents
Wrappers == {Outer} \cup Subs

VARIABLES
    cc,    \* the fields of the cancelContext
    mu,    \* who holds cancelMu
    call,  \* the callers of the cancel function
    timer, \* the goroutine of startTimeout
    now,   \* the time
    wrap,  \* the goroutines of wrapIterWithCancelCtx, Outer around the whole run
    out,   \* the errors, interrupts and CancelErrors each has sent
    wf     \* the goroutine of the workflow inside Outer

vars == <<cc, mu, call, timer, now, wrap, out, wf>>

runVars == <<wrap, out, wf>>

ContextType ==
    cc \in [state : {"running", "cancelling", "done", "handled"},
            mode : SUBSET SafePoints, cancel : BOOLEAN, immediate : BOOLEAN,
            done : BOOLEAN, timeoutEscalated : BOOLEAN,
            deadline : 0..MaxTimeout, notify : BOOLEAN]

CallFields ==
    [pc : {"idle", "open", "join", "trigger", "wait", "returned"},
     mode : SUBSET SafePoints, timeout : 0..MaxTimeout, seen : SUBSET SafePoints,
     due : 0..(2 * MaxTimeout), result : {"none", "nil", "ended", "timeout"}]

CallType == call \in [Callers -> CallFields]

TimerType ==
    timer \in [pc : {"none", "loop", "armed", "fire", "over"}, at : 0..MaxTimeout]

RunType ==
    /\ wrap \in [Wrappers -> {"idle", "run", "closed", "handle", "last", "over"}]
    /\ out \in [Wrappers -> SUBSET {"err", "interrupt", "cancel"}]
    /\ wf \in [kind : {"plain", "workflow"}, pc : {"check", "drain", "handle", "closed"},
               next : Subs, out : {"none", "err", "interrupt", "cancel"}]

\* Types, and what the fields have to do with each other: doneChan is closed when
\* the state has ended, cancelMu is held by the one caller that is inside.
TypeOK ==
    /\ ContextType /\ CallType /\ TimerType /\ RunType
    /\ now \in 0..MaxTimeout
    /\ cc.done <=> cc.state \in {"done", "handled"}
    /\ mu \in Callers \cup {Nobody}
    /\ \A c \in Callers : mu = c <=> call[c].pc \in {"open", "join"}

\* newCancelContext.
Init ==
    /\ cc = [state |-> "running", mode |-> Immediate, cancel |-> FALSE,
             immediate |-> FALSE, done |-> FALSE, timeoutEscalated |-> FALSE,
             deadline |-> 0, notify |-> FALSE]
    /\ mu = Nobody
    /\ call = [c \in Callers |->
          [pc |-> "idle", mode |-> Immediate, timeout |-> 0, seen |-> Immediate,
           due |-> 0, result |-> "none"]]
    /\ timer = [pc |-> "none", at |-> 0]
    /\ now = 0
    /\ wrap = [w \in Wrappers |-> "idle"]
    /\ out = [w \in Wrappers |-> {}]
    /\ \E k \in Kinds : wf = [kind |-> k, pc |-> "check", next |-> 1, out |-> "none"]

-----------------------------------------------------------------------------
(* The state machine *)

Ended == cc.state \in {"done", "handled"}

shouldCancel == cc.cancel

\* markDone: the run is over, whether or not somebody asked to cancel it.
MarkedDone ==
    IF Ended THEN cc ELSE [cc EXCEPT !.state = "done", !.done = TRUE]

\* markHandled: the cancellation is reported by whoever gets here first.  The
\* mutant leaves doneChan open.
MarkedHandledOnly ==
    IF cc.state = "cancelling" THEN [cc EXCEPT !.state = "handled"] ELSE cc

MarkedHandled ==
    IF cc.state = "cancelling" THEN [cc EXCEPT !.state = "handled", !.done = TRUE] ELSE cc

-----------------------------------------------------------------------------
(* The cancel function: buildCancelFunc *)

\* Immediate wins, safe points add up.
join(a, b) == IF Immediate \in {a, b} THEN Immediate ELSE a \cup b

\* What a call returns on a context that has ended, and what Wait returns.
ResultOf ==
    CASE cc.state = "done" -> "ended"
      [] cc.state = "handled" /\ cc.timeoutEscalated -> "timeout"
      [] OTHER -> "nil"

Goto(c, pc) == call' = [call EXCEPT ![c].pc = pc]

Return(c, result) == call' = [call EXCEPT ![c].pc = "returned", ![c].result = result]

EndedResult == IF cc.state = "done" THEN "ended" ELSE "nil"

\* A call on a context that has ended returns at once.  Otherwise the state, read
\* again under the lock, moves on by a compare-and-swap, which fails only when
\* markDone has come between: that is a context that has ended.  A later call
\* reads the mode it will join with.  (An immediate cancel has no timeout.)
Cancel(c, mode, timeout) ==
    /\ call[c].pc = "idle"
    /\ \/ /\ Ended
          /\ Return(c, EndedResult)
          /\ UNCHANGED <<cc, mu>>
       \/ /\ ~Ended /\ mu = Nobody
          /\ mode = Immediate => timeout = 0
          /\ mu' = c
          /\ cc' = [cc EXCEPT !.state = "cancelling"]
          /\ call' = [call EXCEPT ![c].pc = IF cc.state = "running" THEN "open" ELSE "join",
                                  ![c].mode = mode, ![c].timeout = timeout,
                                  ![c].seen = IF cc.state = "running" THEN @ ELSE cc.mode]
    /\ UNCHANGED <<timer, now, runVars>>

\* setDeadlineMinUnixNano; the mutant is setDeadlineUnixNano.
DeadlineNew(cur, next) == next

EarliestDeadline(cur, next) == IF cur # 0 /\ cur <= next THEN cur ELSE next

\* The first call sets its mode and closes cancelChan, a later one joins.  With a
\* safe point a deadline may be set, which leaves a token for the deadline
\* goroutine (wakeTimeout).  Then the lock is released, and the first caller with
\* a deadline starts that goroutine (startTimeout).
Request(c) ==
    LET mode == IF call[c].pc = "open" THEN call[c].mode
                                       ELSE join(call[c].seen, call[c].mode)
        due  == now + call[c].timeout
        timed == mode # Immediate /\ call[c].timeout > 0
    IN  /\ call[c].pc \in {"open", "join"}
        /\ cc' = [cc EXCEPT !.mode = mode, !.cancel = TRUE,
                            !.deadline = IF timed THEN EarliestDeadline(@, due) ELSE @,
                            !.notify = @ \/ timed]
        /\ call' = [call EXCEPT ![c].seen = Immediate,
                                ![c].due = IF timed THEN due ELSE 0,
                                ![c].pc = IF mode = Immediate THEN "trigger" ELSE "wait"]
        /\ timer' = IF timed /\ timer.pc = "none" THEN [timer EXCEPT !.pc = "loop"] ELSE timer
        /\ mu' = Nobody
        /\ UNCHANGED <<now, runVars>>

\* triggerImmediate and sendInterrupt take no cancelMu: the mode is set under the
\* hands of a caller that is about to join, and immediateChan is closed.  The
\* mutant takes every escalation for a timeout.
TriggeredAsTimeout == [cc EXCEPT !.mode = Immediate, !.immediate = TRUE, !.timeoutEscalated = TRUE]

Triggered == [cc EXCEPT !.mode = Immediate, !.immediate = TRUE]

TriggerImmediate(c) ==
    /\ call[c].pc = "trigger"
    /\ cc' = Triggered
    /\ Goto(c, "wait")
    /\ UNCHANGED <<mu, timer, now, runVars>>

\* CancelHandle.Wait.
WaitReturns(c) ==
    /\ call[c].pc = "wait" /\ cc.done
    /\ Return(c, ResultOf)
    /\ UNCHANGED <<cc, mu, timer, now, runVars>>

-----------------------------------------------------------------------------
(* The deadline goroutine: startTimeout *)

\* The top of its loop.
TimerLoop ==
    /\ timer.pc = "loop"
    /\ timer' = [pc |-> CASE cc.done -> "over"
                          [] ~cc.done /\ cc.deadline <= now -> "fire"
                          [] OTHER -> "armed",
                 at |-> IF cc.done \/ cc.deadline <= now THEN 0 ELSE cc.deadline]
    /\ UNCHANGED <<cc, mu, call, now, runVars>>

\* A new deadline wakes it, and it reads the deadline again.  The mutant ends.
TimerWokenLast ==
    /\ timer.pc = "armed" /\ cc.notify
    /\ cc' = [cc EXCEPT !.notify = FALSE]
    /\ timer' = [pc |-> "over", at |-> 0]
    /\ UNCHANGED <<mu, call, now, runVars>>

TimerWoken ==
    /\ timer.pc = "armed" /\ cc.notify
    /\ cc' = [cc EXCEPT !.notify = FALSE]
    /\ timer' = [pc |-> "loop", at |-> 0]
    /\ UNCHANGED <<mu, call, now, runVars>>

\* The timer goes off, or the run has ended: with both, either may be taken.
TimerSelect ==
    /\ timer.pc = "armed"
    /\ \/ now >= timer.at /\ timer' = [pc |-> "fire", at |-> 0]
       \/ cc.done         /\ timer' = [pc |-> "over", at |-> 0]
    /\ UNCHANGED <<cc, mu, call, now, runVars>>

\* It has decided to escalate, whatever has happened since.
TimerFire ==
    /\ timer.pc = "fire"
    /\ cc' = [Triggered EXCEPT !.timeoutEscalated = TRUE]
    /\ timer' = [pc |-> "over", at |-> 0]
    /\ UNCHANGED <<mu, call, now, runVars>>

\* Time matters from the first deadline that is set to the one that comes first.
Tick ==
    /\ now < cc.deadline
    /\ now' = now + 1
    /\ UNCHANGED <<cc, mu, call, timer, runVars>>

-----------------------------------------------------------------------------
(* The iterator wrapper: wrapIterWithCancelCtx *)

\* The wrappers that have an agent inside them, and not the workflow.
Leaves == IF wf.kind = "plain" THEN {Outer} ELSE Subs

Set(w, pc) == wrap' = [wrap EXCEPT ![w] = pc]

Sends(w, event) == out' = [out EXCEPT ![w] = @ \cup {event}]

\* flowAgent.Run of the whole run.
Run ==
    /\ wrap[Outer] = "idle"
    /\ Set(Outer, "run")
    /\ UNCHANGED <<cc, mu, call, timer, now, out, wf>>

\* flowAgent.Run cannot make its input and returns before anything is started:
\* the context is marked done, whoever shares it, and the iterator holds the
\* error alone.
RunFails(w) ==
    /\ "noInput" \in Events
    /\ wrap[w] = "run"
    /\ w = Outer => wf.pc = "check" /\ wf.next = 1
    /\ cc' = MarkedDone
    /\ Set(w, "over")
    /\ Sends(w, "err")
    /\ UNCHANGED <<mu, call, timer, now, wf>>

\* The first look at cancelChan after the end of the inner iterator.
FirstLook == IF shouldCancel THEN "handle" ELSE "last"

\* The inner iterator ends, after a last event.  An interrupt of a run that is
\* to be cancelled is kept back for the CancelError, other events go through.
InnerEnds(w, event) ==
    /\ wrap[w] = "run"
    /\ IF w \in Leaves THEN event \in Events \ {"noInput"} ELSE wf.pc = "closed" /\ event = wf.out
    /\ IF event = "interrupt" /\ shouldCancel
       THEN Set(w, "handle") /\ UNCHANGED out
       ELSE IF event \in {"end", "none"} THEN Set(w, FirstLook) /\ UNCHANGED out
                                         ELSE Set(w, "closed") /\ Sends(w, event)
    /\ UNCHANGED <<cc, mu, call, timer, now, wf>>

WrapClosed(w) ==
    /\ wrap[w] = "closed"
    /\ Set(w, FirstLook)
    /\ UNCHANGED <<cc, mu, call, timer, now, out, wf>>

\* createAndMarkHandled; only the one that handles the cancellation reports it.
WrapHandle(w) ==
    /\ wrap[w] = "handle" /\ mu = Nobody
    /\ cc' = MarkedHandled
    /\ IF cc.state = "cancelling" THEN Sends(w, "cancel") ELSE UNCHANGED out
    /\ Set(w, "over")
    /\ UNCHANGED <<mu, call, timer, now, wf>>

\* The second look, which is the last: a cancel that came between ends as done.
WrapLast(w) ==
    /\ wrap[w] = "last"
    /\ cc' = IF shouldCancel THEN MarkedDone ELSE cc
    /\ Set(w, "over")
    /\ UNCHANGED <<mu, call, timer, now, out, wf>>

-----------------------------------------------------------------------------
(* The workflow: runSeq and runLoop *)

\* The workflow looks at the channel; the mutant at the state, which may have ended
\* already.
WorkflowStopsWhileOpen == shouldCancel /\ ~Ended

WorkflowStops == shouldCancel

\* Before every sub-agent.
WorkflowCheck ==
    /\ wf.kind = "workflow" /\ wrap[Outer] = "run" /\ wf.pc = "check"
    /\ IF WorkflowStops
       THEN wf' = [wf EXCEPT !.pc = "handle"] /\ UNCHANGED wrap
       ELSE wf' = [wf EXCEPT !.pc = "drain"] /\ Set(wf.next, "run")
    /\ UNCHANGED <<cc, mu, call, timer, now, out>>

\* drainEvents returns with an error or at the end of the sub-agent's events.
Drained == wrap[wf.next] = "over" \/ out[wf.next] \cap {"err", "cancel"} # {}

WorkflowEnds(event) == wf' = [wf EXCEPT !.pc = "closed", !.out = event]

\* After every sub-agent: a cancelled workflow ends, an error or an interrupt goes
\* to the outer run, an exit or the break of a loop ends the workflow early.
WorkflowAfter ==
    /\ wf.pc = "drain" /\ Drained
    /\ LET sent == out[wf.next] IN
        \/ WorkflowStops /\ wf' = [wf EXCEPT !.pc = "handle"]
        \/ /\ ~WorkflowStops
           /\ \E event \in sent :
                 /\ event = "interrupt" => sent = {"interrupt"}
                 /\ WorkflowEnds(event)
        \/ ~WorkflowStops /\ sent = {} /\ WorkflowEnds("none")
        \/ /\ ~WorkflowStops /\ sent = {} /\ wf.next < SubAgents
           /\ wf' = [wf EXCEPT !.pc = "check", !.next = @ + 1]
    /\ UNCHANGED <<cc, mu, call, timer, now, wrap, out>>

\* Mutant: a CancelError of its own or none.
WorkflowHandleOnce ==
    /\ wf.pc = "handle" /\ mu = Nobody
    /\ cc' = MarkedHandled
    /\ wf' = [wf EXCEPT !.pc = "closed",
                        !.out = IF cc.state = "cancelling" THEN "cancel" ELSE "none"]
    /\ UNCHANGED <<mu, call, timer, now, wrap, out>>

\* createAndMarkHandled, and a CancelError in any case.
WorkflowHandle ==
    /\ wf.pc = "handle" /\ mu = Nobody
    /\ cc' = MarkedHandled
    /\ wf' = [wf EXCEPT !.pc = "closed", !.out = "cancel"]
    /\ UNCHANGED <<mu, call, timer, now, wrap, out>>

-----------------------------------------------------------------------------

CallerStep(c) ==
    Request(c) \/ TriggerImmediate(c) \/ WaitReturns(c)

DeadlineStep == TimerLoop \/ TimerWoken \/ TimerSelect \/ TimerFire

WrapStep(w) ==
    \/ WrapClosed(w) \/ WrapHandle(w) \/ WrapLast(w)
    \/ w \notin Leaves /\ \E ev \in {"none", "err", "interrupt", "cancel"} : InnerEnds(w, ev)

AgentEnds(w) == w \in Leaves /\ \E ev \in Events : InnerEnds(w, ev)

WorkflowStep == WorkflowCheck \/ WorkflowAfter \/ WorkflowHandle

Next ==
    \/ \E c \in Callers : CallerStep(c) \/ \E m \in Modes, d \in Timeouts : Cancel(c, m, d)
    \/ DeadlineStep \/ Tick
    \/ Run \/ WorkflowStep
    \/ \E w \in Wrappers : RunFails(w) \/ WrapStep(w) \/ AgentEnds(w)

Spec == Init /\ [][Next]_vars

\* Goroutines go on and time passes.  An agent need not end by itself, but it
\* does once immediateChan is closed: its streams and its tools watch it.
FairSpec ==
    /\ Spec
    /\ \A c \in Callers : WF_vars(CallerStep(c))
    /\ WF_vars(DeadlineStep) /\ WF_vars(Tick)
    /\ WF_vars(WorkflowStep)
    /\ \A w \in Wrappers : WF_vars(WrapStep(w)) /\ WF_vars(cc.immediate /\ AgentEnds(w))

-----------------------------------------------------------------------------
(* Properties *)

Passed == \E d \in Callers : call[d].due \in 1..now

\* Wait reports a timeout only of a deadline that somebody asked for and that
\* has passed, whatever other calls made the cancellation immediate.
TimeoutIsReal ==
    \A c \in Callers :
        call[c].result = "timeout" => Passed

\* The deadline is the earliest that a caller asked for.  The timer is set for it
\* or has a token to look again, and what it has done or is about to do is due.
Timing ==
    /\ \A c \in Callers : call[c].pc \in {"idle", "open", "join"} => call[c].due = 0
    /\ \A c \in Callers : call[c].due # 0 => cc.deadline \in 1..call[c].due
    /\ cc.deadline # 0 => \E c \in Callers : call[c].due = cc.deadline
    /\ cc.deadline = 0 => now = 0
    /\ timer.pc = "loop" => cc.deadline # 0
    /\ timer.pc = "armed" =>
          /\ timer.at = cc.deadline \/ cc.notify
          /\ timer.at # 0 /\ \E c \in Callers : call[c].due = timer.at
    /\ timer.pc = "fire" \/ cc.timeoutEscalated => Passed

\* The inductive invariant of the timing properties.
TimingInv == TypeOK /\ Timing /\ TimeoutIsReal

\* A cancellation that was handled is seen by whoever reads the events of the
\* run: wherever it was handled, a CancelError comes out at the end, unless a
\* sub-agent failed and its events were not read to the end.
HandledIsReported ==
    (cc.state = "handled" /\ wrap[Outer] = "over" /\ \A w \in Subs : "err" \notin out[w])
        => "cancel" \in out[Outer]

\* "A later cancel cannot extend an earlier timeout" (cancel.go:362): a timer
\* set for later than a caller asked for is about to be woken.
TimeoutNotExtended ==
    \A c \in Callers :
        (timer.pc = "armed" /\ call[c].due # 0 /\ timer.at > call[c].due)
            => cc.notify

\* Once a Wait has returned no agent of the run is at work and no further
\* one is started, although sub-agents share the context and the one
\* that handles the cancellation is not the workflow.
QuietAfterWait ==
    (cc.cancel /\ \E c \in Callers : call[c].pc = "returned")
        => \A w \in Leaves : wrap[w] # "run"

\* A Wait on a cancellation that is immediate or has a deadline returns if the
\* run had started and was not over.
CancelReturns ==
    \A c \in Callers :
        (/\ call[c].pc = "wait" /\ wrap[Outer] \notin {"idle", "over"}
         /\ call[c].mode = Immediate \/ call[c].timeout > 0)
            ~> call[c].pc = "returned"

-----------------------------------------------------------------------------
(* The inductive invariant of the run *)

\* The sub-agents run one after the other inside the outer run: those before the
\* current one are over, those after it have not started, and the workflow has not
\* left the current one unless that one has failed.
Nested ==
    /\ wf.kind = "plain" => wf.pc = "check" /\ \A w \in Subs : wrap[w] = "idle"
    /\ \A w \in Subs :
          /\ w < wf.next => wrap[w] = "over"
          /\ w > wf.next \/ (w = wf.next /\ wf.pc = "check") => wrap[w] = "idle"
          /\ wrap[w] \notin {"idle", "over"} => wf.pc = "drain" \/ "err" \in out[w]
          /\ "cancel" \in out[w] => wrap[w] = "over"
    /\ \A w \in Wrappers : wrap[w] \in {"idle", "run"} => out[w] = {}
    /\ wf.pc \in {"drain", "handle"} => wrap[Outer] = "run"
    /\ wrap[Outer] = "idle" => wf.pc = "check" /\ wf.next = 1

\* Whoever handles a cancellation has seen that there is one.
Looked ==
    /\ \A w \in Wrappers : wrap[w] = "handle" => shouldCancel
    /\ wf.pc = "handle" \/ cc.state = "handled" => shouldCancel

\* A context that has ended has no agent at work, and the workflow starts no other:
\* it will see the cancellation, is over, or has the error of its sub-agent to read.
Settled ==
    /\ \A c \in Callers : call[c].pc = "returned" => Ended
    /\ Ended =>
          /\ wrap[Outer] # "idle"
          /\ \A w \in Leaves : wrap[w] # "run"
          /\ \/ shouldCancel \/ wrap[Outer] # "run" \/ wf.pc = "closed"
             \/ wf.pc = "drain" /\ "err" \in out[wf.next]

\* A cancellation that was handled, by a sub-agent or by the workflow, is on its way
\* to the events of the run.
Reported ==
    cc.state = "handled" /\ (\A w \in Subs : "err" \notin out[w]) =>
        \/ "cancel" \in out[Outer]
        \/ /\ wrap[Outer] = "run"
           /\ wf.pc \in {"drain", "handle"} \/ (wf.pc = "closed" /\ wf.out = "cancel")

IInv == TimingInv /\ Nested /\ Looked /\ Settled /\ Reported
============================================================================
