------------------------------ MODULE AgentLoop ------------------------------
(***************************************************************************)
(* The push-based agent loop of the harness (harness/core/agent_loop*.go). *)
(* The goroutines that share one AgentLoop:                                *)
(*                                                                         *)
(*   loop       run: receive items, plan a turn, run the agent, clean up   *)
(*   pushers    callers of Push; a delayed preempt leaves a goroutine      *)
(*   stoppers   callers of Stop, and the idle and stop timers              *)
(*   turn k     the agent, the goroutine that copies its events, the event *)
(*              handler, watchPreempt and watchStop of the k-th turn       *)
(*                                                                         *)
(* A step is one critical section of turnBuffer, preemptController or      *)
(* stopController, or one atomic load or store of stopped, with the local  *)
(* work around it.  Items are opaque: a Push pushes the item it is named   *)
(* after.                                                                  *)
(***************************************************************************)
EXTENDS Naturals, Sequences, FiniteSets

CONSTANTS
    Items,       \* the items pushed, one Push each
    Stoppers,    \* calls of Stop
    PushKinds,   \* the options pushes use in this run
    StopKinds,   \* the options stops use in this run
    Stores,      \* what Config.Store holds under CheckpointID at the start
    Canceled,    \* CanceledItems of that checkpoint, a sequence
    Unhandled,   \* UnhandledItems of that checkpoint, a sequence
    Events,      \* how agents end, besides an answer to a cancel
    Faults       \* faults of the environment in this run

AllPushKinds == {"plain", "preempt", "delayed", "strategy", "strategyPreempt"}
AllStopKinds == {"now", "cancel", "skip", "idle", "timeout"}

(***************************************************************************)
(*   none    no Store, or no CheckpointID                                  *)
(*   empty   nothing saved                                                 *)
(*   runner  a checkpoint with the state of an interrupted agent           *)
(*   bare    a checkpoint without it                                       *)
(***************************************************************************)
AllStores == {"none", "empty", "runner", "bare"}

(***************************************************************************)
(*   gen     GenInput, GenResume or PrepareAgent returns an error          *)
(*   early   OnAgentEvents returns before the agent has ended              *)
(*   ctx     the context given to Run is cancelled                         *)
(*   load    the checkpoint cannot be read or decoded                      *)
(*   resume  Runner.Resume returns an error                                *)
(*   save    Store.Set returns an error                                    *)
(*   take    the caller asks for the late items once the loop is done      *)
(***************************************************************************)
AllFaults == {"gen", "early", "ctx", "load", "resume", "save", "take"}

(***************************************************************************)
(*   end        the agent is finished                                      *)
(*   err        its last event is an error                                 *)
(*   interrupt  an interrupt of Interrupt, StatefulInterrupt or            *)
(*              CompositeInterrupt, which carries no InterruptContexts     *)
(*   contexts   an interrupt the agent made itself, with InterruptContexts *)
(***************************************************************************)
AllEvents == {"end", "err", "interrupt", "contexts"}

Elements(s) == {s[n] : n \in DOMAIN s}
Distinct(s) == \A m, n \in DOMAIN s : s[m] = s[n] => m = n

Old == Elements(Canceled) \cup Elements(Unhandled)

ASSUME LoopAssumption ==
    /\ IsFiniteSet(Items)
    /\ PushKinds \subseteq AllPushKinds
    /\ StopKinds \subseteq AllStopKinds
    /\ Stores \subseteq AllStores
    /\ Events \subseteq AllEvents
    /\ Faults \subseteq AllFaults
    /\ Canceled \in Seq(Old) /\ Unhandled \in Seq(Old)
    /\ IsFiniteSet(Old)
    /\ Items \cap Old = {}

\* A checkpoint names an item once, as the ones that cleanup saves do (StoreDistinct).
ASSUME CheckpointAssumption == Distinct(Canceled \o Unhandled)

AllItems == Items \cup Old

\* Bound: GenInput is taken to consume at least one of the items it is given, and
\* to hand back the others, so a turn consumes an item but for the one that
\* resumes a checkpoint.
MaxTurns == Cardinality(AllItems) + 1
Turns    == 1..MaxTurns

VARIABLES
    loop,        \* run: program counter, items in hand, resume, error
    buffer,      \* turnBuffer
    preemptCtrl, \* preemptController; pending is the set of its ack channels
    stopCtrl,    \* stopController; pending tells whether there is a request
    flags,       \* stopped, started, done, the context, and a crash
    pusher,      \* Push calls: program counter, options, snapshot
    ack,         \* the ack channel of each Push
    stopper,     \* Stop calls: program counter
    timers,      \* the idle timer, and goroutines about to call commitStop
    turn,        \* the goroutines of each turn
    captured,    \* capturedCancelErr and interruptContexts, if set
    runnerBytes, \* checkPointRunnerBytes is not empty
    late,        \* lateItems and lateSealed
    result,      \* AgentLoopState, and the consumed items of all turns
    store        \* the checkpoint in Config.Store

vars == <<loop, buffer, preemptCtrl, stopCtrl, flags, pusher, ack, stopper, timers,
          turn, captured, runnerBytes, late, result, store>>

pushVars == <<pusher, ack, late>>
stopVars == <<stopper, timers>>
turnVars == <<turn, captured>>
saveVars == <<runnerBytes, store>>

----------------------------------------------------------------------------
(* Where the goroutines are.  A panic crashes the process: no goroutine of it *)
(* takes another step.                                                        *)

At(pc)           == ~flags.crashed /\ loop.pc = pc
PusherAt(p, pcs) == ~flags.crashed /\ pusher[p].pc \in pcs
StopperAt(s, pc) == ~flags.crashed /\ stopper[s] = pc
TurnAt(k, part, pc) == ~flags.crashed /\ turn[k][part] = pc

(* turnBuffer: the mutants are a Close that wakes nobody, and a PushFront that *)
(* loses, or overtakes, what was pushed meanwhile.                            *)

ReceivableOpen == buffer.buf # <<>> \/ buffer.woken
Receivable     == buffer.buf # <<>> \/ buffer.closed \/ buffer.woken

PushFrontOnly(s) == buffer' = [buffer EXCEPT !.buf = s]
PushBack(s)      == buffer' = [buffer EXCEPT !.buf = @ \o s]
PushFront(s)     == buffer' = [buffer EXCEPT !.buf = s \o @]
TakeAll          == buffer' = [buffer EXCEPT !.buf = <<>>]
CloseBuffer      == buffer' = [buffer EXCEPT !.closed = TRUE]
Wakeup           == buffer' = [buffer EXCEPT !.woken = TRUE]

(* Ack channels: closing a closed channel panics. *)

CloseAcks(S) ==
    ack' = [p \in Items |->
              IF p \notin S THEN ack[p]
              ELSE IF ack[p] = "open" THEN "closed" ELSE "twice"]

----------------------------------------------------------------------------
(* Push *)

InSection(kind) == kind # "plain"
Preempts(kind)  == kind \in {"preempt", "delayed", "strategyPreempt"}

\* Where a refused push goes on: to its deferred endPush once it began one.  The
\* mutant forgets it.
AfterLateAtOnce(p) == "done"
AfterLate(p) ==
    IF pusher[p].pc = "start" \/ ~InSection(pusher[p].kind) THEN "done" ELSE "end"

\* appendLate, which panics once the late items have been taken; the deferred
\* endPush runs in any case.
AppendLate(p) ==
    /\ late' = IF late.sealed THEN late ELSE [late EXCEPT !.items = @ \cup {p}]
    /\ pusher' = [pusher EXCEPT
          ![p] = [@ EXCEPT
             !.pc  = AfterLate(p),
             !.out = IF late.sealed THEN "panicked" ELSE "late"]]

\* Push: the options are known; without a strategy stopped is loaded first.
Push(p, kind) ==
    /\ PusherAt(p, {"idle"})
    /\ pusher' = [pusher EXCEPT ![p] = [@ EXCEPT !.kind = kind,
                    !.pc = IF kind \in {"strategy", "strategyPreempt"} THEN "begin" ELSE "start"]]
    /\ UNCHANGED <<loop, buffer, preemptCtrl, stopCtrl, flags, ack, late, result,
                   stopVars, turnVars, saveVars>>

\* pushWithConfig, and pushWithStrategy once the strategy wants a preempt: a
\* stopped loop takes no item.
CheckStopped(p) ==
    /\ PusherAt(p, {"start", "check"})
    /\ \/ flags.stopped /\ AppendLate(p)
       \/ /\ ~flags.stopped
          /\ pusher' = [pusher EXCEPT ![p].pc =
                IF pusher[p].kind \in {"preempt", "delayed"} THEN "begin" ELSE "send"]
          /\ UNCHANGED late
    /\ UNCHANGED <<loop, buffer, preemptCtrl, stopCtrl, flags, ack, result, stopVars,
                   turnVars, saveVars>>

\* beginPush counts the push and takes a snapshot of the target turn.
BeginPush(p) ==
    /\ PusherAt(p, {"begin"})
    /\ preemptCtrl' = [preemptCtrl EXCEPT !.pushInFlight = @ + 1]
    /\ pusher' = [pusher EXCEPT ![p] = [@ EXCEPT
          !.pc     = IF pusher[p].kind = "strategyPreempt" THEN "check" ELSE "send",
          !.target = preemptCtrl.phase \in {"planning", "active"},
          !.turnID = preemptCtrl.turnID]]
    /\ UNCHANGED <<loop, buffer, stopCtrl, flags, ack, late, result, stopVars,
                   turnVars, saveVars>>

\* TrySend, and what follows of an accepted item.
TrySend(p) ==
    LET kind == pusher[p].kind
    IN  /\ PusherAt(p, {"send"})
        /\ \/ /\ buffer.closed
              /\ AppendLate(p)
              /\ UNCHANGED <<buffer, ack, result>>
           \/ /\ ~buffer.closed
              /\ buffer' = [buffer EXCEPT !.buf = Append(@, p)]
              /\ result' = [result EXCEPT !.accepted = Append(@, p)]
              /\ pusher' = [pusher EXCEPT ![p] = [@ EXCEPT
                    !.pc  = CASE kind = "plain"                              -> "done"
                              [] kind \in {"preempt", "strategyPreempt"}
                                 /\ flags.started                            -> "request"
                              [] OTHER                                       -> "end",
                    !.out = "accepted"]]
              /\ ack' = [ack EXCEPT ![p] =
                    IF ~Preempts(kind) THEN "none"
                    ELSE IF flags.started THEN "open" ELSE "closed"]
              /\ UNCHANGED late
        /\ UNCHANGED <<loop, preemptCtrl, stopCtrl, flags, stopVars, turnVars, saveVars>>

\* The turn of the snapshot is over, or there was none: the request is acked and
\* forgotten.  The mutant accepts it for the turn that is running now.
ObsoleteUnlessBusy(p) ==
    preemptCtrl.closed \/ ~pusher[p].target \/ preemptCtrl.phase = "idle"
Obsolete(p) ==
    \/ preemptCtrl.closed \/ ~pusher[p].target
    \/ preemptCtrl.phase = "idle" \/ preemptCtrl.turnID # pusher[p].turnID

\* requestPreempt, by the pusher or, after the delay, by its goroutine.
RequestPreempt(p) ==
    /\ PusherAt(p, {"request", "delay"})
    /\ \/ /\ Obsolete(p)
          /\ CloseAcks({p})
          /\ UNCHANGED preemptCtrl
       \/ /\ ~Obsolete(p)
          /\ preemptCtrl' = [preemptCtrl EXCEPT
                !.pending = @ \cup {p},
                !.notify  = @ \/ preemptCtrl.phase = "active"]
          /\ UNCHANGED ack
    /\ pusher' = [pusher EXCEPT ![p].pc = IF @ = "delay" THEN "done" ELSE "end"]
    /\ UNCHANGED <<loop, buffer, stopCtrl, flags, late, result, stopVars, turnVars,
                   saveVars>>

\* The loop is done before the delay is over.  The mutant leaves the ack open.
DelayForgotten(p) ==
    /\ PusherAt(p, {"delay"})
    /\ flags.done
    /\ pusher' = [pusher EXCEPT ![p].pc = "done"]
    /\ UNCHANGED <<loop, buffer, preemptCtrl, stopCtrl, flags, ack, late, result,
                   stopVars, turnVars, saveVars>>

DelayCancelled(p) ==
    /\ PusherAt(p, {"delay"})
    /\ flags.done
    /\ CloseAcks({p})
    /\ pusher' = [pusher EXCEPT ![p].pc = "done"]
    /\ UNCHANGED <<loop, buffer, preemptCtrl, stopCtrl, flags, late, result, stopVars,
                   turnVars, saveVars>>

\* endPush; Push returns.  A count below zero is a panic.
CountUp(n)   == n + 1                              \* mutant
CountDown(n) == IF n = 0 THEN 0 ELSE n - 1
EndPush(p) ==
    /\ PusherAt(p, {"end"})
    /\ preemptCtrl' = [preemptCtrl EXCEPT !.pushInFlight = CountDown(@)]
    /\ pusher' = [pusher EXCEPT ![p].pc =
          IF preemptCtrl.pushInFlight = 0 THEN "panic"
          ELSE IF pusher[p].kind = "delayed" /\ ack[p] = "open" THEN "delay" ELSE "done"]
    /\ UNCHANGED <<loop, buffer, stopCtrl, flags, ack, late, result, stopVars,
                   turnVars, saveVars>>

\* TakeLateItems of the state Wait returns.
TakeLateItems ==
    /\ ~flags.crashed
    /\ "take" \in Faults
    /\ flags.done
    /\ ~late.sealed
    /\ late' = [late EXCEPT !.sealed = TRUE]
    /\ UNCHANGED <<loop, buffer, preemptCtrl, stopCtrl, flags, pusher, ack, result,
                   stopVars, turnVars, saveVars>>

----------------------------------------------------------------------------
(* Stop *)

\* commitLocked: true for the one who commits.
Commits == ~stopCtrl.closed /\ stopCtrl.phase # "committed"

\* A cancel is signalled to the watcher of the active turn, if there is one; the
\* mutant signals when there is none.
SignalsNobody(kind) == kind = "cancel" /\ ~stopCtrl.hasTarget
Signals(kind)       == kind = "cancel" /\ stopCtrl.hasTarget

\* requestStop.  "cancel" stands for the options that cancel the active turn.
RequestStop(s, kind) ==
    /\ StopperAt(s, "idle")
    /\ \/ stopCtrl.closed /\ UNCHANGED stopCtrl
       \/ /\ ~stopCtrl.closed /\ kind \in {"idle", "timeout"}
          /\ stopCtrl' = [stopCtrl EXCEPT
                !.phase = IF @ = "running" THEN "idleWaiting" ELSE @]
       \/ /\ ~stopCtrl.closed /\ kind \notin {"idle", "timeout"}
          /\ stopCtrl' = [stopCtrl EXCEPT
                !.phase   = "committed",
                !.skip    = @ \/ kind = "skip",
                !.pending = @ \/ kind = "cancel",
                !.notify  = @ \/ Signals(kind)]
    /\ stopper' = [stopper EXCEPT ![s] =
          IF ~Commits THEN "done"
          ELSE IF kind \in {"idle", "timeout"} THEN "wake" ELSE "stopped"]
    /\ timers' = [timers EXCEPT !.stop = @ \/ kind = "timeout"]
    /\ UNCHANGED <<loop, buffer, preemptCtrl, flags, result, pushVars, turnVars,
                   saveVars>>

WakeIdle(s) ==
    /\ StopperAt(s, "wake")
    /\ Wakeup
    /\ stopper' = [stopper EXCEPT ![s] = "done"]
    /\ UNCHANGED <<loop, preemptCtrl, stopCtrl, flags, timers, result, pushVars,
                   turnVars, saveVars>>

\* finishStopCommit, by Stop or by a timer goroutine: stopped is stored ...
StoreStopped(s) ==
    /\ StopperAt(s, "stopped")
    /\ flags' = [flags EXCEPT !.stopped = TRUE]
    /\ stopper' = [stopper EXCEPT ![s] = "close"]
    /\ UNCHANGED <<loop, buffer, preemptCtrl, stopCtrl, timers, result, pushVars,
                   turnVars, saveVars>>

\* ... and then the buffer is closed.
FinishStop(s) ==
    /\ StopperAt(s, "close")
    /\ CloseBuffer
    /\ stopper' = [stopper EXCEPT ![s] = "done"]
    /\ UNCHANGED <<loop, preemptCtrl, stopCtrl, flags, timers, result, pushVars,
                   turnVars, saveVars>>

\* The goroutine of the idle timer, or of WithStopTimeout, sees its timer fire.
TimerFires ==
    /\ ~flags.crashed
    /\ \/ timers.idle /\ timers' = [timers EXCEPT !.idle = FALSE, !.fired = TRUE]
       \/ /\ timers.stop /\ ~flags.done
          /\ timers' = [timers EXCEPT !.stop = FALSE, !.fired = TRUE]
    /\ UNCHANGED <<loop, buffer, preemptCtrl, stopCtrl, flags, stopper, result,
                   pushVars, turnVars, saveVars>>

\* ... and calls commitStop.
Timer == "timer"
CommitStop ==
    /\ ~flags.crashed
    /\ timers.fired
    /\ timers' = [timers EXCEPT !.fired = FALSE]
    /\ stopCtrl' = IF Commits THEN [stopCtrl EXCEPT !.phase = "committed"] ELSE stopCtrl
    /\ stopper' = IF Commits THEN [stopper EXCEPT ![Timer] = "stopped"] ELSE stopper
    /\ UNCHANGED <<loop, buffer, preemptCtrl, flags, result, pushVars, turnVars,
                   saveVars>>
----------------------------------------------------------------------------
(* The goroutines of a turn *)

NoTurn == [consumed |-> <<>>, afterStop |-> FALSE, bytes |-> FALSE,
           agent |-> "off", event |-> "none", iterClosed |-> FALSE, cancel |-> "running",
           proxy |-> "off", handler |-> "off", err |-> "none",
           watchPreempt |-> "off", request |-> {}, preempted |-> FALSE,
           watchStop |-> "off", stopped |-> FALSE]

\* A cancel that was under way is over; an agent that could not be set up refuses
\* later ones, too.
Answered(k, refuses) ==
    IF turn[k].cancel = "cancelling" \/ refuses THEN "handled" ELSE turn[k].cancel

\* handleIter: the agent ends and closes the channel of its events.  It has saved
\* its state if the interrupt, or the cancel, came with one and it could be
\* encoded.  The channel may have been closed from the other end: then the
\* goroutine panics.
AgentEnds(k, ev) ==
    /\ TurnAt(k, "agent", "run")
    /\ ev \in Events \/ (ev = "cancel" /\ turn[k].cancel = "cancelling")
    /\ \E saves, refuses \in BOOLEAN :
          /\ saves => ev \in {"interrupt", "cancel"} /\ store.state # "none"
          /\ refuses => ev = "err"
          /\ turn' = [turn EXCEPT ![k] = [@ EXCEPT
                !.agent  = "over",
                !.event  = ev,
                !.bytes  = @ \/ saves,
                !.cancel = Answered(k, refuses)]]
    /\ flags' = [flags EXCEPT !.crashed = turn[k].iterClosed]
    /\ UNCHANGED <<loop, buffer, preemptCtrl, stopCtrl, pushVars, stopVars, captured,
                   result, saveVars>>

\* The goroutine that copies events also notes a CancelError and the
\* InterruptContexts of an interrupt, in fields of the loop.
CopyEvents(k) ==
    /\ TurnAt(k, "proxy", "run")
    /\ turn[k].agent = "over" \/ turn[k].iterClosed
    /\ captured' = captured \cup
          (IF turn[k].agent = "over" THEN {turn[k].event} \cap {"cancel", "contexts"} ELSE {})
    /\ turn' = [turn EXCEPT ![k].proxy = "over"]
    /\ UNCHANGED <<loop, buffer, preemptCtrl, stopCtrl, flags, pushVars, stopVars,
                   result, saveVars>>

\* OnAgentEvents returns and done is closed.
HandlerReturns(k) ==
    /\ TurnAt(k, "handler", "run")
    /\ \E err \in {"none", "err"} :
          /\ \/ turn[k].proxy = "over" /\ (err = "err" <=> turn[k].event = "err")
             \/ "early" \in Faults
          /\ turn' = [turn EXCEPT ![k] = [@ EXCEPT !.handler = "done", !.err = err]]
    /\ UNCHANGED <<loop, buffer, preemptCtrl, stopCtrl, flags, pushVars, stopVars,
                   captured, result, saveVars>>

\* The select of watchPreempt; with both channels ready either may be taken.
WatchPreempt(k) ==
    /\ TurnAt(k, "watchPreempt", "select")
    /\ \/ /\ turn[k].handler = "done"
          /\ turn' = [turn EXCEPT ![k].watchPreempt = "exited"]
          /\ UNCHANGED preemptCtrl
       \/ /\ preemptCtrl.notify
          /\ preemptCtrl' = [preemptCtrl EXCEPT !.notify = FALSE]
          /\ turn' = [turn EXCEPT ![k].watchPreempt = "receive"]
    /\ UNCHANGED <<loop, buffer, stopCtrl, flags, pushVars, stopVars, captured, result,
                   saveVars>>

ReceivePreempt(k) ==
    LET received == preemptCtrl.phase = "active" /\ preemptCtrl.pending # {}
    IN  /\ TurnAt(k, "watchPreempt", "receive")
        /\ turn' = [turn EXCEPT ![k] = [@ EXCEPT
              !.watchPreempt = IF received THEN "submit" ELSE "select",
              !.request      = IF received THEN preemptCtrl.pending ELSE {}]]
        /\ preemptCtrl' = IF received THEN [preemptCtrl EXCEPT !.pending = {}] ELSE preemptCtrl
        /\ UNCHANGED <<loop, buffer, stopCtrl, flags, pushVars, stopVars, captured,
                       result, saveVars>>

\* agentCancelFunc contributes unless the agent has answered a cancel before.  An
\* agent that ended by itself can still be cancelled, to no effect.
Contributes(k) == turn[k].cancel # "handled"
Cancelled(k)   == IF Contributes(k) THEN "cancelling" ELSE "handled"

\* watchPreempt submits the request: the cancel is given to the agent, which may
\* answer it at once, ...
SubmitPreempt(k) ==
    /\ TurnAt(k, "watchPreempt", "submit")
    /\ turn' = [turn EXCEPT ![k] = [@ EXCEPT
          !.watchPreempt = IF Contributes(k) /\ ~turn[k].preempted THEN "close" ELSE "ack",
          !.cancel       = Cancelled(k)]]
    /\ UNCHANGED <<loop, buffer, preemptCtrl, stopCtrl, flags, pushVars, stopVars,
                   captured, result, saveVars>>

\* ... preemptDone is closed, if this is the first to contribute, ...
ClosePreemptDone(k) ==
    /\ TurnAt(k, "watchPreempt", "close")
    /\ turn' = [turn EXCEPT ![k] = [@ EXCEPT !.watchPreempt = "ack", !.preempted = TRUE]]
    /\ UNCHANGED <<loop, buffer, preemptCtrl, stopCtrl, flags, pushVars, stopVars,
                   captured, result, saveVars>>

\* ... and the pushes of the request are acked.
AckPreempt(k) ==
    /\ TurnAt(k, "watchPreempt", "ack")
    /\ CloseAcks(turn[k].request)
    /\ turn' = [turn EXCEPT ![k] = [@ EXCEPT !.watchPreempt = "select", !.request = {}]]
    /\ UNCHANGED <<loop, buffer, preemptCtrl, stopCtrl, flags, pusher, late, stopVars,
                   captured, result, saveVars>>

\* watchStop looks for a request before it waits in its select.
WatchStop(k) ==
    /\ TurnAt(k, "watchStop", "select")
    /\ \/ /\ turn[k].handler = "done"
          /\ turn' = [turn EXCEPT ![k].watchStop = "exited"]
          /\ UNCHANGED stopCtrl
       \/ /\ stopCtrl.notify
          /\ stopCtrl' = [stopCtrl EXCEPT !.notify = FALSE]
          /\ turn' = [turn EXCEPT ![k].watchStop = "receive"]
    /\ UNCHANGED <<loop, buffer, preemptCtrl, flags, pushVars, stopVars, captured,
                   result, saveVars>>

ReceiveCancel(k) ==
    LET received == stopCtrl.hasTarget /\ stopCtrl.pending
    IN  /\ TurnAt(k, "watchStop", "receive")
        /\ turn' = [turn EXCEPT ![k].watchStop = IF received THEN "submit" ELSE "select"]
        /\ stopCtrl' = IF received THEN [stopCtrl EXCEPT !.pending = FALSE] ELSE stopCtrl
        /\ UNCHANGED <<loop, buffer, preemptCtrl, flags, pushVars, stopVars, captured,
                       result, saveVars>>

SubmitCancel(k) ==
    /\ TurnAt(k, "watchStop", "submit")
    /\ turn' = [turn EXCEPT ![k] = [@ EXCEPT
          !.watchStop = "select",
          !.cancel    = Cancelled(k),
          !.stopped   = @ \/ Contributes(k)]]
    /\ UNCHANGED <<loop, buffer, preemptCtrl, stopCtrl, flags, pushVars, stopVars,
                   captured, result, saveVars>>

----------------------------------------------------------------------------
(* run: from the start to a planned turn *)

Goto(pc)     == loop' = [loop EXCEPT !.pc = pc]
Leave(err)   == loop' = [loop EXCEPT !.pc = "cleanup", !.err = err, !.hand = <<>>]
Committed    == stopCtrl.phase = "committed"
CtxErr       == IF flags.ctxDone THEN "ctx" ELSE "none"

\* A split of the items of s, by their positions: both parts keep the order of s.
Positions(s) ==
    {f \in UNION {[1..n -> DOMAIN s] : n \in 0..Len(s)} :
        \A m, n \in DOMAIN f : m < n => f[m] < f[n]}
Splits(s) ==
    {parts \in [taken : Positions(s), left : Positions(s)] :
        /\ Elements(parts.taken) \cap Elements(parts.left) = {}
        /\ Elements(parts.taken) \cup Elements(parts.left) = DOMAIN s}
Pick(s, f) == [n \in DOMAIN f |-> s[f[n]]]

Run ==
    /\ ~flags.crashed
    /\ ~flags.started
    /\ flags' = [flags EXCEPT !.started = TRUE]
    /\ Goto("load")
    /\ UNCHANGED <<buffer, preemptCtrl, stopCtrl, pushVars, stopVars, turnVars, result,
                   saveVars>>

\* tryLoadCheckpoint.  The canceled items of a checkpoint without runner state
\* are not used.
LoadCheckpoint ==
    /\ At("load")
    /\ \/ /\ "load" \in Faults /\ store.state # "none"
          /\ Leave("load")
          /\ UNCHANGED <<buffer, result>>
       \/ /\ store.state \in {"none", "empty"}
          /\ Goto("top")
          /\ UNCHANGED <<buffer, result>>
       \/ /\ store.state = "runner"
          /\ TakeAll
          /\ loop' = [loop EXCEPT !.pc = "top", !.resume = "pending",
                        !.hand = store.canceled \o store.unhandled \o buffer.buf]
          /\ result' = [result EXCEPT !.accepted = store.canceled \o store.unhandled \o @]
       \/ /\ store.state = "bare"
          /\ PushFront(store.unhandled)
          /\ result' = [result EXCEPT !.accepted = store.unhandled \o @]
          /\ Goto("top")
    /\ UNCHANGED <<preemptCtrl, stopCtrl, flags, pushVars, stopVars, turnVars, saveVars>>

\* The head of the loop.
Top ==
    /\ At("top")
    /\ \/ Committed /\ Leave("none")
       \/ ~Committed /\ Goto(IF loop.resume = "pending" THEN "wait" ELSE "mode")
    /\ UNCHANGED <<buffer, preemptCtrl, stopCtrl, flags, pushVars, stopVars, turnVars,
                   result, saveVars>>

\* Is a stop waiting for the loop to be idle?  Then the idle timer is started.
ChooseMode ==
    LET idle == stopCtrl.phase = "idleWaiting"
    IN  /\ At("mode")
        /\ loop' = [loop EXCEPT !.pc = "receive", !.idle = idle]
        /\ timers' = [timers EXCEPT !.idle = idle]
        /\ buffer' = [buffer EXCEPT !.woken = @ /\ ~idle]
        /\ UNCHANGED <<preemptCtrl, stopCtrl, flags, pushVars, stopper, turnVars, result,
                       saveVars>>

Receive ==
    LET ok == buffer.buf # <<>>
    IN  /\ At("receive")
        /\ Receivable
        /\ buffer' = [buffer EXCEPT !.woken = FALSE, !.buf = IF ok THEN Tail(@) ELSE @]
        /\ loop' = [loop EXCEPT
              !.pc   = CASE loop.idle -> "disarm" [] ~loop.idle /\ ok -> "got" [] OTHER -> "empty",
              !.hand = IF ok THEN <<Head(buffer.buf)>> ELSE <<>>]
        /\ UNCHANGED <<preemptCtrl, stopCtrl, flags, pushVars, stopVars, turnVars, result,
                       saveVars>>

\* Nothing was received outside the idle branch.
NothingReceived ==
    /\ At("empty")
    /\ IF stopCtrl.phase = "idleWaiting" THEN Goto("top") ELSE Leave(CtxErr)
    /\ UNCHANGED <<buffer, preemptCtrl, stopCtrl, flags, pushVars, stopVars, turnVars,
                   result, saveVars>>

DisarmIdleTimer ==
    /\ At("disarm")
    /\ timers' = [timers EXCEPT !.idle = FALSE]
    /\ Goto("idleCheck")
    /\ UNCHANGED <<buffer, preemptCtrl, stopCtrl, flags, pushVars, stopper, turnVars,
                   result, saveVars>>

\* The end of the idle branch.  A loop that was stopped meanwhile returns, and
\* what it received is not put back.
IdleCheck ==
    LET ok == loop.hand # <<>>
    IN  /\ At("idleCheck")
        /\ \/ /\ ~ok /\ ~buffer.closed
              /\ IF flags.ctxDone THEN Leave("ctx") ELSE Goto("top")
           \/ /\ ok \/ buffer.closed
              /\ CASE flags.stopped -> Leave("none")
                   [] ~flags.stopped /\ ok -> Goto("got")
                   [] OTHER -> Leave(CtxErr)
        /\ UNCHANGED <<buffer, preemptCtrl, stopCtrl, flags, pushVars, stopVars, turnVars,
                       result, saveVars>>

\* An item was received: the context and the stop are looked at once more.
Received ==
    /\ At("got")
    /\ \/ /\ flags.ctxDone
          /\ PushFront(loop.hand)
          /\ Leave("ctx")
       \/ /\ Committed
          /\ PushFront(loop.hand)
          /\ Leave("none")
       \/ /\ ~flags.ctxDone /\ ~Committed
          /\ Goto("wait")
          /\ UNCHANGED buffer
    /\ UNCHANGED <<preemptCtrl, stopCtrl, flags, pushVars, stopVars, turnVars, result,
                   saveVars>>

WaitForPushes ==
    /\ At("wait")
    /\ preemptCtrl.pushInFlight = 0
    /\ Goto("take")
    /\ UNCHANGED <<buffer, preemptCtrl, stopCtrl, flags, pushVars, stopVars, turnVars,
                   result, saveVars>>

TakeItems ==
    /\ At("take")
    /\ TakeAll
    /\ loop' = [loop EXCEPT !.pc = "plan", !.hand = @ \o buffer.buf,
                  !.resume = IF @ = "pending" THEN "now" ELSE @]
    /\ UNCHANGED <<preemptCtrl, stopCtrl, flags, pushVars, stopVars, turnVars, result,
                   saveVars>>

\* beginPlanningTurn, which panics in the wrong phase or with a stale request.
BeginPlanningTurn ==
    LET k == preemptCtrl.turnID + 1
    IN  /\ At("plan")
        /\ k \in Turns
        /\ Goto(IF preemptCtrl.phase = "idle" /\ preemptCtrl.pending = {}
                THEN "planning" ELSE "panic")
        /\ preemptCtrl' = [preemptCtrl EXCEPT !.turnID = k, !.phase = "planning"]
        /\ turn' = [turn EXCEPT ![k].afterStop = Committed]
        /\ UNCHANGED <<buffer, stopCtrl, flags, pushVars, stopVars, captured, result,
                       saveVars>>

\* A failed callback, or a stop committed while one ran: abortPlanningTurn, and
\* the items go back to the front of the buffer.
AbortPlanningTurn ==
    /\ At("planning")
    /\ \/ "gen" \in Faults /\ Leave("gen")
       \/ Committed /\ Leave("none")
    /\ preemptCtrl' = [preemptCtrl EXCEPT !.phase = "idle", !.pending = {}]
    /\ CloseAcks(preemptCtrl.pending)
    /\ PushFront(loop.hand)
    /\ UNCHANGED <<stopCtrl, flags, pusher, late, stopVars, turnVars, result, saveVars>>

\* Mutant: the check after the callbacks is left out.
PlanTurnUnchecked ==
    /\ At("planning")
    /\ \E parts \in Splits(loop.hand) :
          /\ parts.taken # <<>> \/ loop.resume = "now"
          /\ PushFront(Pick(loop.hand, parts.left))
          /\ turn' = [turn EXCEPT
                ![preemptCtrl.turnID].consumed = Pick(loop.hand, parts.taken)]
    /\ loop' = [loop EXCEPT !.pc = "begin", !.hand = <<>>]
    /\ UNCHANGED <<preemptCtrl, stopCtrl, flags, pushVars, stopVars, captured, result,
                   saveVars>>

\* GenInput or GenResume splits the items, PrepareAgent returns an agent, the
\* last check finds no stop, and the remaining items go back.
PlanTurn ==
    /\ At("planning")
    /\ ~Committed
    /\ \E parts \in Splits(loop.hand) :
          /\ parts.taken # <<>> \/ loop.resume = "now"
          /\ PushFront(Pick(loop.hand, parts.left))
          /\ turn' = [turn EXCEPT
                ![preemptCtrl.turnID].consumed = Pick(loop.hand, parts.taken)]
    /\ loop' = [loop EXCEPT !.pc = "begin", !.hand = <<>>]
    /\ UNCHANGED <<preemptCtrl, stopCtrl, flags, pushVars, stopVars, captured, result,
                   saveVars>>

----------------------------------------------------------------------------
(* run: a turn *)

\* A preempt requested while the turn was planned is signalled when it starts;
\* the mutant leaves that to the pusher.
SignalsIfActive == preemptCtrl.phase = "active" /\ preemptCtrl.pending # {}
SignalsAtStart  == preemptCtrl.pending # {}

\* runAgentAndHandleEvents resets what the last turn captured and begins the
\* active turn.  (setupBridgeStore cannot fail here: only a loaded checkpoint
\* with runner state is resumed.)
BeginActiveTurn ==
    /\ At("begin")
    /\ captured' = {}
    /\ runnerBytes' = FALSE
    /\ Goto(IF preemptCtrl.phase = "planning" THEN "beginStop" ELSE "panic")
    /\ preemptCtrl' = [preemptCtrl EXCEPT
          !.phase = "active", !.notify = @ \/ SignalsAtStart]
    /\ UNCHANGED <<buffer, stopCtrl, flags, pushVars, stopVars, turn, result, store>>

\* stopController.beginActiveTurn, and the goroutines of the turn are started,
\* unless the agent cannot be resumed.
StartTurn ==
    LET k == preemptCtrl.turnID
    IN  /\ At("beginStop")
        /\ stopCtrl' = IF stopCtrl.closed THEN stopCtrl
                       ELSE [stopCtrl EXCEPT !.hasTarget = TRUE,
                                             !.notify = @ \/ stopCtrl.pending]
        /\ \/ /\ loop' = [loop EXCEPT !.pc = "active"]
              /\ turn' = [turn EXCEPT ![k] = [@ EXCEPT
                    !.agent = "run", !.proxy = "run", !.handler = "run",
                    !.watchPreempt = "select", !.watchStop = "receive",
                    !.bytes = loop.resume = "now"]]
           \/ /\ "resume" \in Faults /\ loop.resume = "now"
              /\ loop' = [loop EXCEPT !.pc = "endStop", !.err = "resume"]
              /\ UNCHANGED turn
        /\ UNCHANGED <<buffer, preemptCtrl, flags, pushVars, stopVars, captured, result,
                       saveVars>>

\* done is closed.  A preempted turn ends without an error; otherwise, or if
\* stoppedDone was selected first, finalizeCheckpoint and the captured error: that
\* of a preempt, too, if its agent was faster than the closing of preemptDone.
FinishTurn ==
    LET k == turn[preemptCtrl.turnID]
    IN  /\ At("active")
        /\ k.handler = "done"
        /\ \/ /\ k.preempted
              /\ Goto("endStop")
              /\ UNCHANGED runnerBytes
           \/ /\ ~k.preempted \/ k.stopped
              /\ runnerBytes' = (runnerBytes \/ (store.state # "none" /\ k.bytes))
              /\ loop' = [loop EXCEPT !.pc = "endStop",
                    !.err = CASE k.err # "none"        -> k.err
                              [] k.err = "none" /\ "cancel" \in captured -> "cancel"
                              [] OTHER                 -> "none"]
        /\ UNCHANGED <<buffer, preemptCtrl, stopCtrl, flags, pushVars, stopVars, turnVars,
                       result, store>>

\* preemptDone is selected: srcIter.Close, which does nothing once its reader has
\* seen the end, and panics if the agent's side has closed the channel already.
CloseIterator ==
    LET k == preemptCtrl.turnID
    IN  /\ At("active")
        /\ turn[k].preempted
        /\ Goto("preempting")
        /\ flags' = [flags EXCEPT !.crashed = turn[k].agent = "over" /\ turn[k].proxy = "run"]
        /\ turn' = [turn EXCEPT ![k].iterClosed = turn[k].agent = "run"]
        /\ UNCHANGED <<buffer, preemptCtrl, stopCtrl, pushVars, stopVars, captured,
                       result,
                       saveVars>>

FinishPreempted ==
    LET k == turn[preemptCtrl.turnID]
    IN  /\ At("preempting")
        /\ k.proxy = "over" /\ k.handler = "done"
        /\ Goto("endStop")
        /\ UNCHANGED <<buffer, preemptCtrl, stopCtrl, flags, pushVars, stopVars, turnVars,
                       result, saveVars>>

\* The deferred stopController.endActiveTurn ...
EndStopTurn ==
    /\ At("endStop")
    /\ stopCtrl' = [stopCtrl EXCEPT !.hasTarget = FALSE, !.pending = FALSE]
    /\ Goto("endPreempt")
    /\ UNCHANGED <<buffer, preemptCtrl, flags, pushVars, stopVars, turnVars, result,
                   saveVars>>

\* Mutant: the requests stay pending.
EndActiveTurnPending ==
    /\ At("endPreempt")
    /\ Goto(IF preemptCtrl.phase = "active" THEN "after" ELSE "panic")
    /\ preemptCtrl' = [preemptCtrl EXCEPT !.phase = "idle"]
    /\ UNCHANGED <<buffer, stopCtrl, flags, pushVars, stopVars, turnVars, result, saveVars>>

\* ... and preemptController.endActiveTurn, with the acks of what was pending.
EndActiveTurn ==
    /\ At("endPreempt")
    /\ Goto(IF preemptCtrl.phase = "active" THEN "after" ELSE "panic")
    /\ preemptCtrl' = [preemptCtrl EXCEPT !.phase = "idle", !.pending = {}]
    /\ CloseAcks(preemptCtrl.pending)
    /\ UNCHANGED <<buffer, stopCtrl, flags, pusher, late, stopVars, turnVars, result,
                   saveVars>>

\* The items of a turn that was interrupted or cancelled; the mutant forgets the
\* cancelled.
InterruptedOnly(consumed) == IF "contexts" \in captured THEN consumed ELSE <<>>
Interrupted(consumed)     == IF captured # {} THEN consumed ELSE <<>>

\* Back in run: an error or an interrupt ends the loop.
AfterTurn ==
    LET consumed  == turn[preemptCtrl.turnID].consumed
        interrupt == "contexts" \in captured
    IN  /\ At("after")
        /\ \/ /\ loop.err # "none" \/ interrupt
              /\ loop' = [loop EXCEPT !.pc = "cleanup", !.resume = "none",
                            !.err = IF @ = "none" THEN "interrupt" ELSE @]
              /\ result' = [result EXCEPT !.interrupted = Interrupted(consumed)]
           \/ /\ loop.err = "none" /\ ~interrupt
              /\ loop' = [loop EXCEPT !.pc = "top", !.resume = "none"]
              /\ UNCHANGED result
        /\ UNCHANGED <<buffer, preemptCtrl, stopCtrl, flags, pushVars, stopVars, turnVars,
                       saveVars>>

----------------------------------------------------------------------------
(* cleanup *)

StopPushes ==
    /\ At("cleanup")
    /\ flags' = [flags EXCEPT !.stopped = TRUE]
    /\ Goto("takeAll")
    /\ UNCHANGED <<buffer, preemptCtrl, stopCtrl, pushVars, stopVars, turnVars, result,
                   saveVars>>

TakeUnhandled ==
    /\ At("takeAll")
    /\ TakeAll
    /\ result' = [result EXCEPT !.unhandled = buffer.buf]
    /\ Goto("save")
    /\ UNCHANGED <<preemptCtrl, stopCtrl, flags, pushVars, stopVars, turnVars, saveVars>>

ShouldSaveCheckpoint ==
    /\ store.state # "none"
    /\ ~stopCtrl.skip
    /\ runnerBytes \/ result.interrupted # <<>>
    /\ \/ Committed /\ (loop.err \in {"none", "cancel"} \/ "cancel" \in captured)
       \/ loop.err = "interrupt" \/ "contexts" \in captured

\* The checkpoint is saved, or else the one that was looked for is deleted (the
\* Store is a CheckPointDeleter).  The error of a failed Set is only reported.
SaveCheckpoint ==
    /\ At("save")
    /\ store' \in
          IF ShouldSaveCheckpoint
          THEN {[state     |-> IF runnerBytes THEN "runner" ELSE "bare",
                 canceled  |-> result.interrupted,
                 unhandled |-> result.unhandled]}
               \cup (IF "save" \in Faults THEN {store} ELSE {})
          ELSE {IF store.state = "none" THEN store
                ELSE [state |-> "empty", canceled |-> <<>>, unhandled |-> <<>>]}
    /\ Goto("closeStop")
    /\ UNCHANGED <<buffer, preemptCtrl, stopCtrl, flags, pushVars, stopVars, turnVars,
                   result, runnerBytes>>

CloseStopCtrl ==
    /\ At("closeStop")
    /\ stopCtrl' = [stopCtrl EXCEPT !.closed = TRUE, !.hasTarget = FALSE,
                                    !.pending = FALSE, !.notify = FALSE]
    /\ Goto("closePreempt")
    /\ UNCHANGED <<buffer, preemptCtrl, flags, pushVars, stopVars, turnVars, result,
                   saveVars>>

ClosePreemptCtrl ==
    /\ At("closePreempt")
    /\ preemptCtrl' = [preemptCtrl EXCEPT !.closed = TRUE, !.phase = "idle",
                                          !.pending = {}, !.notify = FALSE]
    /\ CloseAcks(preemptCtrl.pending)
    /\ Goto("closeBuffer")
    /\ UNCHANGED <<buffer, stopCtrl, flags, pusher, late, stopVars, turnVars, result,
                   saveVars>>

Finish ==
    /\ At("closeBuffer")
    /\ CloseBuffer
    /\ flags' = [flags EXCEPT !.done = TRUE]
    /\ Goto("done")
    /\ UNCHANGED <<preemptCtrl, stopCtrl, pushVars, stopVars, turnVars, result, saveVars>>

----------------------------------------------------------------------------
(* The context *)

CancelCtx ==
    /\ ~flags.crashed
    /\ "ctx" \in Faults
    /\ ~flags.ctxDone
    /\ flags' = [flags EXCEPT !.ctxDone = TRUE]
    /\ UNCHANGED <<loop, buffer, preemptCtrl, stopCtrl, pushVars, stopVars, turnVars,
                   result, saveVars>>

\* The goroutine run starts once the checkpoint is loaded.
WatchCtx ==
    /\ ~flags.crashed
    /\ flags.ctxDone /\ ~flags.done /\ ~buffer.closed
    /\ loop.pc \notin {"new", "load"} /\ loop.err # "load"
    /\ CloseBuffer
    /\ UNCHANGED <<loop, preemptCtrl, stopCtrl, flags, pushVars, stopVars, turnVars,
                   result, saveVars>>

----------------------------------------------------------------------------
Init ==
    /\ loop = [pc |-> "new", hand |-> <<>>, resume |-> "none", idle |-> FALSE, err |-> "none"]
    /\ buffer = [buf |-> <<>>, closed |-> FALSE, woken |-> FALSE]
    /\ preemptCtrl = [phase |-> "idle", turnID |-> 0, pushInFlight |-> 0, pending |-> {},
                      notify |-> FALSE, closed |-> FALSE]
    /\ stopCtrl = [phase |-> "running", hasTarget |-> FALSE, pending |-> FALSE,
                   notify |-> FALSE, skip |-> FALSE, closed |-> FALSE]
    /\ flags = [stopped |-> FALSE, started |-> FALSE, done |-> FALSE, ctxDone |-> FALSE,
                crashed |-> FALSE]
    /\ pusher = [p \in Items |-> [pc |-> "idle", kind |-> "plain", target |-> FALSE,
                                  turnID |-> 0, out |-> "none"]]
    /\ ack = [p \in Items |-> "none"]
    /\ stopper = [s \in Stoppers \cup {Timer} |-> "idle"]
    /\ timers = [idle |-> FALSE, stop |-> FALSE, fired |-> FALSE]
    /\ turn = [k \in Turns |-> NoTurn]
    /\ captured = {}
    /\ runnerBytes = FALSE
    /\ late = [items |-> {}, sealed |-> FALSE]
    /\ result = [accepted |-> <<>>, unhandled |-> <<>>, interrupted |-> <<>>]
    /\ \E st \in Stores :
          store = [state     |-> st,
                   canceled  |-> IF st \in {"runner", "bare"} THEN Canceled ELSE <<>>,
                   unhandled |-> IF st \in {"runner", "bare"} THEN Unhandled ELSE <<>>]

PushStep(p) ==
    \/ CheckStopped(p) \/ BeginPush(p) \/ TrySend(p) \/ RequestPreempt(p)
    \/ DelayCancelled(p) \/ EndPush(p)

StopStep(s) == WakeIdle(s) \/ StoreStopped(s) \/ FinishStop(s)

WatchStep(k) ==
    \/ WatchPreempt(k) \/ ReceivePreempt(k)
    \/ SubmitPreempt(k) \/ ClosePreemptDone(k) \/ AckPreempt(k)
    \/ WatchStop(k) \/ ReceiveCancel(k) \/ SubmitCancel(k)

PlanStep ==
    \/ LoadCheckpoint \/ Top \/ ChooseMode \/ Receive \/ NothingReceived
    \/ DisarmIdleTimer \/ IdleCheck \/ Received \/ WaitForPushes \/ TakeItems
    \/ BeginPlanningTurn \/ AbortPlanningTurn \/ PlanTurn

TurnStep ==
    \/ BeginActiveTurn \/ StartTurn \/ FinishTurn \/ CloseIterator
    \/ FinishPreempted \/ EndStopTurn \/ EndActiveTurn \/ AfterTurn

CleanupStep ==
    \/ StopPushes \/ TakeUnhandled \/ SaveCheckpoint \/ CloseStopCtrl
    \/ ClosePreemptCtrl \/ Finish

LoopStep == PlanStep \/ TurnStep \/ CleanupStep

Next ==
    \/ Run \/ LoopStep
    \/ \E p \in Items : PushStep(p) \/ \E kind \in PushKinds : Push(p, kind)
    \/ \E s \in Stoppers : \E kind \in StopKinds : RequestStop(s, kind)
    \/ \E s \in Stoppers \cup {Timer} : StopStep(s)
    \/ TimerFires \/ CommitStop
    \/ \E k \in Turns :
          \/ WatchStep(k) \/ CopyEvents(k) \/ HandlerReturns(k)
          \/ \E ev \in Events \cup {"cancel"} : AgentEnds(k, ev)
    \/ TakeLateItems \/ CancelCtx \/ WatchCtx

Spec == Init /\ [][Next]_vars

(***************************************************************************)
(* Every goroutine that can go on does, callbacks return, timers fire and  *)
(* an agent that is asked to stop at a safe point gets there.  Nothing is  *)
(* assumed of the callers of Push, Stop and Run, nor of the context.       *)
(***************************************************************************)
Fairness ==
    /\ WF_vars(LoopStep)
    /\ \A p \in Items : WF_vars(PushStep(p))
    /\ \A s \in Stoppers \cup {Timer} : WF_vars(StopStep(s))
    /\ WF_vars(TimerFires) /\ WF_vars(CommitStop)
    /\ WF_vars(WatchCtx)
    /\ \A k \in Turns :
          /\ WF_vars(\/ WatchPreempt(k) \/ ReceivePreempt(k) \/ SubmitPreempt(k)
                     \/ ClosePreemptDone(k) \/ AckPreempt(k))
          /\ WF_vars(WatchStop(k) \/ ReceiveCancel(k) \/ SubmitCancel(k))
          /\ WF_vars(CopyEvents(k))
          /\ WF_vars(HandlerReturns(k))
          /\ WF_vars(AgentEnds(k, "cancel"))

\* Agents end by themselves, too.
AgentsEnd == \A k \in Turns : WF_vars(\E ev \in Events \cup {"cancel"} : AgentEnds(k, ev))

CancelSpec == Spec /\ Fairness
FairSpec   == Spec /\ Fairness /\ AgentsEnd

----------------------------------------------------------------------------
(* Properties *)

LoopPcs ==
    {"new", "load", "top", "mode", "receive", "empty", "disarm", "idleCheck", "got",
     "wait", "take", "plan", "planning", "begin", "beginStop", "active", "preempting",
     "endStop", "endPreempt", "after", "cleanup", "takeAll", "save", "closeStop",
     "closePreempt", "closeBuffer", "done", "panic"}

LoopErrs == {"none", "load", "ctx", "gen", "resume", "err", "cancel", "interrupt"}

\* hand, buf and consumed are constrained by SeqsType.
LoopType ==
    loop \in [pc : LoopPcs, hand : {loop.hand}, resume : {"none", "pending", "now"},
              idle : BOOLEAN, err : LoopErrs]

BufferType == buffer \in [buf : {buffer.buf}, closed : BOOLEAN, woken : BOOLEAN]

CtrlType ==
    /\ preemptCtrl \in [phase : {"idle", "planning", "active"}, turnID : 0..MaxTurns,
                        pushInFlight : 0..Cardinality(Items), pending : SUBSET Items,
                        notify : BOOLEAN, closed : BOOLEAN]
    /\ stopCtrl \in [phase : {"running", "idleWaiting", "committed"},
                     hasTarget : BOOLEAN, pending : BOOLEAN, notify : BOOLEAN,
                     skip : BOOLEAN, closed : BOOLEAN]
    /\ flags \in [stopped : BOOLEAN, started : BOOLEAN, done : BOOLEAN,
                  ctxDone : BOOLEAN, crashed : BOOLEAN]
    /\ timers \in [idle : BOOLEAN, stop : BOOLEAN, fired : BOOLEAN]

CallersType ==
    /\ pusher \in [Items ->
          [pc : {"idle", "start", "check", "begin", "send", "request", "delay", "end",
                 "done", "panic"},
           kind : AllPushKinds, target : BOOLEAN, turnID : 0..MaxTurns,
           out : {"none", "accepted", "late", "panicked"}]]
    /\ ack \in [Items -> {"none", "open", "closed", "twice"}]
    /\ stopper \in [Stoppers \cup {Timer} -> {"idle", "wake", "stopped", "close", "done"}]
    /\ late \in [items : SUBSET Items, sealed : BOOLEAN]

WatcherPcs == {"off", "select", "receive", "submit", "close", "ack", "exited"}

TurnType ==
    /\ turn = [k \in Turns |-> turn[k]]
    /\ \A k \in Turns :
          turn[k] \in
             [consumed : {turn[k].consumed}, afterStop : BOOLEAN, bytes : BOOLEAN,
              agent : {"off", "run", "over"}, event : AllEvents \cup {"none", "cancel"},
              iterClosed : BOOLEAN, cancel : {"running", "cancelling", "handled"},
              proxy : {"off", "run", "over"}, handler : {"off", "run", "done"},
              err : {"none", "err"}, watchPreempt : WatcherPcs, request : SUBSET Items,
              preempted : BOOLEAN, watchStop : WatcherPcs, stopped : BOOLEAN]

SeqsType ==
    /\ loop.hand \in Seq(AllItems) /\ buffer.buf \in Seq(AllItems)
    /\ result \in [accepted : Seq(AllItems), unhandled : Seq(AllItems),
                   interrupted : Seq(AllItems)]
    /\ store \in [state : AllStores, canceled : Seq(AllItems), unhandled : Seq(AllItems)]
    /\ \A k \in Turns : turn[k].consumed \in Seq(AllItems)

StateType ==
    /\ LoopType /\ BufferType /\ CtrlType /\ CallersType /\ TurnType
    /\ captured \subseteq {"cancel", "contexts"}
    /\ runnerBytes \in BOOLEAN
    /\ store.state \in AllStores

\* Every variable stays in its type, beginPush never counts more pushes than
\* there are, and the loop handles items only.
TypeOK == StateType /\ SeqsType

\* pushInFlight counts the pushes between beginPush and endPush, on every path
\* out of Push: otherwise waitForPushes lets a turn be planned without an item
\* whose push has seen it, or waits for ever.
PushesCounted ==
    preemptCtrl.pushInFlight =
        Cardinality({p \in Items : /\ InSection(pusher[p].kind)
                                   /\ pusher[p].pc \in {"check", "send", "request", "end"}})

\* None of the panics of preemptController and of the ack channels is reached:
\* the phases alternate, no turn is planned with a stale request, beginPush and
\* endPush match, and an ack channel is closed once although five places close
\* them.
NoPanic ==
    /\ loop.pc # "panic"
    /\ \A p \in Items : pusher[p].pc # "panic" /\ ack[p] # "twice"

\* A request that is pending names the turn that is planned or active, however
\* late its delay ends and whatever turns went by.
PendingTargetsCurrentTurn ==
    \A p \in preemptCtrl.pending :
        /\ preemptCtrl.phase # "idle"
        /\ pusher[p].target /\ pusher[p].turnID = preemptCtrl.turnID
        /\ ack[p] = "open"

\* No request waits for a signal that is gone: while a turn is active and a
\* preempt or a cancel is pending, its channel holds a token or a watcher is
\* about to look, although the channel holds one token and the watchers of
\* earlier turns read it, too.
NotifyNotLost ==
    /\ preemptCtrl.phase = "active" /\ preemptCtrl.pending # {} =>
          preemptCtrl.notify \/ \E k \in Turns : turn[k].watchPreempt = "receive"
    /\ stopCtrl.hasTarget /\ stopCtrl.pending =>
          stopCtrl.notify \/ \E k \in Turns : turn[k].watchStop = "receive"

\* A turn whose planning began after the stop was committed is never run.
StopPreventsTurns ==
    preemptCtrl.phase = "active" => ~turn[preemptCtrl.turnID].afterStop

PlanningPcs == {"planning", "begin"}
ActivePcs   == {"beginStop", "active", "preempting", "endStop", "endPreempt"}

\* preemptController is in the phase run has put it into.
Stages ==
    /\ loop.pc # "panic"
    /\ ~flags.started => loop.pc = "new"
    /\ preemptCtrl.phase = CASE loop.pc \in PlanningPcs -> "planning"
                             [] loop.pc \in ActivePcs   -> "active"
                             [] OTHER                   -> "idle"
    /\ preemptCtrl.phase # "idle" => preemptCtrl.turnID \in Turns

\* Which pushes come where: a plain push never enters the counted section.
PushPath(p) ==
    LET kind == pusher[p].kind
        pc   == pusher[p].pc
    IN  /\ pc # "panic"
        /\ pc = "start" => kind \in {"plain", "preempt", "delayed"}
        /\ pc = "check" => kind = "strategyPreempt"
        /\ pc \in {"begin", "end"} => InSection(kind)
        /\ pc = "request" => kind \in {"preempt", "strategyPreempt"}

\* The push still has its ack channel to itself.
Unrequested(p) ==
    \/ pusher[p].pc \in {"idle", "start", "check", "begin", "send", "request", "delay"}
    \/ pusher[p].pc = "end" /\ pusher[p].kind = "delayed"

\* An open ack channel has one holder: its push, the controller or the watcher
\* of one turn.
AckHolder(p) ==
    /\ ack[p] # "twice"
    /\ pusher[p].pc \in {"request", "delay"} => ack[p] = "open"
    /\ Unrequested(p) => p \notin preemptCtrl.pending
    /\ \A k \in Turns : p \in turn[k].request =>
          /\ ack[p] = "open"
          /\ p \notin preemptCtrl.pending
          /\ ~Unrequested(p)
          /\ \A j \in Turns : p \in turn[j].request => j = k

\* The watcher of a turn that has not started is not there yet.
NotStarted(k) ==
    \/ k > preemptCtrl.turnID
    \/ k = preemptCtrl.turnID /\ loop.pc \in {"planning", "begin", "beginStop"}
Ahead == \A k \in Turns : NotStarted(k) => turn[k].watchPreempt = "off"

\* A turn that was planned after the stop gets no further than the planning.
AfterStopPlanned ==
    preemptCtrl.phase # "idle" /\ turn[preemptCtrl.turnID].afterStop =>
        loop.pc = "planning" /\ Committed

\* The inductive invariant behind the panics, the signals and the stop: the
\* controllers agree with where run and the pushes are.
IInv ==
    /\ StateType /\ Stages
    /\ \A p \in Items : PushPath(p) /\ AckHolder(p)
    /\ PushesCounted /\ PendingTargetsCurrentTurn
    /\ Ahead /\ NotifyNotLost /\ AfterStopPlanned

\* The items and where they are, for the proofs.
Queue == loop.hand \o buffer.buf

CleanupPcs ==
    {"cleanup", "takeAll", "save", "closeStop", "closePreempt", "closeBuffer", "done"}

\* The items a Push has not offered to the buffer yet.
Unsent(p) == pusher[p].pc \in {"idle", "start", "check", "begin", "send"}

\* What run holds, and when: items only on the way from the buffer, or a
\* checkpoint, to a planned turn, an error or an interrupt once a turn has
\* ended, and what is left over at the end.
RunHolds ==
    /\ loop.hand # <<>> =>
          \/ loop.pc \in {"disarm", "idleCheck", "got", "wait", "take", "plan", "planning"}
          \/ loop.pc = "top" /\ loop.resume = "pending"
    /\ loop.resume = "pending" =>
          /\ loop.pc \in {"top", "wait", "take"} \cup CleanupPcs
          /\ preemptCtrl.turnID = 0
    /\ loop.resume # "none" => "runner" \in Stores
    /\ loop.err # "none" =>
          loop.pc \in {"endStop", "endPreempt", "after"} \cup CleanupPcs
    /\ result.interrupted # <<>> => loop.pc \in CleanupPcs
    /\ result.unhandled # <<>> => loop.pc \in CleanupPcs \ {"cleanup", "takeAll"}
    /\ loop.pc = "after" => preemptCtrl.turnID \in Turns
    /\ preemptCtrl.turnID = 0 => ~runnerBytes
    /\ \A p \in Items : Unsent(p) => p \notin Elements(result.accepted)

\* What run finds when it starts.
NotLoaded ==
    loop.pc \in {"new", "load"} =>
        /\ preemptCtrl.turnID = 0
        /\ store.state \in Stores
        /\ store.state \in {"runner", "bare"} =>
               store.canceled = Canceled /\ store.unhandled = Unhandled
        /\ Elements(result.accepted) \subseteq Items

\* A turn that has not come so far is untouched.
NotBegun(t) ==
    t.agent = "off" /\ t.event = "none" /\ t.proxy = "off" /\ ~t.iterClosed
TurnsAhead ==
    \A k \in Turns :
        /\ NotStarted(k) => NotBegun(turn[k])
        /\ k > preemptCtrl.turnID \/ (k = preemptCtrl.turnID /\ loop.pc = "planning") =>
               turn[k].consumed = <<>>

\* s has items of t, in the order of t.
Follows(s, t) ==
    /\ Elements(s) \subseteq Elements(t)
    /\ \A m, n \in DOMAIN s, i, j \in DOMAIN t :
          m < n /\ s[m] = t[i] /\ s[n] = t[j] => i < j

\* Every item was accepted once, and is in one place at most: the queue of run
\* and the buffer, the late items of cleanup, or the items of one turn.
ItemsApart ==
    /\ Distinct(result.accepted)
    /\ Follows(Queue, result.accepted) /\ Follows(result.unhandled, result.accepted)
    /\ Elements(Queue) \cap Elements(result.unhandled) = {}
    /\ \A k \in Turns :
          /\ Follows(turn[k].consumed, result.accepted)
          /\ Elements(turn[k].consumed) \cap Elements(Queue) = {}
          /\ Elements(turn[k].consumed) \cap Elements(result.unhandled) = {}
          /\ \A j \in Turns \ {k} :
                Elements(turn[j].consumed) \cap Elements(turn[k].consumed) = {}

\* Without the stops that wait for an idle loop, ...
NoIdleStops == StopKinds \cap {"idle", "timeout"} = {}
NeverIdle ==
    /\ stopCtrl.phase # "idleWaiting"
    /\ ~loop.idle
    /\ loop.pc \notin {"disarm", "idleCheck"}

\* ... an item is lost only with the resume of a checkpoint that a stop prevents.
Placed(i) ==
    \/ i \in Elements(Queue) \cup Elements(result.unhandled)
    \/ \E k \in Turns : i \in Elements(turn[k].consumed)
ResumeForgotten ==
    /\ "runner" \in Stores
    /\ loop.pc \in CleanupPcs
    /\ preemptCtrl.turnID = 0
    /\ ~runnerBytes /\ result.interrupted = <<>>
ItemsPlaced == ResumeForgotten \/ \A i \in Elements(result.accepted) : Placed(i)

(***************************************************************************)
(* How a turn ends if the handler reads all events.  The events of earlier *)
(* turns have been copied.  The turn at hand was preempted, and leaves no  *)
(* checkpoint, or what it captured tells how its agent ended; AfterTurn    *)
(* then keeps the items of a cancelled or interrupted one.                 *)
(***************************************************************************)
Notable(k) == {turn[k].event} \cap {"cancel", "contexts"}

AgentAndEvents ==
    \A k \in Turns :
        /\ turn[k].agent # "over" => turn[k].event = "none"
        /\ turn[k].handler = "done" => turn[k].proxy = "over"
        /\ turn[k].proxy = "run" =>
               k = preemptCtrl.turnID /\ loop.pc \in {"active", "preempting"}
        /\ turn[k].iterClosed /\ k = preemptCtrl.turnID => loop.pc # "active"
        /\ turn[k].proxy = "over" /\ ~turn[k].iterClosed /\ k = preemptCtrl.turnID
           /\ loop.pc \in ActivePcs \cup {"after"} =>
               turn[k].agent = "over" /\ Notable(k) \subseteq captured

TurnInCourse ==
    LET k == preemptCtrl.turnID
    IN  /\ loop.pc \in ActivePcs \cup {"after"} => k \in Turns /\ captured \subseteq Notable(k)
        /\ loop.pc \in {"beginStop", "active", "preempting"} => ~runnerBytes
        /\ loop.pc \in {"endStop", "endPreempt", "after"} =>
              \/ ~runnerBytes /\ loop.err = "none"
              \/ /\ turn[k].agent # "run" /\ Notable(k) \subseteq captured
                 /\ "cancel" \in captured => loop.err # "none"

TurnSettled ==
    LET k == preemptCtrl.turnID
    IN  k \in Turns /\ loop.pc \notin ActivePcs \cup {"after"} =>
          \/ turn[k].agent # "run" /\ Notable(k) = {}
          \/ ~runnerBytes /\ result.interrupted = <<>>
          \/ turn[k].agent # "run" /\ result.interrupted = turn[k].consumed

EventsRead == AgentAndEvents /\ TurnInCourse /\ TurnSettled

\* What SaveCheckpoint has written, if the Store works.
Saved ==
    loop.pc = "closeStop" /\ store.state \in {"runner", "bare"} =>
        store.canceled = result.interrupted /\ store.unhandled = result.unhandled

\* The interrupted items are those of the last turn, so that no checkpoint names
\* an item twice.
StoreDistinct ==
    /\ result.interrupted # <<>> =>
          /\ preemptCtrl.turnID \in Turns
          /\ result.interrupted = turn[preemptCtrl.turnID].consumed
    /\ Distinct(store.canceled \o store.unhandled)

\* The inductive invariant, with IInv, behind what becomes of the items: their
\* order and their places, whatever pushes, preempts, stops and failures do.
ItemsInv ==
    /\ SeqsType /\ RunHolds /\ NotLoaded /\ TurnsAhead
    /\ ItemsApart /\ StoreDistinct
    /\ NoIdleStops => NeverIdle /\ ItemsPlaced
    /\ "early" \notin Faults => EventsRead
    /\ "save" \notin Faults => Saved

Occurs(s, i) == Cardinality({n \in DOMAIN s : s[n] = i})

Copies(i) ==
    Occurs(loop.hand, i) + Occurs(buffer.buf, i) + Occurs(result.unhandled, i)
    + Cardinality({k \in Turns : i \in Elements(turn[k].consumed)})

\* Every item the loop took charge of, from a Push that returned true or from
\* a checkpoint, is in exactly one place: the buffer, the hands of run, the
\* items a turn consumed, or UnhandledItems.
ItemsConserved == \A i \in Elements(result.accepted) : Copies(i) = 1

Position(i) == CHOOSE n \in DOMAIN result.accepted : result.accepted[n] = i
InOrder(s)  == \A m, n \in DOMAIN s : m < n => Position(s[m]) < Position(s[n])

\* Items keep the order in which they were accepted, through PushFront of an
\* aborted turn, of the remaining items and of a loaded checkpoint.
OrderKept == InOrder(loop.hand \o buffer.buf) /\ InOrder(result.unhandled)

\* A checkpoint saved by cleanup names every item that is still to be done: what
\* the loop accepted is in it, was consumed by an earlier turn or by a last turn
\* that was not interrupted, or came too late for it and is in the buffer.
CheckpointComplete ==
    loop.pc = "closeStop" /\ store.state \in {"runner", "bare"} /\ ShouldSaveCheckpoint
      => \A i \in Elements(result.accepted) :
            \/ i \in Elements(store.unhandled) \cup Elements(store.canceled)
            \/ i \in Elements(buffer.buf)
            \/ \E k \in Turns :
                  /\ i \in Elements(turn[k].consumed)
                  /\ k = preemptCtrl.turnID => turn[k].event \notin {"cancel", "contexts"}

\* Every ack channel Push returns is closed in the end, whatever becomes of the
\* turn, the delay, the stop and the watchers, or the process is gone.
AcksComplete ==
    \A p \in Items : ack[p] = "open" ~> (ack[p] = "closed" \/ flags.crashed)

\* A stop of a loop that runs ends it: at once, after the turn, when the loop has
\* been idle for long enough or when the stop times out.
StopEnds ==
    (flags.started /\ stopCtrl.phase # "running") ~> (flags.done \/ flags.crashed)

============================================================================
