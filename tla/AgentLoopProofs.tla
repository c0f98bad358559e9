--------------------------- MODULE AgentLoopProofs ---------------------------
(***************************************************************************)
(* The agent loop for every number of pushes, stops and turns: none of the *)
(* panics of preemptController and of the ack channels is reached, pushes  *)
(* are counted, a pending preempt names the current turn, no signal to a   *)
(* watcher is lost, and no turn planned after a stop runs.                 *)
(*                                                                         *)
(* The steps are taken in four groups, by who takes them: the callers of   *)
(* Stop, the timers and the context; the callers of Push; the goroutines   *)
(* of a turn; run itself.                                                  *)
(***************************************************************************)
EXTENDS AgentLoop, FiniteSetTheorems, TLAPS

LEMMA TurnNumbers == MaxTurns \in Nat \ {0} /\ Turns \subseteq Nat \ {0}
  <1>1. IsFiniteSet(AllItems)
    BY LoopAssumption, FS_Union DEF AllItems
  <1>2. Cardinality(AllItems) \in Nat
    BY <1>1, FS_CardinalityType
  <1> QED
    BY <1>2 DEF MaxTurns, Turns

StopperSteps ==
    \/ \E s \in Stoppers : \E kind \in StopKinds : RequestStop(s, kind)
    \/ \E s \in Stoppers \cup {Timer} : StopStep(s)
    \/ TimerFires \/ CommitStop \/ TakeLateItems \/ CancelCtx \/ WatchCtx

PusherSteps == \E p \in Items : PushStep(p) \/ \E kind \in PushKinds : Push(p, kind)

TurnSteps ==
    \E k \in Turns :
        \/ WatchStep(k) \/ CopyEvents(k) \/ HandlerReturns(k)
        \/ \E ev \in Events \cup {"cancel"} : AgentEnds(k, ev)

RunSteps == Run \/ LoopStep

LEMMA NextByActor == Next <=> StopperSteps \/ PusherSteps \/ TurnSteps \/ RunSteps
  BY DEF Next, StopperSteps, PusherSteps, TurnSteps, RunSteps

\* The types of the variables, by who changes them.
StopType ==
    /\ stopCtrl \in [phase : {"running", "idleWaiting", "committed"},
                     hasTarget : BOOLEAN, pending : BOOLEAN, notify : BOOLEAN,
                     skip : BOOLEAN, closed : BOOLEAN]
    /\ timers \in [idle : BOOLEAN, stop : BOOLEAN, fired : BOOLEAN]
    /\ stopper \in [Stoppers \cup {Timer} -> {"idle", "wake", "stopped", "close", "done"}]

FlagsType ==
    /\ flags \in [stopped : BOOLEAN, started : BOOLEAN, done : BOOLEAN,
                  ctxDone : BOOLEAN, crashed : BOOLEAN]
    /\ late \in [items : SUBSET Items, sealed : BOOLEAN]

-----------------------------------------------------------------------------
(* The callers of Stop, the timers and the context *)

Untouched == UNCHANGED <<loop, preemptCtrl, pusher, ack, turn, captured, runnerBytes, store>>

StopKept ==
    /\ Committed => Committed'
    /\ stopCtrl'.hasTarget = stopCtrl.hasTarget
    /\ stopCtrl.notify => stopCtrl'.notify
    /\ stopCtrl'.pending /\ stopCtrl'.hasTarget => stopCtrl.pending \/ stopCtrl'.notify

LEMMA SameStop == ASSUME UNCHANGED stopCtrl PROVE StopKept
  BY DEF StopKept, Committed

LEMMA RequestStopEffect ==
  ASSUME StopType, NEW s \in Stoppers, NEW kind, RequestStop(s, kind)
  PROVE  StopKept /\ StopType'
  <1> USE DEF StopType, Committed, StopKept
  <1>1. stopper' \in [Stoppers \cup {Timer} -> {"idle", "wake", "stopped", "close", "done"}]
    BY DEF RequestStop
  <1>2. timers' \in [idle : BOOLEAN, stop : BOOLEAN, fired : BOOLEAN]
    <2>1. (timers.stop \/ kind = "timeout") \in BOOLEAN
      OBVIOUS
    <2> QED
      BY <2>1 DEF RequestStop
  <1>3. CASE UNCHANGED stopCtrl
    BY <1>1, <1>2, <1>3, SameStop
  <1>4. CASE stopCtrl' = [stopCtrl EXCEPT !.phase = IF @ = "running" THEN "idleWaiting" ELSE @]
    BY <1>1, <1>2, <1>4
  <1>5. CASE stopCtrl' = [stopCtrl EXCEPT
                !.phase   = "committed",
                !.skip    = @ \/ kind = "skip",
                !.pending = @ \/ kind = "cancel",
                !.notify  = @ \/ Signals(kind)]
    <2> DEFINE skip == stopCtrl.skip \/ kind = "skip"
               pending == stopCtrl.pending \/ kind = "cancel"
               notify == stopCtrl.notify \/ Signals(kind)
    <2>1. skip \in BOOLEAN /\ pending \in BOOLEAN /\ notify \in BOOLEAN
      BY DEF Signals
    <2>2. /\ stopCtrl.notify => notify
          /\ pending /\ stopCtrl.hasTarget => stopCtrl.pending \/ notify
      BY DEF Signals
    <2>3. stopCtrl' = [stopCtrl EXCEPT !.phase = "committed", !.skip = skip,
                                       !.pending = pending, !.notify = notify]
      BY <1>5
    <2> HIDE DEF skip, pending, notify
    <2>4. /\ stopCtrl'.phase = "committed" /\ stopCtrl'.hasTarget = stopCtrl.hasTarget
          /\ stopCtrl'.pending = pending /\ stopCtrl'.notify = notify
      BY <2>3
    <2>5. StopType'
      BY <1>1, <1>2, <2>1, <2>3
    <2>6. StopKept
      BY <2>2, <2>4
    <2> QED
      BY <2>5, <2>6
  <1> QED
    BY <1>3, <1>4, <1>5 DEF RequestStop

\* They leave the loop, the pushes and the turns alone: a stop, once committed,
\* stays committed, and a cancel for the active turn is signalled.
LEMMA StoppersEffect ==
  ASSUME StateType, StopperSteps
  PROVE  Untouched /\ StateType' /\ flags'.started = flags.started /\ StopKept
  <1> DEFINE Effect ==
         /\ Untouched /\ BufferType' /\ StopType' /\ FlagsType'
         /\ flags'.started = flags.started /\ StopKept
  <1>0. StopType /\ FlagsType /\ BufferType
    BY DEF StateType, CtrlType, CallersType, StopType, FlagsType
  <1> USE <1>0 DEF Untouched, StopperAt, CloseBuffer, Wakeup,
                   pushVars, turnVars, saveVars, stopVars
  <1>a. UNCHANGED buffer => BufferType'
    BY DEF BufferType
  <1>b. UNCHANGED <<flags, late>> => FlagsType' /\ flags'.started = flags.started
    BY DEF FlagsType
  <1>c. UNCHANGED <<stopCtrl, timers, stopper>> => StopType'
    BY DEF StopType
  <1>1. ASSUME NEW s \in Stoppers, NEW kind \in StopKinds, RequestStop(s, kind)
        PROVE  Effect
    <2>1. Untouched /\ UNCHANGED <<buffer, flags, late>>
      BY <1>1 DEF RequestStop
    <2> QED
      BY <1>1, <1>a, <1>b, <2>1, RequestStopEffect
  <1>2. ASSUME NEW s \in Stoppers \cup {Timer}, StopStep(s)
        PROVE  Effect
    <2>1. CASE WakeIdle(s)
      <3>1. Untouched /\ UNCHANGED <<stopCtrl, flags, late>>
        BY <2>1 DEF WakeIdle
      <3>2. BufferType'
        BY <2>1 DEF WakeIdle, BufferType
      <3>3. StopType'
        BY <2>1 DEF WakeIdle, StopType
      <3> QED
        BY <1>b, <3>1, <3>2, <3>3, SameStop
    <2>2. CASE StoreStopped(s)
      <3>1. Untouched /\ UNCHANGED <<stopCtrl, buffer>>
        BY <2>2 DEF StoreStopped
      <3>2. FlagsType' /\ flags'.started = flags.started
        BY <2>2 DEF StoreStopped, FlagsType
      <3>3. StopType'
        BY <2>2 DEF StoreStopped, StopType
      <3> QED
        BY <1>a, <3>1, <3>2, <3>3, SameStop
    <2>3. CASE FinishStop(s)
      <3>1. Untouched /\ UNCHANGED <<stopCtrl, flags, late>>
        BY <2>3 DEF FinishStop
      <3>2. BufferType'
        BY <2>3 DEF FinishStop, BufferType
      <3>3. StopType'
        BY <2>3 DEF FinishStop, StopType
      <3> QED
        BY <1>b, <3>1, <3>2, <3>3, SameStop
    <2> QED
      BY <1>2, <2>1, <2>2, <2>3 DEF StopStep
  <1>3. ASSUME TimerFires PROVE Effect
    <2>1. Untouched /\ UNCHANGED <<stopCtrl, buffer, flags, late>>
      BY <1>3 DEF TimerFires
    <2>2. StopType'
      BY <1>3 DEF TimerFires, StopType
    <2> QED
      BY <1>a, <1>b, <2>1, <2>2, SameStop
  <1>4. ASSUME CommitStop PROVE Effect
    <2>1. Untouched /\ UNCHANGED <<buffer, flags, late>>
      BY <1>4 DEF CommitStop
    <2>2. StopType'
      BY <1>4 DEF CommitStop, StopType
    <2>3. StopKept
      BY <1>4 DEF CommitStop, StopType, StopKept, Committed
    <2> QED
      BY <1>a, <1>b, <2>1, <2>2, <2>3
  <1>5. ASSUME TakeLateItems PROVE Effect
    <2>1. Untouched /\ UNCHANGED <<stopCtrl, timers, stopper, buffer>>
      BY <1>5 DEF TakeLateItems
    <2>2. FlagsType' /\ flags'.started = flags.started
      BY <1>5 DEF TakeLateItems, FlagsType
    <2> QED
      BY <1>a, <1>c, <2>1, <2>2, SameStop
  <1>6. ASSUME CancelCtx PROVE Effect
    <2>1. Untouched /\ UNCHANGED <<stopCtrl, timers, stopper, buffer>>
      BY <1>6 DEF CancelCtx
    <2>2. FlagsType' /\ flags'.started = flags.started
      BY <1>6 DEF CancelCtx, FlagsType
    <2> QED
      BY <1>a, <1>c, <2>1, <2>2, SameStop
  <1>7. ASSUME WatchCtx PROVE Effect
    <2>1. Untouched /\ UNCHANGED <<stopCtrl, timers, stopper, flags, late>>
      BY <1>7 DEF WatchCtx
    <2>2. BufferType'
      BY <1>7 DEF WatchCtx, BufferType
    <2> QED
      BY <1>b, <1>c, <2>1, <2>2, SameStop
  <1>8. Effect
    BY <1>1, <1>2, <1>3, <1>4, <1>5, <1>6, <1>7 DEF StopperSteps
  <1>9. Effect => StateType'
    BY DEF StateType, CtrlType, CallersType, LoopType, TurnType, StopType, FlagsType
  <1> QED
    BY <1>8, <1>9

LEMMA StoppersKeep ==
  ASSUME IInv, StopperSteps
  PROVE  IInv'
  <1>1. Untouched /\ StateType' /\ flags'.started = flags.started /\ StopKept
    BY StoppersEffect DEF IInv
  <1>2. UNCHANGED <<loop, preemptCtrl, pusher, ack, turn>>
    BY <1>1 DEF Untouched
  <1>3. Stages'
    BY <1>1, <1>2 DEF IInv, Stages
  <1>4. PushesCounted' /\ PendingTargetsCurrentTurn'
    BY <1>2 DEF IInv, PushesCounted, PendingTargetsCurrentTurn
  <1>5. \A p \in Items : PushPath(p)' /\ AckHolder(p)'
    BY <1>2 DEF IInv, PushPath, AckHolder, Unrequested
  <1>6. Ahead'
    BY <1>2 DEF IInv, Ahead, NotStarted
  <1>7. NotifyNotLost'
    BY <1>1, <1>2 DEF IInv, NotifyNotLost, StopKept
  <1>8. AfterStopPlanned'
    BY <1>1, <1>2 DEF IInv, AfterStopPlanned, StopKept
  <1> QED
    BY <1>1, <1>3, <1>4, <1>5, <1>6, <1>7, <1>8 DEF IInv

-----------------------------------------------------------------------------
(* The callers of Push *)

PusherPcs == {"idle", "start", "check", "begin", "send", "request", "delay", "end", "done", "panic"}

PusherRec ==
    [pc : PusherPcs, kind : AllPushKinds, target : BOOLEAN, turnID : 0..MaxTurns,
     out : {"none", "accepted", "late", "panicked"}]

AckType == ack \in [Items -> {"none", "open", "closed", "twice"}]

\* Only the push p moves, from pc to next.
Moves(p, pc, next) ==
    /\ pusher' \in [Items -> PusherRec]
    /\ \A q \in Items \ {p} : pusher'[q] = pusher[q]
    /\ pusher[p].pc = pc /\ pusher'[p].pc = next

SameOptions(p) ==
    /\ pusher'[p].kind = pusher[p].kind
    /\ pusher'[p].target = pusher[p].target /\ pusher'[p].turnID = pusher[p].turnID

PushFrame == UNCHANGED <<loop, stopCtrl, flags, turn, stopper, timers, captured, runnerBytes, store>>

LEMMA PusherTypes ==
  ASSUME StateType
  PROVE  pusher \in [Items -> PusherRec] /\ AckType /\ FlagsType /\ BufferType
  BY DEF StateType, CtrlType, CallersType, PusherRec, PusherPcs, AckType, FlagsType

LEMMA PushEffect ==
  ASSUME StateType, NEW p \in Items, NEW kind \in PushKinds, Push(p, kind)
  PROVE  /\ UNCHANGED <<buffer, preemptCtrl, ack, late>> /\ PushFrame
         /\ \/ kind \in {"strategy", "strategyPreempt"} /\ Moves(p, "idle", "begin")
            \/ kind \in {"plain", "preempt", "delayed"} /\ Moves(p, "idle", "start")
         /\ pusher'[p].kind = kind
  <1> USE PusherTypes DEF Push, PusherAt, PusherRec, PusherPcs
  <1>1. UNCHANGED <<buffer, preemptCtrl, ack, late>> /\ PushFrame
    BY DEF PushFrame, stopVars, turnVars, saveVars
  <1>2. kind \in AllPushKinds
    BY LoopAssumption
  <1>3. pusher'[p].kind = kind
    OBVIOUS
  <1>4. CASE kind \in {"strategy", "strategyPreempt"}
    <2>1. Moves(p, "idle", "begin")
      BY <1>2, <1>4 DEF Moves
    <2> QED
      BY <1>1, <1>3, <1>4, <2>1
  <1>5. CASE kind \notin {"strategy", "strategyPreempt"}
    <2>1. Moves(p, "idle", "start")
      BY <1>2, <1>5 DEF Moves
    <2>2. kind \in {"plain", "preempt", "delayed"}
      BY <1>2, <1>5 DEF AllPushKinds
    <2> QED
      BY <1>1, <1>3, <2>1, <2>2
  <1> QED
    BY <1>4, <1>5

\* A refused push goes to its endPush if it has begun one.
LEMMA AppendLateEffect ==
  ASSUME StateType, NEW p \in Items, AppendLate(p)
  PROVE  /\ Moves(p, pusher[p].pc, AfterLate(p)) /\ SameOptions(p)
         /\ late' \in [items : SUBSET Items, sealed : BOOLEAN]
  <1> USE PusherTypes DEF AppendLate, PusherRec, PusherPcs
  <1>1. AfterLate(p) \in {"end", "done"}
    BY DEF AfterLate
  <1>2. Moves(p, pusher[p].pc, AfterLate(p))
    BY <1>1 DEF Moves
  <1>3. SameOptions(p)
    BY DEF SameOptions
  <1>4. late' \in [items : SUBSET Items, sealed : BOOLEAN]
    BY DEF FlagsType
  <1> QED
    BY <1>2, <1>3, <1>4

LEMMA CheckStoppedEffect ==
  ASSUME StateType, NEW p \in Items, CheckStopped(p)
  PROVE  /\ UNCHANGED <<buffer, preemptCtrl, ack>> /\ PushFrame
         /\ SameOptions(p)
         /\ late' \in [items : SUBSET Items, sealed : BOOLEAN]
         /\ pusher[p].pc \in {"start", "check"}
         /\ \/ Moves(p, pusher[p].pc, AfterLate(p))
            \/ pusher[p].kind \in {"preempt", "delayed"} /\ Moves(p, pusher[p].pc, "begin")
            \/ pusher[p].kind \notin {"preempt", "delayed"} /\ Moves(p, pusher[p].pc, "send")
  <1> USE PusherTypes DEF CheckStopped, PusherAt, PusherRec, PusherPcs
  <1>1. UNCHANGED <<buffer, preemptCtrl, ack>> /\ PushFrame /\ pusher[p].pc \in {"start", "check"}
    BY DEF PushFrame, stopVars, turnVars, saveVars
  <1>2. CASE AppendLate(p)
    BY <1>1, <1>2, AppendLateEffect
  <1>3. CASE ~AppendLate(p)
    <2>1. SameOptions(p)
      BY <1>3 DEF SameOptions
    <2>2. late' \in [items : SUBSET Items, sealed : BOOLEAN]
      BY <1>3 DEF FlagsType
    <2>3. CASE pusher[p].kind \in {"preempt", "delayed"}
      <3>1. Moves(p, pusher[p].pc, "begin")
        BY <1>3, <2>3 DEF Moves
      <3> QED
        BY <1>1, <2>1, <2>2, <2>3, <3>1
    <2>4. CASE pusher[p].kind \notin {"preempt", "delayed"}
      <3>1. Moves(p, pusher[p].pc, "send")
        BY <1>3, <2>4 DEF Moves
      <3> QED
        BY <1>1, <2>1, <2>2, <2>4, <3>1
    <2> QED
      BY <2>3, <2>4
  <1> QED
    BY <1>2, <1>3

PreemptRec ==
    [phase : {"idle", "planning", "active"}, turnID : 0..MaxTurns, pushInFlight : Nat,
     pending : SUBSET Items, notify : BOOLEAN, closed : BOOLEAN]

LEMMA CardinalityOfItems == Cardinality(Items) \in Nat
  BY LoopAssumption, FS_CardinalityType

LEMMA PreemptType == ASSUME StateType PROVE preemptCtrl \in PreemptRec
  BY CardinalityOfItems DEF StateType, CtrlType, PreemptRec

\* The controller stays in its turn and phase.
SameTurn ==
    /\ preemptCtrl' \in PreemptRec
    /\ preemptCtrl'.phase = preemptCtrl.phase /\ preemptCtrl'.turnID = preemptCtrl.turnID

SameRequests ==
    preemptCtrl'.pending = preemptCtrl.pending /\ preemptCtrl'.notify = preemptCtrl.notify

LEMMA BeginPushEffect ==
  ASSUME StateType, NEW p \in Items, BeginPush(p)
  PROVE  /\ UNCHANGED <<buffer, ack, late>> /\ PushFrame
         /\ SameTurn /\ SameRequests
         /\ preemptCtrl'.pushInFlight = preemptCtrl.pushInFlight + 1
         /\ pusher'[p].kind = pusher[p].kind
         /\ \/ pusher[p].kind = "strategyPreempt" /\ Moves(p, "begin", "check")
            \/ pusher[p].kind # "strategyPreempt" /\ Moves(p, "begin", "send")
  <1> USE PusherTypes, PreemptType DEF BeginPush, PusherAt, PusherRec, PusherPcs
  <1>1. UNCHANGED <<buffer, ack, late>> /\ PushFrame
    BY DEF PushFrame, stopVars, turnVars, saveVars
  <1>2. SameTurn /\ SameRequests /\ preemptCtrl'.pushInFlight = preemptCtrl.pushInFlight + 1
    BY DEF SameTurn, SameRequests, PreemptRec
  <1>3. pusher'[p].kind = pusher[p].kind
    OBVIOUS
  <1>4. preemptCtrl.turnID \in 0..MaxTurns
    BY DEF PreemptRec
  <1> DEFINE target == preemptCtrl.phase \in {"planning", "active"}
  <1>5. target \in BOOLEAN
    OBVIOUS
  <1>6. pusher' = [pusher EXCEPT ![p] = [@ EXCEPT
          !.pc     = IF pusher[p].kind = "strategyPreempt" THEN "check" ELSE "send",
          !.target = target, !.turnID = preemptCtrl.turnID]]
    OBVIOUS
  <1>7. pusher[p].pc = "begin"
    OBVIOUS
  <1> HIDE DEF target, BeginPush
  <1>8. CASE pusher[p].kind = "strategyPreempt"
    <2>1. Moves(p, "begin", "check")
      BY <1>4, <1>5, <1>6, <1>7, <1>8 DEF Moves
    <2> QED
      BY <1>1, <1>2, <1>3, <1>8, <2>1
  <1>9. CASE pusher[p].kind # "strategyPreempt"
    <2>1. Moves(p, "begin", "send")
      BY <1>4, <1>5, <1>6, <1>7, <1>9 DEF Moves
    <2> QED
      BY <1>1, <1>2, <1>3, <1>9, <2>1
  <1> QED
    BY <1>8, <1>9

LEMMA TrySendEffect ==
  ASSUME StateType, NEW p \in Items, TrySend(p)
  PROVE  /\ UNCHANGED preemptCtrl /\ PushFrame
         /\ BufferType' /\ AckType'
         /\ late' \in [items : SUBSET Items, sealed : BOOLEAN]
         /\ SameOptions(p)
         /\ \A q \in Items \ {p} : ack'[q] = ack[q]
         /\ pusher[p].pc = "send"
         /\ \/ UNCHANGED ack /\ Moves(p, "send", AfterLate(p))
            \/ /\ ack'[p] # "twice"
               /\ \/ pusher[p].kind = "plain" /\ Moves(p, "send", "done")
                  \/ /\ pusher[p].kind \in {"preempt", "strategyPreempt"} /\ ack'[p] = "open"
                     /\ Moves(p, "send", "request")
                  \/ pusher[p].kind # "plain" /\ Moves(p, "send", "end")
  <1> USE PusherTypes DEF TrySend, PusherAt, PusherRec, PusherPcs
  <1>1. UNCHANGED preemptCtrl /\ PushFrame /\ pusher[p].pc = "send"
    BY DEF PushFrame, stopVars, turnVars, saveVars
  <1>2. CASE AppendLate(p) /\ UNCHANGED <<buffer, ack, result>>
    <2>1. BufferType' /\ AckType' /\ \A q \in Items \ {p} : ack'[q] = ack[q]
      BY <1>2 DEF BufferType, AckType
    <2> QED
      BY <1>1, <1>2, <2>1, AppendLateEffect
  <1>3. CASE ~(AppendLate(p) /\ UNCHANGED <<buffer, ack, result>>)
    <2>1. /\ buffer' = [buffer EXCEPT !.buf = Append(@, p)]
          /\ pusher' = [pusher EXCEPT ![p] = [@ EXCEPT
                    !.pc  = CASE pusher[p].kind = "plain"                    -> "done"
                              [] pusher[p].kind \in {"preempt", "strategyPreempt"}
                                 /\ flags.started                            -> "request"
                              [] OTHER                                       -> "end",
                    !.out = "accepted"]]
          /\ ack' = [ack EXCEPT ![p] =
                    IF ~Preempts(pusher[p].kind) THEN "none"
                    ELSE IF flags.started THEN "open" ELSE "closed"]
          /\ UNCHANGED late
      BY <1>3
    <2> HIDE DEF TrySend
    <2>2. BufferType'
      BY <2>1 DEF BufferType
    <2>3. /\ AckType' /\ ack'[p] # "twice"
          /\ \A q \in Items \ {p} : ack'[q] = ack[q]
      BY <2>1 DEF AckType
    <2>4. SameOptions(p)
      BY <2>1 DEF SameOptions
    <2>5. late' \in [items : SUBSET Items, sealed : BOOLEAN]
      BY <2>1 DEF FlagsType
    <2>6. CASE pusher[p].kind = "plain"
      <3>1. Moves(p, "send", "done")
        BY <1>1, <2>1, <2>6 DEF Moves
      <3> QED
        BY <1>1, <2>2, <2>3, <2>4, <2>5, <2>6, <3>1
    <2>7. CASE pusher[p].kind \in {"preempt", "strategyPreempt"} /\ flags.started
      <3>1. Moves(p, "send", "request")
        BY <1>1, <2>1, <2>7 DEF Moves
      <3>2. ack'[p] = "open"
        BY <2>1, <2>7 DEF Preempts, AckType
      <3> QED
        BY <1>1, <2>2, <2>3, <2>4, <2>5, <2>7, <3>1, <3>2
    <2>8. CASE /\ pusher[p].kind # "plain"
               /\ ~(pusher[p].kind \in {"preempt", "strategyPreempt"} /\ flags.started)
      <3>1. Moves(p, "send", "end")
        BY <1>1, <2>1, <2>8 DEF Moves
      <3> QED
        BY <1>1, <2>2, <2>3, <2>4, <2>5, <2>8, <3>1
    <2> QED
      BY <2>6, <2>7, <2>8
  <1> QED
    BY <1>2, <1>3

\* Closing the acks of S: none is closed twice if all of them are open.
LEMMA CloseAcksEffect ==
  ASSUME AckType, NEW S \in SUBSET Items, CloseAcks(S)
  PROVE  /\ AckType'
         /\ \A q \in Items \ S : ack'[q] = ack[q]
         /\ \A q \in S : ack[q] = "open" => ack'[q] = "closed"
  <1>1. \A q \in Items : /\ q \notin S => ack'[q] = ack[q]
                         /\ q \in S /\ ack[q] = "open" => ack'[q] = "closed"
                         /\ q \in S /\ ack[q] # "open" => ack'[q] = "twice"
    BY DEF CloseAcks
  <1>2. AckType'
    BY <1>1 DEF CloseAcks, AckType
  <1> QED
    BY <1>1, <1>2

LEMMA RequestPreemptEffect ==
  ASSUME StateType, NEW p \in Items, RequestPreempt(p)
  PROVE  /\ UNCHANGED <<buffer, late>> /\ PushFrame
         /\ SameTurn /\ AckType'
         /\ preemptCtrl'.pushInFlight = preemptCtrl.pushInFlight
         /\ SameOptions(p)
         /\ \/ Moves(p, "delay", "done") \/ Moves(p, "request", "end")
         /\ \/ CloseAcks({p}) /\ UNCHANGED preemptCtrl
            \/ /\ UNCHANGED ack
               /\ preemptCtrl.phase # "idle" /\ pusher[p].target
               /\ preemptCtrl.turnID = pusher[p].turnID
               /\ preemptCtrl'.pending = preemptCtrl.pending \cup {p}
               /\ preemptCtrl.notify \/ preemptCtrl.phase = "active" => preemptCtrl'.notify
  <1> USE PusherTypes, PreemptType DEF RequestPreempt, PusherAt, PusherRec, PusherPcs
  <1>1. UNCHANGED <<buffer, late>> /\ PushFrame
    BY DEF PushFrame, stopVars, turnVars, saveVars
  <1>2. SameOptions(p)
    BY DEF SameOptions
  <1>3. \/ Moves(p, "delay", "done") \/ Moves(p, "request", "end")
    <2>1. CASE pusher[p].pc = "delay"
      BY <2>1 DEF Moves
    <2>2. CASE pusher[p].pc = "request"
      BY <2>2 DEF Moves
    <2> QED
      BY <2>1, <2>2
  <1>4. CASE CloseAcks({p}) /\ UNCHANGED preemptCtrl
    <2>1. AckType'
      BY <1>4, CloseAcksEffect
    <2>2. SameTurn /\ preemptCtrl'.pushInFlight = preemptCtrl.pushInFlight
      BY <1>4 DEF SameTurn
    <2> QED
      BY <1>1, <1>2, <1>3, <1>4, <2>1, <2>2
  <1>5. CASE ~(CloseAcks({p}) /\ UNCHANGED preemptCtrl)
    <2> DEFINE notify == preemptCtrl.notify \/ preemptCtrl.phase = "active"
    <2>1. /\ preemptCtrl' = [preemptCtrl EXCEPT !.pending = @ \cup {p}, !.notify = notify]
          /\ UNCHANGED ack /\ ~Obsolete(p)
      BY <1>5
    <2>2. notify \in BOOLEAN /\ (preemptCtrl.notify \/ preemptCtrl.phase = "active" => notify)
      BY DEF PreemptRec
    <2>3. /\ preemptCtrl.phase # "idle" /\ pusher[p].target
          /\ preemptCtrl.turnID = pusher[p].turnID
      BY <2>1 DEF Obsolete
    <2> HIDE DEF notify, RequestPreempt
    <2>4. SameTurn /\ preemptCtrl'.pushInFlight = preemptCtrl.pushInFlight
      BY <2>1, <2>2 DEF SameTurn, PreemptRec
    <2>5. preemptCtrl'.pending = preemptCtrl.pending \cup {p} /\ preemptCtrl'.notify = notify
      BY <2>1 DEF PreemptRec
    <2>6. AckType'
      BY <2>1 DEF AckType
    <2> QED
      BY <1>1, <1>2, <1>3, <2>1, <2>2, <2>3, <2>4, <2>5, <2>6
  <1> QED
    BY <1>4, <1>5

LEMMA DelayCancelledEffect ==
  ASSUME StateType, NEW p \in Items, DelayCancelled(p)
  PROVE  /\ UNCHANGED <<buffer, late, preemptCtrl>> /\ PushFrame
         /\ AckType' /\ SameOptions(p) /\ Moves(p, "delay", "done") /\ CloseAcks({p})
  <1> USE PusherTypes DEF DelayCancelled, PusherAt, PusherRec, PusherPcs
  <1>1. UNCHANGED <<buffer, late, preemptCtrl>> /\ PushFrame /\ CloseAcks({p})
    BY DEF PushFrame, stopVars, turnVars, saveVars
  <1>2. AckType'
    BY <1>1, CloseAcksEffect
  <1>3. Moves(p, "delay", "done") /\ SameOptions(p)
    BY DEF Moves, SameOptions
  <1> QED
    BY <1>1, <1>2, <1>3

LEMMA EndPushEffect ==
  ASSUME StateType, NEW p \in Items, EndPush(p), preemptCtrl.pushInFlight # 0
  PROVE  /\ UNCHANGED <<buffer, late, ack>> /\ PushFrame
         /\ SameTurn /\ SameRequests
         /\ preemptCtrl'.pushInFlight = preemptCtrl.pushInFlight - 1
         /\ SameOptions(p)
         /\ \/ pusher[p].kind = "delayed" /\ ack[p] = "open" /\ Moves(p, "end", "delay")
            \/ Moves(p, "end", "done")
  <1> USE PusherTypes, PreemptType DEF EndPush, PusherAt, PusherRec, PusherPcs
  <1>1. UNCHANGED <<buffer, late, ack>> /\ PushFrame
    BY DEF PushFrame, stopVars, turnVars, saveVars
  <1>2. SameTurn /\ SameRequests /\ preemptCtrl'.pushInFlight = preemptCtrl.pushInFlight - 1
    BY DEF SameTurn, SameRequests, PreemptRec, CountDown
  <1>3. SameOptions(p)
    BY DEF SameOptions
  <1>4. CASE pusher[p].kind = "delayed" /\ ack[p] = "open"
    <2>1. Moves(p, "end", "delay")
      BY <1>4 DEF Moves
    <2> QED
      BY <1>1, <1>2, <1>3, <1>4, <2>1
  <1>5. CASE ~(pusher[p].kind = "delayed" /\ ack[p] = "open")
    <2>1. Moves(p, "end", "done")
      BY <1>5 DEF Moves
    <2> QED
      BY <1>1, <1>2, <1>3, <2>1
  <1> QED
    BY <1>4, <1>5

Counted(p) ==
    /\ InSection(pusher[p].kind)
    /\ pusher[p].pc \in {"check", "send", "request", "end"}
Section == {p \in Items : Counted(p)}

\* The counted section changes by the push that moves, if at all.
LEMMA SectionChanges ==
  ASSUME NEW p \in Items, \A q \in Items \ {p} : pusher'[q] = pusher[q]
  PROVE  /\ IsFiniteSet(Section) /\ Cardinality(Section) \in Nat
         /\ (Counted(p)' <=> Counted(p)) => Section' = Section
         /\ Counted(p)' /\ ~Counted(p) => Cardinality(Section') = Cardinality(Section) + 1
         /\ Counted(p) /\ ~Counted(p)' => /\ Cardinality(Section) # 0
                                         /\ Cardinality(Section') = Cardinality(Section) - 1
  <1>1. IsFiniteSet(Section) /\ Cardinality(Section) \in Nat
    BY LoopAssumption, FS_Subset, FS_CardinalityType DEF Section
  <1>2. \A q \in Items \ {p} : Counted(q)' <=> Counted(q)
    BY DEF Counted
  <1>3. (Counted(p)' <=> Counted(p)) => Section' = Section
    BY <1>2 DEF Section
  <1>4. ASSUME Counted(p)', ~Counted(p)
        PROVE  Cardinality(Section') = Cardinality(Section) + 1
    <2>1. Section' = Section \cup {p} /\ p \notin Section
      BY <1>2, <1>4 DEF Section
    <2> QED
      BY <1>1, <2>1, FS_AddElement
  <1>5. ASSUME Counted(p), ~Counted(p)'
        PROVE  /\ Cardinality(Section) # 0
               /\ Cardinality(Section') = Cardinality(Section) - 1
    <2>1. Section' = Section \ {p} /\ p \in Section
      BY <1>2, <1>5 DEF Section
    <2>2. Cardinality(Section) # 0
      BY <1>1, <2>1, FS_EmptySet
    <2> QED
      BY <1>1, <2>1, <2>2, FS_RemoveElement
  <1> QED
    BY <1>1, <1>3, <1>4, <1>5

LEMMA CountedIsSection == PushesCounted <=> preemptCtrl.pushInFlight = Cardinality(Section)
  BY DEF PushesCounted, Section, Counted

LEMMA CountBounded ==
  Cardinality(Section) \in 0..Cardinality(Items)
  BY LoopAssumption, FS_Subset, FS_CardinalityType DEF Section

\* What a step of the push p has to show for itself.
PushKept(p) ==
    /\ PushFrame /\ SameTurn /\ BufferType' /\ AckType'
    /\ late' \in [items : SUBSET Items, sealed : BOOLEAN]
    /\ pusher' \in [Items -> PusherRec]
    /\ \A q \in Items \ {p} :
          /\ pusher'[q] = pusher[q] /\ ack'[q] = ack[q]
          /\ q \in preemptCtrl'.pending <=> q \in preemptCtrl.pending
    /\ PushPath(p)' /\ AckHolder(p)'
    /\ p \in preemptCtrl'.pending =>
          /\ preemptCtrl.phase # "idle" /\ ack'[p] = "open"
          /\ pusher'[p].target /\ pusher'[p].turnID = preemptCtrl.turnID
    /\ \/ preemptCtrl'.pending = preemptCtrl.pending /\ preemptCtrl'.notify = preemptCtrl.notify
       \/ preemptCtrl.phase = "active" => preemptCtrl'.notify
    /\ PushesCounted'

LEMMA PushKeeps ==
  ASSUME IInv, NEW p \in Items, PushKept(p)
  PROVE  IInv'
  <1>1. Stages'
    BY DEF IInv, Stages, PushKept, PushFrame, SameTurn
  <1>2. \A q \in Items : PushPath(q)' /\ AckHolder(q)'
    <2>1. ASSUME NEW q \in Items \ {p} PROVE PushPath(q)' /\ AckHolder(q)'
      <3>1. PushPath(q) /\ AckHolder(q) /\ UNCHANGED turn
        BY DEF IInv, PushKept, PushFrame
      <3>2. /\ pusher'[q] = pusher[q] /\ ack'[q] = ack[q]
            /\ q \in preemptCtrl'.pending <=> q \in preemptCtrl.pending
        BY DEF PushKept
      <3>3. PushPath(q)'
        BY <3>1, <3>2 DEF PushPath
      <3>4. Unrequested(q)' <=> Unrequested(q)
        BY <3>2 DEF Unrequested
      <3>5. AckHolder(q)'
        BY <3>1, <3>2, <3>4 DEF AckHolder
      <3> QED
        BY <3>3, <3>5
    <2> QED
      BY <2>1 DEF PushKept
  <1>3. PushesCounted'
    BY DEF PushKept
  <1>4. PendingTargetsCurrentTurn'
    <2> SUFFICES ASSUME NEW q \in preemptCtrl'.pending
                 PROVE  /\ preemptCtrl'.phase # "idle"
                        /\ pusher'[q].target /\ pusher'[q].turnID = preemptCtrl'.turnID
                        /\ ack'[q] = "open"
      BY DEF PendingTargetsCurrentTurn
    <2>1. q \in Items /\ preemptCtrl'.phase = preemptCtrl.phase
                     /\ preemptCtrl'.turnID = preemptCtrl.turnID
      BY DEF PushKept, SameTurn, PreemptRec
    <2>2. CASE q = p
      BY <2>1, <2>2 DEF PushKept
    <2>3. CASE q # p
      BY <2>1, <2>3 DEF PushKept, IInv, PendingTargetsCurrentTurn
    <2> QED
      BY <2>2, <2>3
  <1>5. Ahead'
    BY DEF IInv, Ahead, NotStarted, PushKept, PushFrame, SameTurn
  <1>6. NotifyNotLost'
    BY DEF IInv, NotifyNotLost, PushKept, PushFrame, SameTurn
  <1>7. AfterStopPlanned'
    BY DEF IInv, AfterStopPlanned, Committed, PushKept, PushFrame, SameTurn
  <1>8. StateType'
    <2>1. preemptCtrl'.pushInFlight \in 0..Cardinality(Items)
      <3>1. (PushesCounted <=> preemptCtrl.pushInFlight = Cardinality(Section))'
        BY CountedIsSection, PTL
      <3>2. (Cardinality(Section) \in 0..Cardinality(Items))'
        BY CountBounded, PTL
      <3> QED
        BY <1>3, <3>1, <3>2
    <2>2. preemptCtrl' \in [phase : {"idle", "planning", "active"}, turnID : 0..MaxTurns,
                        pushInFlight : 0..Cardinality(Items), pending : SUBSET Items,
                        notify : BOOLEAN, closed : BOOLEAN]
      BY <2>1 DEF PushKept, SameTurn, PreemptRec
    <2>3. CallersType'
      BY DEF IInv, StateType, CallersType, PushKept, PushFrame, PusherRec, PusherPcs, AckType
    <2> QED
      BY <2>2, <2>3 DEF IInv, StateType, CtrlType, LoopType, TurnType, PushKept, PushFrame
  <1> QED
    BY <1>1, <1>2, <1>3, <1>4, <1>5, <1>6, <1>7, <1>8 DEF IInv

\* The count, for a step of the push p.
LEMMA CountKept ==
  ASSUME PushesCounted, NEW p \in Items, \A q \in Items \ {p} : pusher'[q] = pusher[q],
         \/ /\ Counted(p)' <=> Counted(p)
            /\ preemptCtrl'.pushInFlight = preemptCtrl.pushInFlight
         \/ /\ Counted(p)' /\ ~Counted(p)
            /\ preemptCtrl'.pushInFlight = preemptCtrl.pushInFlight + 1
         \/ /\ Counted(p) /\ ~Counted(p)'
            /\ preemptCtrl'.pushInFlight = preemptCtrl.pushInFlight - 1
  PROVE  PushesCounted'
  <1>1. (PushesCounted <=> preemptCtrl.pushInFlight = Cardinality(Section))'
    BY CountedIsSection, PTL
  <1>2. preemptCtrl.pushInFlight = Cardinality(Section)
    BY CountedIsSection
  <1> QED
    BY <1>1, <1>2, SectionChanges

LEMMA NotRequested ==
  ASSUME IInv, NEW p \in Items, Unrequested(p)
  PROVE  p \notin preemptCtrl.pending /\ \A k \in Turns : p \notin turn[k].request
  BY DEF IInv, AckHolder

\* A push that only moves on, without its ack or the controller.
LEMMA MoveKept ==
  ASSUME IInv, NEW p \in Items, NEW pc, NEW next, Moves(p, pc, next),
         PushFrame, SameTurn, SameRequests, UNCHANGED <<buffer, ack>>,
         late' \in [items : SUBSET Items, sealed : BOOLEAN],
         PushPath(p)', PushesCounted',
         next = "delay" => ack[p] = "open", next # "request",
         Unrequested(p)' => Unrequested(p),
         Unrequested(p) \/ SameOptions(p)
  PROVE  PushKept(p)
  <1>1. AckType' /\ BufferType'
    BY PusherTypes DEF IInv, AckType, BufferType
  <1>2. AckHolder(p)'
    BY DEF IInv, AckHolder, Moves, PushFrame, SameRequests
  <1>3. p \in preemptCtrl'.pending =>
          /\ preemptCtrl.phase # "idle" /\ ack'[p] = "open"
          /\ pusher'[p].target /\ pusher'[p].turnID = preemptCtrl.turnID
    <2>1. CASE Unrequested(p)
      BY <2>1, NotRequested DEF SameRequests
    <2>2. CASE SameOptions(p)
      BY <2>2 DEF SameRequests, SameOptions, IInv, PendingTargetsCurrentTurn
    <2> QED
      BY <2>1, <2>2
  <1> QED
    BY <1>1, <1>2, <1>3 DEF PushKept, Moves, SameRequests

LEMMA SameController ==
  ASSUME StateType, UNCHANGED preemptCtrl
  PROVE  /\ SameTurn /\ SameRequests
         /\ preemptCtrl'.pushInFlight = preemptCtrl.pushInFlight
  BY PreemptType DEF SameTurn, SameRequests

\* Every step of a push keeps the invariant.
LEMMA PushersKeep ==
  ASSUME IInv, PusherSteps
  PROVE  IInv'
  <1>0. StateType /\ PushesCounted /\ \A p \in Items : PushPath(p) /\ AckHolder(p)
    BY DEF IInv
  <1>1. ASSUME NEW p \in Items, NEW kind \in PushKinds, Push(p, kind)
        PROVE  PushKept(p)
    <2>1. /\ UNCHANGED <<buffer, preemptCtrl, ack, late>> /\ PushFrame
          /\ \/ kind \in {"strategy", "strategyPreempt"} /\ Moves(p, "idle", "begin")
             \/ kind \in {"plain", "preempt", "delayed"} /\ Moves(p, "idle", "start")
          /\ pusher'[p].kind = kind
      BY <1>0, <1>1, PushEffect
    <2>2. SameTurn /\ SameRequests /\ preemptCtrl'.pushInFlight = preemptCtrl.pushInFlight
      BY <1>0, <2>1, SameController
    <2>3. PushPath(p)'
      BY <2>1 DEF Moves, PushPath, InSection
    <2>4. ~Counted(p) /\ ~Counted(p)'
      BY <2>1 DEF Moves, Counted
    <2>5. PushesCounted'
      BY <1>0, <2>1, <2>2, <2>4, CountKept DEF Moves
    <2>6. Unrequested(p)
      BY <2>1 DEF Moves, Unrequested
    <2>7. late' \in [items : SUBSET Items, sealed : BOOLEAN]
      BY <1>0, <2>1, PusherTypes DEF FlagsType
    <2> QED
      BY <2>1, <2>2, <2>3, <2>5, <2>6, <2>7, MoveKept
  <1>2. ASSUME NEW p \in Items, CheckStopped(p)
        PROVE  PushKept(p)
    <2>1. /\ UNCHANGED <<buffer, preemptCtrl, ack>> /\ PushFrame
          /\ SameOptions(p)
          /\ late' \in [items : SUBSET Items, sealed : BOOLEAN]
          /\ pusher[p].pc \in {"start", "check"}
          /\ \/ Moves(p, pusher[p].pc, AfterLate(p))
             \/ pusher[p].kind \in {"preempt", "delayed"} /\ Moves(p, pusher[p].pc, "begin")
             \/ pusher[p].kind \notin {"preempt", "delayed"} /\ Moves(p, pusher[p].pc, "send")
      BY <1>0, <1>2, CheckStoppedEffect
    <2>2. SameTurn /\ SameRequests /\ preemptCtrl'.pushInFlight = preemptCtrl.pushInFlight
      BY <1>0, <2>1, SameController
    <2>3. PushPath(p)
      BY <1>0
    <2>4. PICK next : Moves(p, pusher[p].pc, next)
                      /\ \/ next = AfterLate(p)
                         \/ pusher[p].kind \in {"preempt", "delayed"} /\ next = "begin"
                         \/ pusher[p].kind \notin {"preempt", "delayed"} /\ next = "send"
      BY <2>1
    <2>5. pusher[p].pc = "start" =>
             \/ next = "done"
             \/ next = "begin" /\ pusher[p].kind \in {"preempt", "delayed"}
             \/ next = "send" /\ pusher[p].kind = "plain"
      BY <2>3, <2>4 DEF AfterLate, PushPath
    <2>6. pusher[p].pc = "check" => next \in {"end", "send"}
      BY <2>3, <2>4 DEF PushPath, AfterLate, InSection
    <2>7. PushPath(p)'
      BY <2>1, <2>3, <2>4, <2>5, <2>6 DEF PushPath, InSection, Moves, SameOptions
    <2>8. Counted(p)' <=> Counted(p)
      BY <2>1, <2>3, <2>4, <2>5, <2>6 DEF PushPath, InSection, Moves, SameOptions, Counted
    <2>9. PushesCounted'
      BY <1>0, <2>2, <2>4, <2>8, CountKept DEF Moves
    <2>10. Unrequested(p)
      BY <2>1 DEF Unrequested
    <2>11. next # "delay" /\ next # "request"
      BY <2>1, <2>5, <2>6
    <2> QED
      BY <2>1, <2>2, <2>4, <2>7, <2>9, <2>10, <2>11, MoveKept
  <1>3. ASSUME NEW p \in Items, BeginPush(p)
        PROVE  PushKept(p)
    <2>1. /\ UNCHANGED <<buffer, ack, late>> /\ PushFrame
          /\ SameTurn /\ SameRequests
          /\ preemptCtrl'.pushInFlight = preemptCtrl.pushInFlight + 1
          /\ pusher'[p].kind = pusher[p].kind
          /\ \/ pusher[p].kind = "strategyPreempt" /\ Moves(p, "begin", "check")
             \/ pusher[p].kind # "strategyPreempt" /\ Moves(p, "begin", "send")
      BY <1>0, <1>3, BeginPushEffect
    <2>2. InSection(pusher[p].kind)
      BY <1>0, <2>1 DEF PushPath, Moves
    <2>3. PushPath(p)'
      BY <2>1, <2>2 DEF Moves, PushPath, InSection
    <2>4. ~Counted(p) /\ Counted(p)'
      BY <2>1, <2>2 DEF Moves, Counted, InSection
    <2>5. PushesCounted'
      BY <1>0, <2>1, <2>4, CountKept DEF Moves
    <2>6. Unrequested(p)
      BY <2>1 DEF Moves, Unrequested
    <2>7. late' \in [items : SUBSET Items, sealed : BOOLEAN]
      BY <1>0, <2>1, PusherTypes DEF FlagsType
    <2> QED
      BY <2>1, <2>3, <2>5, <2>6, <2>7, MoveKept
  <1>4. ASSUME NEW p \in Items, TrySend(p)
        PROVE  PushKept(p)
    <2>1. /\ UNCHANGED preemptCtrl /\ PushFrame
          /\ BufferType' /\ AckType'
          /\ late' \in [items : SUBSET Items, sealed : BOOLEAN]
          /\ SameOptions(p)
          /\ \A q \in Items \ {p} : ack'[q] = ack[q]
          /\ pusher[p].pc = "send"
          /\ \/ UNCHANGED ack /\ Moves(p, "send", AfterLate(p))
             \/ /\ ack'[p] # "twice"
                /\ \/ pusher[p].kind = "plain" /\ Moves(p, "send", "done")
                   \/ /\ pusher[p].kind \in {"preempt", "strategyPreempt"} /\ ack'[p] = "open"
                      /\ Moves(p, "send", "request")
                   \/ pusher[p].kind # "plain" /\ Moves(p, "send", "end")
      BY <1>0, <1>4, TrySendEffect
    <2>2. SameTurn /\ SameRequests /\ preemptCtrl'.pushInFlight = preemptCtrl.pushInFlight
      BY <1>0, <2>1, SameController
    <2>3. AfterLate(p) = IF pusher[p].kind = "plain" THEN "done" ELSE "end"
      BY <2>1 DEF AfterLate, InSection
    <2>4. PICK next : /\ Moves(p, "send", next) /\ ack'[p] # "twice"
                      /\ \/ pusher[p].kind = "plain" /\ next = "done"
                         \/ /\ pusher[p].kind \in {"preempt", "strategyPreempt"}
                            /\ ack'[p] = "open" /\ next = "request"
                         \/ pusher[p].kind # "plain" /\ next = "end"
      BY <1>0, <2>1, <2>3 DEF AckHolder
    <2>5. PushPath(p)'
      BY <2>1, <2>4 DEF Moves, PushPath, InSection, SameOptions
    <2>6. Counted(p)' <=> Counted(p)
      BY <2>1, <2>4 DEF Moves, Counted, InSection, SameOptions
    <2>7. PushesCounted'
      BY <1>0, <2>2, <2>4, <2>6, CountKept DEF Moves
    <2>8. p \notin preemptCtrl.pending /\ \A k \in Turns : p \notin turn[k].request
      BY <2>1, NotRequested DEF Unrequested
    <2>9. AckHolder(p)'
      BY <2>1, <2>2, <2>4, <2>8 DEF AckHolder, SameRequests, PushFrame, Moves
    <2> QED
      BY <2>1, <2>2, <2>4, <2>5, <2>7, <2>8, <2>9 DEF PushKept, Moves, SameRequests
  <1>5. ASSUME NEW p \in Items, RequestPreempt(p)
        PROVE  PushKept(p)
    <2>1. /\ UNCHANGED <<buffer, late>> /\ PushFrame
          /\ SameTurn /\ AckType'
          /\ preemptCtrl'.pushInFlight = preemptCtrl.pushInFlight
          /\ SameOptions(p)
          /\ \/ Moves(p, "delay", "done") \/ Moves(p, "request", "end")
          /\ \/ CloseAcks({p}) /\ UNCHANGED preemptCtrl
             \/ /\ UNCHANGED ack
                /\ preemptCtrl.phase # "idle" /\ pusher[p].target
                /\ preemptCtrl.turnID = pusher[p].turnID
                /\ preemptCtrl'.pending = preemptCtrl.pending \cup {p}
                /\ preemptCtrl.notify \/ preemptCtrl.phase = "active" => preemptCtrl'.notify
      BY <1>0, <1>5, RequestPreemptEffect
    <2>2. PushPath(p) /\ AckHolder(p)
      BY <1>0
    <2>3. PushPath(p)'
      BY <2>1, <2>2 DEF Moves, PushPath, InSection, SameOptions
    <2>4. Counted(p)' <=> Counted(p)
      BY <2>1, <2>2 DEF Moves, Counted, InSection, SameOptions
    <2>5. PushesCounted'
      BY <1>0, <2>1, <2>4, CountKept DEF Moves
    <2>6. Unrequested(p) /\ ack[p] = "open"
      BY <2>1, <2>2 DEF Unrequested, Moves, AckHolder
    <2>7. p \notin preemptCtrl.pending /\ \A k \in Turns : p \notin turn[k].request
      BY <2>6, NotRequested
    <2>8. ~Unrequested(p)' /\ pusher'[p].pc \in {"done", "end"}
      BY <2>1, <2>2 DEF Moves, Unrequested, PushPath, SameOptions
    <2>9. late' \in [items : SUBSET Items, sealed : BOOLEAN] /\ BufferType'
      BY <1>0, <2>1, PusherTypes DEF FlagsType, BufferType
    <2>10. CASE CloseAcks({p}) /\ UNCHANGED preemptCtrl
      <3>1. (\A q \in Items \ {p} : ack'[q] = ack[q]) /\ ack'[p] = "closed"
        BY <1>0, <2>6, <2>10, CloseAcksEffect, PusherTypes
      <3>2. AckHolder(p)'
        BY <2>1, <2>7, <2>8, <2>10, <3>1 DEF AckHolder, PushFrame
      <3> QED
        BY <2>1, <2>3, <2>5, <2>7, <2>9, <2>10, <3>1, <3>2 DEF PushKept, Moves
    <2>11. CASE /\ UNCHANGED ack
                /\ preemptCtrl.phase # "idle" /\ pusher[p].target
                /\ preemptCtrl.turnID = pusher[p].turnID
                /\ preemptCtrl'.pending = preemptCtrl.pending \cup {p}
                /\ preemptCtrl.notify \/ preemptCtrl.phase = "active" => preemptCtrl'.notify
      <3>1. AckHolder(p)'
        BY <2>1, <2>6, <2>7, <2>8, <2>11 DEF AckHolder, PushFrame
      <3> QED
        BY <2>1, <2>3, <2>5, <2>6, <2>9, <2>11, <3>1 DEF PushKept, Moves, SameOptions
    <2> QED
      BY <2>1, <2>10, <2>11
  <1>6. ASSUME NEW p \in Items, DelayCancelled(p)
        PROVE  PushKept(p)
    <2>1. /\ UNCHANGED <<buffer, late, preemptCtrl>> /\ PushFrame
          /\ AckType' /\ SameOptions(p) /\ Moves(p, "delay", "done") /\ CloseAcks({p})
      BY <1>0, <1>6, DelayCancelledEffect
    <2>2. SameTurn /\ SameRequests /\ preemptCtrl'.pushInFlight = preemptCtrl.pushInFlight
      BY <1>0, <2>1, SameController
    <2>3. PushPath(p)'
      BY <2>1 DEF Moves, PushPath
    <2>4. ~Counted(p)' /\ ~Counted(p)
      BY <2>1 DEF Moves, Counted
    <2>5. PushesCounted'
      BY <1>0, <2>1, <2>2, <2>4, CountKept DEF Moves
    <2>6. Unrequested(p) /\ ack[p] = "open"
      BY <1>0, <2>1 DEF Unrequested, Moves, AckHolder
    <2>7. p \notin preemptCtrl.pending /\ \A k \in Turns : p \notin turn[k].request
      BY <2>6, NotRequested
    <2>8. (\A q \in Items \ {p} : ack'[q] = ack[q]) /\ ack'[p] = "closed"
      BY <1>0, <2>1, <2>6, CloseAcksEffect, PusherTypes
    <2>9. AckHolder(p)'
      BY <2>1, <2>7, <2>8 DEF AckHolder, PushFrame, Moves
    <2>10. late' \in [items : SUBSET Items, sealed : BOOLEAN] /\ BufferType'
      BY <1>0, <2>1, PusherTypes DEF FlagsType, BufferType
    <2> QED
      BY <2>1, <2>2, <2>3, <2>5, <2>7, <2>8, <2>9, <2>10 DEF PushKept, Moves
  <1>7. ASSUME NEW p \in Items, EndPush(p)
        PROVE  PushKept(p)
    <2>0. Counted(p)
      BY <1>0, <1>7 DEF EndPush, PusherAt, PushPath, Counted
    <2>1. preemptCtrl.pushInFlight # 0
      <3>1. preemptCtrl.pushInFlight = Cardinality(Section)
        BY <1>0, CountedIsSection
      <3>2. IsFiniteSet(Section) /\ p \in Section
        BY <2>0, LoopAssumption, FS_Subset DEF Section
      <3> QED
        BY <3>1, <3>2, FS_EmptySet
    <2>2. /\ UNCHANGED <<buffer, late, ack>> /\ PushFrame
          /\ SameTurn /\ SameRequests
          /\ preemptCtrl'.pushInFlight = preemptCtrl.pushInFlight - 1
          /\ SameOptions(p)
          /\ \/ pusher[p].kind = "delayed" /\ ack[p] = "open" /\ Moves(p, "end", "delay")
             \/ Moves(p, "end", "done")
      BY <1>0, <1>7, <2>1, EndPushEffect
    <2>3. PushPath(p)'
      BY <2>2 DEF Moves, PushPath
    <2>4. ~Counted(p)'
      BY <2>2 DEF Moves, Counted
    <2>5. PushesCounted'
      BY <1>0, <2>0, <2>2, <2>4, CountKept DEF Moves
    <2>6. Unrequested(p)' => Unrequested(p)
      BY <2>2 DEF Moves, Unrequested
    <2>7. late' \in [items : SUBSET Items, sealed : BOOLEAN]
      BY <1>0, <2>2, PusherTypes DEF FlagsType
    <2> QED
      BY <2>2, <2>3, <2>5, <2>6, <2>7, MoveKept
  <1> QED
    BY <1>1, <1>2, <1>3, <1>4, <1>5, <1>6, <1>7, PushKeeps DEF PusherSteps, PushStep

-----------------------------------------------------------------------------
(* The goroutines of a turn *)

TurnRec(consumed) ==
    [consumed : {consumed}, afterStop : BOOLEAN, bytes : BOOLEAN,
     agent : {"off", "run", "over"}, event : AllEvents \cup {"none", "cancel"},
     iterClosed : BOOLEAN, cancel : {"running", "cancelling", "handled"},
     proxy : {"off", "run", "over"}, handler : {"off", "run", "done"},
     err : {"none", "err"}, watchPreempt : WatcherPcs, request : SUBSET Items,
     preempted : BOOLEAN, watchStop : WatcherPcs, stopped : BOOLEAN]

\* Turn k becomes r, and the others stay.
LEMMA TurnUpdate ==
  ASSUME TurnType, NEW k \in Turns, NEW r, r \in TurnRec(r.consumed),
         turn' = [turn EXCEPT ![k] = r]
  PROVE  TurnType' /\ turn'[k] = r /\ \A j \in Turns \ {k} : turn'[j] = turn[j]
  <1>1. turn'[k] = r /\ \A j \in Turns \ {k} : turn'[j] = turn[j]
    BY DEF TurnType
  <1>2. turn' = [j \in Turns |-> turn'[j]]
    BY DEF TurnType
  <1>3. \A j \in Turns : turn'[j] \in TurnRec(turn'[j].consumed)
    BY <1>1 DEF TurnType, TurnRec
  <1> QED
    BY <1>1, <1>2, <1>3 DEF TurnType, TurnRec

LEMMA TurnIs == ASSUME TurnType, NEW k \in Turns PROVE turn[k] \in TurnRec(turn[k].consumed)
  BY DEF TurnType, TurnRec

\* What the step leaves of turn k.
SameWatchers(k) ==
    /\ turn'[k].afterStop = turn[k].afterStop
    /\ turn'[k].watchPreempt = turn[k].watchPreempt /\ turn'[k].request = turn[k].request
    /\ turn'[k].watchStop = turn[k].watchStop

OneTurn(k) == TurnType' /\ \A j \in Turns \ {k} : turn'[j] = turn[j]

LEMMA AgentEndsEffect ==
  ASSUME StateType, NEW k \in Turns, NEW ev \in Events \cup {"cancel"}, AgentEnds(k, ev)
  PROVE  OneTurn(k) /\ SameWatchers(k)
  <1>0. TurnType /\ turn[k] \in TurnRec(turn[k].consumed)
    BY TurnIs DEF StateType
  <1>1. ev \in AllEvents \cup {"cancel"}
    BY LoopAssumption
  <1>2. /\ turn[k].bytes \in BOOLEAN
        /\ \A refuses : Answered(k, refuses) \in {"running", "cancelling", "handled"}
    BY <1>0 DEF TurnRec, Answered
  <1>3. PICK bytes \in BOOLEAN, refuses \in BOOLEAN :
           turn' = [turn EXCEPT ![k] = [turn[k] EXCEPT
              !.agent = "over", !.event = ev, !.bytes = bytes, !.cancel = Answered(k, refuses)]]
    BY <1>2 DEF AgentEnds
  <1> DEFINE cancel == Answered(k, refuses)
  <1>4. cancel \in {"running", "cancelling", "handled"}
    BY <1>2
  <1> DEFINE r == [turn[k] EXCEPT !.agent = "over", !.event = ev, !.bytes = bytes, !.cancel = cancel]
  <1>5. turn' = [turn EXCEPT ![k] = r]
    BY <1>3
  <1> HIDE DEF cancel
  <1>6. r \in TurnRec(r.consumed)
    BY <1>0, <1>1, <1>4 DEF TurnRec
  <1>7. /\ r.afterStop = turn[k].afterStop /\ r.watchPreempt = turn[k].watchPreempt
        /\ r.request = turn[k].request /\ r.watchStop = turn[k].watchStop
    BY <1>0 DEF TurnRec
  <1> HIDE DEF r
  <1> QED
    BY <1>0, <1>5, <1>6, <1>7, TurnUpdate DEF OneTurn, SameWatchers

LEMMA CopyEventsEffect ==
  ASSUME StateType, NEW k \in Turns, CopyEvents(k)
  PROVE  OneTurn(k) /\ SameWatchers(k) /\ captured' \subseteq {"cancel", "contexts"}
  <1>0. TurnType /\ turn[k] \in TurnRec(turn[k].consumed)
    BY TurnIs DEF StateType
  <1> DEFINE r == [turn[k] EXCEPT !.proxy = "over"]
  <1>1. turn' = [turn EXCEPT ![k] = r]
    BY DEF CopyEvents
  <1>2. r \in TurnRec(r.consumed)
    BY <1>0 DEF TurnRec
  <1>3. /\ r.afterStop = turn[k].afterStop /\ r.watchPreempt = turn[k].watchPreempt
        /\ r.request = turn[k].request /\ r.watchStop = turn[k].watchStop
    BY <1>0 DEF TurnRec
  <1>4. captured' \subseteq {"cancel", "contexts"}
    BY DEF CopyEvents, StateType
  <1> HIDE DEF r
  <1> QED
    BY <1>0, <1>1, <1>2, <1>3, <1>4, TurnUpdate DEF OneTurn, SameWatchers

LEMMA HandlerReturnsEffect ==
  ASSUME StateType, NEW k \in Turns, HandlerReturns(k)
  PROVE  OneTurn(k) /\ SameWatchers(k)
  <1>0. TurnType /\ turn[k] \in TurnRec(turn[k].consumed)
    BY TurnIs DEF StateType
  <1>1. PICK err \in {"none", "err"} :
           turn' = [turn EXCEPT ![k] = [@ EXCEPT !.handler = "done", !.err = err]]
    BY DEF HandlerReturns
  <1> DEFINE r == [turn[k] EXCEPT !.handler = "done", !.err = err]
  <1>2. turn' = [turn EXCEPT ![k] = r]
    BY <1>1
  <1>3. r \in TurnRec(r.consumed)
    BY <1>0 DEF TurnRec
  <1>4. /\ r.afterStop = turn[k].afterStop /\ r.watchPreempt = turn[k].watchPreempt
        /\ r.request = turn[k].request /\ r.watchStop = turn[k].watchStop
    BY <1>0 DEF TurnRec
  <1> HIDE DEF r
  <1> QED
    BY <1>0, <1>2, <1>3, <1>4, TurnUpdate DEF OneTurn, SameWatchers

\* watchPreempt of turn k moves on, with the requests it has received.
PreemptMoves(k, pc, next, request) ==
    /\ OneTurn(k)
    /\ turn[k].watchPreempt = pc /\ turn'[k].watchPreempt = next
    /\ turn'[k].request = request
    /\ turn'[k].watchStop = turn[k].watchStop /\ turn'[k].afterStop = turn[k].afterStop

LEMMA WatchPreemptEffect ==
  ASSUME StateType, NEW k \in Turns, WatchPreempt(k)
  PROVE  /\ SameTurn /\ preemptCtrl'.pushInFlight = preemptCtrl.pushInFlight
         /\ preemptCtrl'.pending = preemptCtrl.pending
         /\ \/ PreemptMoves(k, "select", "exited", turn[k].request) /\ UNCHANGED preemptCtrl
            \/ PreemptMoves(k, "select", "receive", turn[k].request)
  <1>0. TurnType /\ turn[k] \in TurnRec(turn[k].consumed) /\ preemptCtrl \in PreemptRec
    BY TurnIs, PreemptType DEF StateType
  <1>1. /\ SameTurn /\ preemptCtrl'.pushInFlight = preemptCtrl.pushInFlight
        /\ preemptCtrl'.pending = preemptCtrl.pending
    BY <1>0 DEF WatchPreempt, SameTurn, PreemptRec
  <1>2. PICK next \in {"exited", "receive"} :
           /\ turn' = [turn EXCEPT ![k].watchPreempt = next]
           /\ next = "exited" => UNCHANGED preemptCtrl
    BY DEF WatchPreempt
  <1> DEFINE r == [turn[k] EXCEPT !.watchPreempt = next]
  <1>3. turn' = [turn EXCEPT ![k] = r]
    BY <1>2
  <1>4. r \in TurnRec(r.consumed)
    BY <1>0 DEF TurnRec, WatcherPcs
  <1>5. /\ r.afterStop = turn[k].afterStop /\ r.watchPreempt = next
        /\ r.request = turn[k].request /\ r.watchStop = turn[k].watchStop
    BY <1>0 DEF TurnRec
  <1>6. turn[k].watchPreempt = "select"
    BY DEF WatchPreempt, TurnAt
  <1> HIDE DEF r
  <1>7. PreemptMoves(k, "select", next, turn[k].request)
    BY <1>0, <1>3, <1>4, <1>5, <1>6, TurnUpdate DEF OneTurn, PreemptMoves
  <1> QED
    BY <1>1, <1>2, <1>7

LEMMA ReceivePreemptEffect ==
  ASSUME StateType, NEW k \in Turns, ReceivePreempt(k)
  PROVE  /\ SameTurn /\ preemptCtrl'.pushInFlight = preemptCtrl.pushInFlight
         /\ \/ /\ preemptCtrl'.pending = {}
               /\ PreemptMoves(k, "receive", "submit", preemptCtrl.pending)
            \/ /\ ~(preemptCtrl.phase = "active" /\ preemptCtrl.pending # {})
               /\ UNCHANGED preemptCtrl
               /\ PreemptMoves(k, "receive", "select", {})
  <1>0. TurnType /\ turn[k] \in TurnRec(turn[k].consumed) /\ preemptCtrl \in PreemptRec
    BY TurnIs, PreemptType DEF StateType
  <1> DEFINE received == preemptCtrl.phase = "active" /\ preemptCtrl.pending # {}
             next == IF received THEN "submit" ELSE "select"
             request == IF received THEN preemptCtrl.pending ELSE {}
             r == [turn[k] EXCEPT !.watchPreempt = next, !.request = request]
  <1>1. turn' = [turn EXCEPT ![k] = r] /\ turn[k].watchPreempt = "receive"
    BY DEF ReceivePreempt, TurnAt
  <1>2. next \in WatcherPcs /\ request \in SUBSET Items
    BY <1>0 DEF PreemptRec, WatcherPcs
  <1>3. preemptCtrl' = IF received THEN [preemptCtrl EXCEPT !.pending = {}] ELSE preemptCtrl
    BY DEF ReceivePreempt
  <1>4. SameTurn /\ preemptCtrl'.pushInFlight = preemptCtrl.pushInFlight
    BY <1>0, <1>3 DEF SameTurn, PreemptRec
  <1>5. received => preemptCtrl'.pending = {}
    BY <1>0, <1>3 DEF PreemptRec
  <1>6. /\ received => next = "submit" /\ request = preemptCtrl.pending
        /\ ~received => next = "select" /\ request = {} /\ UNCHANGED preemptCtrl
    BY <1>3
  <1> HIDE DEF next, request
  <1>7. r \in TurnRec(r.consumed)
    BY <1>0, <1>2 DEF TurnRec
  <1>8. /\ r.afterStop = turn[k].afterStop /\ r.watchPreempt = next
        /\ r.request = request /\ r.watchStop = turn[k].watchStop
    BY <1>0 DEF TurnRec
  <1> HIDE DEF r
  <1>9. PreemptMoves(k, "receive", next, request)
    BY <1>0, <1>1, <1>7, <1>8, TurnUpdate DEF OneTurn, PreemptMoves
  <1> QED
    BY <1>4, <1>5, <1>6, <1>9

LEMMA SubmitPreemptEffect ==
  ASSUME StateType, NEW k \in Turns, SubmitPreempt(k) \/ ClosePreemptDone(k)
  PROVE  \E pc \in {"submit", "close"}, next \in {"close", "ack"} :
            PreemptMoves(k, pc, next, turn[k].request)
  <1>0. TurnType /\ turn[k] \in TurnRec(turn[k].consumed)
    BY TurnIs DEF StateType
  <1>1. turn[k].preempted \in BOOLEAN /\ Cancelled(k) \in {"cancelling", "handled"}
    BY <1>0 DEF Cancelled, TurnRec
  <1>2. PICK pc \in {"submit", "close"}, next \in {"close", "ack"},
             preempted \in BOOLEAN, cancel \in {turn[k].cancel, "cancelling", "handled"} :
           /\ turn[k].watchPreempt = pc
           /\ turn' = [turn EXCEPT ![k] = [turn[k] EXCEPT
                 !.watchPreempt = next, !.cancel = cancel, !.preempted = preempted]]
    <2> DEFINE Moved(next, cancel, preempted) == [turn[k] EXCEPT
                  !.watchPreempt = next, !.cancel = cancel, !.preempted = preempted]
    <2>1. CASE SubmitPreempt(k)
      <3>1. turn[k].watchPreempt = "submit"
        BY <2>1 DEF SubmitPreempt, TurnAt
      <3>2. PICK next \in {"close", "ack"} :
               turn' = [turn EXCEPT ![k] = [turn[k] EXCEPT
                          !.watchPreempt = next, !.cancel = Cancelled(k)]]
        BY <2>1 DEF SubmitPreempt
      <3>3. turn' = [turn EXCEPT ![k] = Moved(next, Cancelled(k), turn[k].preempted)]
        BY <1>0, <3>2 DEF TurnRec
      <3> HIDE DEF Moved
      <3>4. turn' = [turn EXCEPT ![k] = Moved(next, Cancelled(k), turn[k].preempted)]
        BY <3>3
      <3> QED
        BY <1>1, <3>1, <3>4 DEF Moved
    <2>2. CASE ClosePreemptDone(k)
      <3>1. turn[k].watchPreempt = "close"
        BY <2>2 DEF ClosePreemptDone, TurnAt
      <3>2. turn' = [turn EXCEPT ![k] = Moved("ack", turn[k].cancel, TRUE)]
        BY <1>0, <2>2 DEF ClosePreemptDone, TurnRec
      <3> QED
        BY <3>1, <3>2
    <2> QED
      BY <2>1, <2>2
  <1> DEFINE r == [turn[k] EXCEPT !.watchPreempt = next, !.cancel = cancel,
                                  !.preempted = preempted]
  <1>3. turn' = [turn EXCEPT ![k] = r]
    BY <1>2
  <1>4. r \in TurnRec(r.consumed)
    BY <1>0, <1>2 DEF TurnRec, WatcherPcs
  <1>5. /\ r.afterStop = turn[k].afterStop /\ r.watchPreempt = next
        /\ r.request = turn[k].request /\ r.watchStop = turn[k].watchStop
    BY <1>0 DEF TurnRec
  <1> HIDE DEF r
  <1>6. PreemptMoves(k, pc, next, turn[k].request)
    BY <1>0, <1>2, <1>3, <1>4, <1>5, TurnUpdate DEF OneTurn, PreemptMoves
  <1> QED
    BY <1>2, <1>6

LEMMA AckPreemptEffect ==
  ASSUME StateType, NEW k \in Turns, AckPreempt(k)
  PROVE  PreemptMoves(k, "ack", "select", {}) /\ CloseAcks(turn[k].request)
  <1>0. TurnType /\ turn[k] \in TurnRec(turn[k].consumed)
    BY TurnIs DEF StateType
  <1> DEFINE r == [turn[k] EXCEPT !.watchPreempt = "select", !.request = {}]
  <1>1. /\ turn[k].watchPreempt = "ack" /\ CloseAcks(turn[k].request)
        /\ turn' = [turn EXCEPT ![k] = r]
    BY DEF AckPreempt, TurnAt
  <1>2. r \in TurnRec(r.consumed)
    BY <1>0 DEF TurnRec, WatcherPcs
  <1>3. /\ r.afterStop = turn[k].afterStop /\ r.watchPreempt = "select"
        /\ r.request = {} /\ r.watchStop = turn[k].watchStop
    BY <1>0 DEF TurnRec
  <1> HIDE DEF r
  <1> QED
    BY <1>0, <1>1, <1>2, <1>3, TurnUpdate DEF OneTurn, PreemptMoves

\* watchStop of turn k moves on.
StopMoves(k, pc, next) ==
    /\ OneTurn(k)
    /\ turn[k].watchStop = pc /\ turn'[k].watchStop = next
    /\ turn'[k].watchPreempt = turn[k].watchPreempt /\ turn'[k].request = turn[k].request
    /\ turn'[k].afterStop = turn[k].afterStop

SameTarget ==
    /\ StopType' /\ stopCtrl'.phase = stopCtrl.phase
    /\ stopCtrl'.hasTarget = stopCtrl.hasTarget

LEMMA WatchStopEffect ==
  ASSUME StateType, UNCHANGED stopVars, NEW k \in Turns, WatchStop(k)
  PROVE  /\ SameTarget /\ stopCtrl'.pending = stopCtrl.pending
         /\ \/ StopMoves(k, "select", "exited") /\ UNCHANGED stopCtrl
            \/ StopMoves(k, "select", "receive")
  <1>0. TurnType /\ turn[k] \in TurnRec(turn[k].consumed) /\ StopType
    BY TurnIs DEF StateType, CtrlType, CallersType, StopType
  <1>1. SameTarget /\ stopCtrl'.pending = stopCtrl.pending
    BY <1>0 DEF WatchStop, SameTarget, StopType, stopVars
  <1>2. PICK next \in {"exited", "receive"} :
           /\ turn' = [turn EXCEPT ![k].watchStop = next]
           /\ next = "exited" => UNCHANGED stopCtrl
    BY DEF WatchStop
  <1> DEFINE r == [turn[k] EXCEPT !.watchStop = next]
  <1>3. turn' = [turn EXCEPT ![k] = r]
    BY <1>2
  <1>4. r \in TurnRec(r.consumed)
    BY <1>0 DEF TurnRec, WatcherPcs
  <1>5. /\ r.afterStop = turn[k].afterStop /\ r.watchPreempt = turn[k].watchPreempt
        /\ r.request = turn[k].request /\ r.watchStop = next
    BY <1>0 DEF TurnRec
  <1>6. turn[k].watchStop = "select"
    BY DEF WatchStop, TurnAt
  <1> HIDE DEF r
  <1>7. StopMoves(k, "select", next)
    BY <1>0, <1>3, <1>4, <1>5, <1>6, TurnUpdate DEF OneTurn, StopMoves
  <1> QED
    BY <1>1, <1>2, <1>7

LEMMA ReceiveCancelEffect ==
  ASSUME StateType, UNCHANGED stopVars, NEW k \in Turns, ReceiveCancel(k)
  PROVE  /\ SameTarget
         /\ \/ ~stopCtrl'.pending /\ StopMoves(k, "receive", "submit")
            \/ /\ ~(stopCtrl.hasTarget /\ stopCtrl.pending)
               /\ UNCHANGED stopCtrl /\ StopMoves(k, "receive", "select")
  <1>0. TurnType /\ turn[k] \in TurnRec(turn[k].consumed) /\ StopType
    BY TurnIs DEF StateType, CtrlType, CallersType, StopType
  <1> DEFINE received == stopCtrl.hasTarget /\ stopCtrl.pending
             next == IF received THEN "submit" ELSE "select"
             r == [turn[k] EXCEPT !.watchStop = next]
  <1>1. turn' = [turn EXCEPT ![k] = r] /\ turn[k].watchStop = "receive"
    BY DEF ReceiveCancel, TurnAt
  <1>2. next \in WatcherPcs
    BY DEF WatcherPcs
  <1>3. stopCtrl' = IF received THEN [stopCtrl EXCEPT !.pending = FALSE] ELSE stopCtrl
    BY DEF ReceiveCancel
  <1>4. SameTarget
    BY <1>0, <1>3 DEF SameTarget, StopType, stopVars
  <1>5. received => ~stopCtrl'.pending
    BY <1>0, <1>3 DEF StopType
  <1>6. /\ received => next = "submit"
        /\ ~received => next = "select" /\ UNCHANGED stopCtrl
    BY <1>3
  <1> HIDE DEF next
  <1>7. r \in TurnRec(r.consumed)
    BY <1>0, <1>2 DEF TurnRec
  <1>8. /\ r.afterStop = turn[k].afterStop /\ r.watchPreempt = turn[k].watchPreempt
        /\ r.request = turn[k].request /\ r.watchStop = next
    BY <1>0 DEF TurnRec
  <1> HIDE DEF r
  <1>9. StopMoves(k, "receive", next)
    BY <1>0, <1>1, <1>7, <1>8, TurnUpdate DEF OneTurn, StopMoves
  <1> QED
    BY <1>4, <1>5, <1>6, <1>9

LEMMA SubmitCancelEffect ==
  ASSUME StateType, NEW k \in Turns, SubmitCancel(k)
  PROVE  StopMoves(k, "submit", "select")
  <1>0. TurnType /\ turn[k] \in TurnRec(turn[k].consumed)
    BY TurnIs DEF StateType
  <1>1. turn[k].stopped \in BOOLEAN /\ Cancelled(k) \in {"cancelling", "handled"}
    BY <1>0 DEF Cancelled, TurnRec
  <1>2. PICK stopped \in BOOLEAN, cancel \in {"cancelling", "handled"} :
           turn' = [turn EXCEPT ![k] = [turn[k] EXCEPT
              !.watchStop = "select", !.cancel = cancel, !.stopped = stopped]]
    BY <1>1 DEF SubmitCancel
  <1>3. turn[k].watchStop = "submit"
    BY DEF SubmitCancel, TurnAt
  <1> DEFINE r == [turn[k] EXCEPT !.watchStop = "select", !.cancel = cancel, !.stopped = stopped]
  <1>4. turn' = [turn EXCEPT ![k] = r]
    BY <1>2
  <1>5. r \in TurnRec(r.consumed)
    <2>1. cancel \in {"running", "cancelling", "handled"} /\ stopped \in BOOLEAN
      OBVIOUS
    <2>2. r.consumed = turn[k].consumed
      BY <1>0 DEF TurnRec
    <2>3. "select" \in WatcherPcs
      BY DEF WatcherPcs
    <2> QED
      BY <1>0, <2>1, <2>2, <2>3 DEF TurnRec
  <1>6. /\ r.afterStop = turn[k].afterStop /\ r.watchPreempt = turn[k].watchPreempt
        /\ r.request = turn[k].request /\ r.watchStop = "select"
    BY <1>0 DEF TurnRec
  <1> HIDE DEF r
  <1> QED
    BY <1>0, <1>3, <1>4, <1>5, <1>6, TurnUpdate DEF OneTurn, StopMoves

\* What a step of the goroutines of turn k has to show for itself.
TurnFrame == UNCHANGED <<loop, buffer, pusher, late, stopper, timers, runnerBytes, store>>

TurnKept(k) ==
    /\ TurnFrame /\ FlagsType' /\ flags'.started = flags.started
    /\ captured' \subseteq {"cancel", "contexts"}
    /\ SameTarget /\ SameTurn /\ preemptCtrl'.pushInFlight = preemptCtrl.pushInFlight
    /\ OneTurn(k) /\ turn'[k].afterStop = turn[k].afterStop
    /\ turn[k].watchPreempt = "off" => turn'[k].watchPreempt = "off"
    /\ AckType' /\ \A p \in Items : AckHolder(p)'
    /\ PendingTargetsCurrentTurn' /\ NotifyNotLost'

LEMMA TurnKeeps ==
  ASSUME IInv, NEW k \in Turns, TurnKept(k)
  PROVE  IInv'
  <1>1. Stages'
    BY DEF IInv, Stages, TurnKept, TurnFrame, SameTurn
  <1>2. \A p \in Items : PushPath(p)' /\ AckHolder(p)'
    BY DEF IInv, PushPath, TurnKept, TurnFrame
  <1>3. PushesCounted'
    BY DEF IInv, PushesCounted, TurnKept, TurnFrame
  <1>4. Ahead'
    BY DEF IInv, Ahead, NotStarted, TurnKept, TurnFrame, SameTurn, OneTurn
  <1>5. AfterStopPlanned'
    <2> SUFFICES ASSUME preemptCtrl'.phase # "idle", turn'[preemptCtrl'.turnID].afterStop
                 PROVE  loop'.pc = "planning" /\ Committed'
      BY DEF AfterStopPlanned
    <2>1. preemptCtrl.phase # "idle" /\ preemptCtrl'.turnID = preemptCtrl.turnID
      BY DEF TurnKept, SameTurn
    <2>2. preemptCtrl.turnID \in Turns
      BY <2>1 DEF IInv, Stages
    <2>3. turn[preemptCtrl.turnID].afterStop
      BY <2>1, <2>2 DEF TurnKept, OneTurn
    <2> QED
      BY <2>1, <2>3 DEF IInv, AfterStopPlanned, TurnKept, TurnFrame, SameTarget, Committed
  <1>6. StateType'
    <2>1. preemptCtrl'.pushInFlight \in 0..Cardinality(Items)
      BY DEF IInv, StateType, CtrlType, TurnKept
    <2>2. preemptCtrl' \in [phase : {"idle", "planning", "active"}, turnID : 0..MaxTurns,
                        pushInFlight : 0..Cardinality(Items), pending : SUBSET Items,
                        notify : BOOLEAN, closed : BOOLEAN]
      BY <2>1 DEF TurnKept, SameTurn, PreemptRec
    <2>3. CtrlType'
      BY <2>2 DEF CtrlType, TurnKept, SameTarget, StopType, FlagsType
    <2>4. CallersType'
      BY DEF IInv, StateType, CallersType, TurnKept, TurnFrame, AckType
    <2>5. LoopType' /\ BufferType'
      BY DEF IInv, StateType, LoopType, BufferType, TurnKept, TurnFrame
    <2> QED
      BY <2>3, <2>4, <2>5 DEF IInv, StateType, TurnKept, TurnFrame, OneTurn
  <1> QED
    BY <1>1, <1>2, <1>3, <1>4, <1>5, <1>6 DEF IInv, TurnKept

\* Acks, requests and pushes stay as they are.
LEMMA SameHolders ==
  ASSUME \A p \in Items : AckHolder(p), UNCHANGED <<pusher, ack>>,
         preemptCtrl'.pending = preemptCtrl.pending,
         \A j \in Turns : turn'[j].request = turn[j].request
  PROVE  \A p \in Items : AckHolder(p)'
  BY DEF AckHolder, Unrequested

LEMMA SamePending ==
  ASSUME PendingTargetsCurrentTurn, UNCHANGED <<pusher, ack>>, SameTurn,
         preemptCtrl'.pending = preemptCtrl.pending
  PROVE  PendingTargetsCurrentTurn'
  BY DEF PendingTargetsCurrentTurn, SameTurn

\* Each signal that is taken is in the hands of a watcher.
LEMMA SignalsKept ==
  ASSUME NotifyNotLost, SameTurn, SameTarget,
         \/ preemptCtrl'.phase # "active" \/ preemptCtrl'.pending = {} \/ preemptCtrl'.notify
         \/ /\ preemptCtrl'.pending = preemptCtrl.pending
            /\ preemptCtrl'.notify = preemptCtrl.notify
            /\ \A j \in Turns : turn[j].watchPreempt = "receive" => turn'[j].watchPreempt = "receive"
         \/ \E j \in Turns : turn'[j].watchPreempt = "receive",
         \/ ~stopCtrl'.hasTarget \/ ~stopCtrl'.pending \/ stopCtrl'.notify
         \/ /\ stopCtrl'.pending = stopCtrl.pending
            /\ stopCtrl'.notify = stopCtrl.notify
            /\ \A j \in Turns : turn[j].watchStop = "receive" => turn'[j].watchStop = "receive"
         \/ \E j \in Turns : turn'[j].watchStop = "receive"
  PROVE  NotifyNotLost'
  BY DEF NotifyNotLost, SameTurn, SameTarget

LEMMA SameStopCtrl ==
  ASSUME StateType, UNCHANGED <<stopCtrl, stopper, timers>>
  PROVE  /\ SameTarget /\ stopCtrl'.pending = stopCtrl.pending
         /\ stopCtrl'.notify = stopCtrl.notify
  BY DEF StateType, CtrlType, CallersType, SameTarget, StopType

\* A step that leaves both controllers, the acks and the watchers alone.
LEMMA BystanderKept ==
  ASSUME IInv, NEW k \in Turns, OneTurn(k), SameWatchers(k), TurnFrame,
         UNCHANGED <<preemptCtrl, stopCtrl, ack>>,
         FlagsType', flags'.started = flags.started, captured' \subseteq {"cancel", "contexts"}
  PROVE  TurnKept(k)
  <1>1. /\ StateType /\ NotifyNotLost /\ PendingTargetsCurrentTurn
        /\ \A p \in Items : AckHolder(p)
    BY DEF IInv
  <1>2. /\ SameTarget /\ stopCtrl'.pending = stopCtrl.pending
        /\ stopCtrl'.notify = stopCtrl.notify
    BY <1>1, SameStopCtrl DEF TurnFrame
  <1>3. SameTurn /\ SameRequests /\ preemptCtrl'.pushInFlight = preemptCtrl.pushInFlight
    BY <1>1, SameController
  <1>4. \A j \in Turns : /\ turn'[j].request = turn[j].request
                         /\ turn'[j].watchPreempt = turn[j].watchPreempt
                         /\ turn'[j].watchStop = turn[j].watchStop
    BY DEF OneTurn, SameWatchers
  <1>5. \A p \in Items : AckHolder(p)'
    BY <1>1, <1>3, <1>4, SameHolders DEF TurnFrame, SameRequests
  <1>6. PendingTargetsCurrentTurn'
    BY <1>1, <1>3, SamePending DEF TurnFrame, SameRequests
  <1>7. NotifyNotLost'
    BY <1>1, <1>2, <1>3, <1>4, SignalsKept DEF SameRequests
  <1>8. AckType'
    BY <1>1, PusherTypes DEF AckType
  <1> QED
    BY <1>2, <1>3, <1>5, <1>6, <1>7, <1>8 DEF TurnKept, SameWatchers

\* Every step of a turn's goroutines keeps the invariant.
LEMMA TurnsKeep ==
  ASSUME IInv, TurnSteps
  PROVE  IInv'
  <1>0. /\ StateType /\ NotifyNotLost /\ PendingTargetsCurrentTurn
        /\ \A p \in Items : AckHolder(p)
        /\ FlagsType /\ AckType /\ captured \subseteq {"cancel", "contexts"}
    BY PusherTypes DEF IInv, StateType
  <1>1. ASSUME NEW k \in Turns, NEW ev \in Events \cup {"cancel"}, AgentEnds(k, ev)
        PROVE  TurnKept(k)
    <2>1. TurnFrame /\ UNCHANGED <<preemptCtrl, stopCtrl, ack, captured>>
      BY <1>1 DEF AgentEnds, TurnFrame, pushVars, stopVars, saveVars
    <2>2. FlagsType' /\ flags'.started = flags.started
      <3>1. turn[k].iterClosed \in BOOLEAN
        BY <1>0 DEF StateType, TurnType
      <3> QED
        BY <1>0, <1>1, <3>1 DEF AgentEnds, FlagsType, pushVars
    <2> QED
      BY <1>0, <1>1, <2>1, <2>2, AgentEndsEffect, BystanderKept
  <1>2. ASSUME NEW k \in Turns, CopyEvents(k)
        PROVE  TurnKept(k)
    <2>1. TurnFrame /\ UNCHANGED <<preemptCtrl, stopCtrl, ack, flags, late>>
      BY <1>2 DEF CopyEvents, TurnFrame, pushVars, stopVars, saveVars
    <2>2. FlagsType' /\ flags'.started = flags.started
      BY <1>0, <2>1 DEF FlagsType
    <2> QED
      BY <1>0, <1>2, <2>1, <2>2, CopyEventsEffect, BystanderKept
  <1>3. ASSUME NEW k \in Turns, HandlerReturns(k)
        PROVE  TurnKept(k)
    <2>1. TurnFrame /\ UNCHANGED <<preemptCtrl, stopCtrl, ack, flags, late, captured>>
      BY <1>3 DEF HandlerReturns, TurnFrame, pushVars, stopVars, saveVars
    <2>2. FlagsType' /\ flags'.started = flags.started
      BY <1>0, <2>1 DEF FlagsType
    <2> QED
      BY <1>0, <1>3, <2>1, <2>2, HandlerReturnsEffect, BystanderKept
  <1>4. ASSUME NEW k \in Turns, WatchPreempt(k)
        PROVE  TurnKept(k)
    <2>1. TurnFrame /\ UNCHANGED <<stopCtrl, stopper, timers, ack, flags, late, captured>>
      BY <1>4 DEF WatchPreempt, TurnFrame, pushVars, stopVars, saveVars
    <2>2. FlagsType' /\ flags'.started = flags.started /\ AckType'
      BY <1>0, <2>1 DEF FlagsType, AckType
    <2>3. /\ SameTurn /\ preemptCtrl'.pushInFlight = preemptCtrl.pushInFlight
          /\ preemptCtrl'.pending = preemptCtrl.pending
          /\ \/ PreemptMoves(k, "select", "exited", turn[k].request) /\ UNCHANGED preemptCtrl
             \/ PreemptMoves(k, "select", "receive", turn[k].request)
      BY <1>0, <1>4, WatchPreemptEffect
    <2>4. /\ SameTarget /\ stopCtrl'.pending = stopCtrl.pending
          /\ stopCtrl'.notify = stopCtrl.notify
      BY <1>0, <2>1, SameStopCtrl
    <2>5. \A j \in Turns : /\ turn'[j].request = turn[j].request
                           /\ turn'[j].watchStop = turn[j].watchStop
      BY <2>3 DEF PreemptMoves, OneTurn
    <2>6. \A p \in Items : AckHolder(p)'
      BY <1>0, <2>1, <2>3, <2>5, SameHolders DEF TurnFrame
    <2>7. PendingTargetsCurrentTurn'
      BY <1>0, <2>1, <2>3, SamePending DEF TurnFrame
    <2>8. \/ \E j \in Turns : turn'[j].watchPreempt = "receive"
          \/ /\ preemptCtrl'.notify = preemptCtrl.notify
             /\ \A j \in Turns : turn[j].watchPreempt = "receive" => turn'[j].watchPreempt = "receive"
      BY <2>3 DEF PreemptMoves, OneTurn
    <2>9. NotifyNotLost'
      BY <1>0, <2>3, <2>4, <2>5, <2>8, SignalsKept
    <2> QED
      BY <1>0, <2>1, <2>2, <2>3, <2>4, <2>6, <2>7, <2>9 DEF TurnKept, PreemptMoves
  <1>5. ASSUME NEW k \in Turns, ReceivePreempt(k)
        PROVE  TurnKept(k)
    <2>1. TurnFrame /\ UNCHANGED <<stopCtrl, stopper, timers, ack, flags, late, captured>>
      BY <1>5 DEF ReceivePreempt, TurnFrame, pushVars, stopVars, saveVars
    <2>2. FlagsType' /\ flags'.started = flags.started /\ AckType'
      BY <1>0, <2>1 DEF FlagsType, AckType
    <2>3. /\ SameTurn /\ preemptCtrl'.pushInFlight = preemptCtrl.pushInFlight
          /\ \/ /\ preemptCtrl'.pending = {}
                /\ PreemptMoves(k, "receive", "submit", preemptCtrl.pending)
             \/ /\ ~(preemptCtrl.phase = "active" /\ preemptCtrl.pending # {})
                /\ UNCHANGED preemptCtrl
                /\ PreemptMoves(k, "receive", "select", {})
      BY <1>0, <1>5, ReceivePreemptEffect
    <2>4. /\ SameTarget /\ stopCtrl'.pending = stopCtrl.pending
          /\ stopCtrl'.notify = stopCtrl.notify
      BY <1>0, <2>1, SameStopCtrl
    <2>5. UNCHANGED pusher /\ \A j \in Turns : turn'[j].watchStop = turn[j].watchStop
      BY <2>1, <2>3 DEF PreemptMoves, OneTurn, TurnFrame
    <2>6. \A p \in Items : AckHolder(p)'
      <3> SUFFICES ASSUME NEW p \in Items PROVE AckHolder(p)'
        OBVIOUS
      <3>1. AckHolder(p) /\ (Unrequested(p)' <=> Unrequested(p)) /\ ack'[p] = ack[p]
        BY <1>0, <2>1, <2>5 DEF Unrequested
      <3>2. p \in preemptCtrl.pending => ~Unrequested(p) /\ ack[p] = "open"
        BY <1>0, <3>1 DEF AckHolder, PendingTargetsCurrentTurn
      <3>3. CASE /\ preemptCtrl'.pending = {}
                 /\ PreemptMoves(k, "receive", "submit", preemptCtrl.pending)
        <4>1. p \notin preemptCtrl'.pending
          BY <3>3
        <4>2. turn'[k].request = preemptCtrl.pending
              /\ \A j \in Turns \ {k} : turn'[j].request = turn[j].request
          BY <3>3 DEF PreemptMoves, OneTurn
        <4>3. CASE p \in preemptCtrl.pending
          <5>1. \A j \in Turns : p \in turn'[j].request => j = k
            BY <3>1, <4>2, <4>3 DEF AckHolder
          <5> QED
            BY <2>5, <3>1, <3>2, <4>1, <4>3, <5>1 DEF AckHolder
        <4>4. CASE p \notin preemptCtrl.pending
          <5>1. \A j \in Turns : p \in turn'[j].request => p \in turn[j].request
            BY <4>2, <4>4
          <5> QED
            BY <2>5, <3>1, <4>1, <5>1 DEF AckHolder
        <4> QED
          BY <4>3, <4>4
      <3>4. CASE UNCHANGED preemptCtrl /\ PreemptMoves(k, "receive", "select", {})
        <4>1. \A j \in Turns : p \in turn'[j].request => p \in turn[j].request
          BY <3>4 DEF PreemptMoves, OneTurn
        <4> QED
          BY <2>5, <3>1, <3>4, <4>1 DEF AckHolder
      <3> QED
        BY <2>3, <3>3, <3>4
    <2>7. PendingTargetsCurrentTurn'
      <3>1. CASE preemptCtrl'.pending = {}
        BY <3>1 DEF PendingTargetsCurrentTurn
      <3>2. CASE UNCHANGED preemptCtrl
        BY <1>0, <2>1, <2>3, <3>2, SamePending DEF TurnFrame
      <3> QED
        BY <2>3, <3>1, <3>2
    <2>8. preemptCtrl'.phase # "active" \/ preemptCtrl'.pending = {}
      BY <2>3 DEF SameTurn
    <2>9. NotifyNotLost'
      BY <1>0, <2>3, <2>4, <2>5, <2>8, SignalsKept
    <2> QED
      BY <1>0, <2>1, <2>2, <2>3, <2>4, <2>6, <2>7, <2>9 DEF TurnKept, PreemptMoves
  <1>6. ASSUME NEW k \in Turns, AckPreempt(k)
        PROVE  TurnKept(k)
    <2>1. TurnFrame /\ UNCHANGED <<preemptCtrl, stopCtrl, stopper, timers, flags, late, captured>>
      BY <1>6 DEF AckPreempt, TurnFrame, stopVars, saveVars
    <2>2. FlagsType' /\ flags'.started = flags.started
      BY <1>0, <2>1 DEF FlagsType
    <2>3. PreemptMoves(k, "ack", "select", {}) /\ CloseAcks(turn[k].request)
      BY <1>0, <1>6, AckPreemptEffect
    <2>4. /\ SameTarget /\ stopCtrl'.pending = stopCtrl.pending
          /\ stopCtrl'.notify = stopCtrl.notify
      BY <1>0, <2>1, SameStopCtrl
    <2>5. SameTurn /\ SameRequests /\ preemptCtrl'.pushInFlight = preemptCtrl.pushInFlight
      BY <1>0, <2>1, SameController
    <2>6. UNCHANGED pusher /\ \A j \in Turns : turn'[j].watchStop = turn[j].watchStop
      BY <2>1, <2>3 DEF PreemptMoves, OneTurn, TurnFrame
    <2>7. turn[k].request \in SUBSET Items
      BY <1>0 DEF StateType, TurnType
    <2>8. /\ AckType'
          /\ \A q \in Items \ turn[k].request : ack'[q] = ack[q]
          /\ \A q \in turn[k].request : ack'[q] = "closed"
      <3>1. \A q \in turn[k].request : ack[q] = "open"
        BY <1>0, <2>7 DEF AckHolder
      <3> QED
        BY <1>0, <2>3, <2>7, <3>1, CloseAcksEffect
    <2>9. \A p \in Items : AckHolder(p)'
      <3> SUFFICES ASSUME NEW p \in Items PROVE AckHolder(p)'
        OBVIOUS
      <3>1. AckHolder(p) /\ (Unrequested(p)' <=> Unrequested(p))
        BY <1>0, <2>6 DEF Unrequested
      <3>2. turn'[k].request = {} /\ \A j \in Turns \ {k} : turn'[j].request = turn[j].request
        BY <2>3 DEF PreemptMoves, OneTurn
      <3>3. CASE p \in turn[k].request
        <4>1. \A j \in Turns : p \notin turn'[j].request
          BY <3>1, <3>2, <3>3 DEF AckHolder
        <4>2. ack'[p] = "closed" /\ ~Unrequested(p)' /\ ~Unrequested(p)
          BY <2>8, <3>1, <3>3 DEF AckHolder
        <4>3. pusher'[p].pc \notin {"request", "delay"}
          BY <2>6, <4>2 DEF Unrequested
        <4> QED
          BY <4>1, <4>2, <4>3 DEF AckHolder
      <3>4. CASE p \notin turn[k].request
        <4>1. \A j \in Turns : turn'[j].request = turn[j].request \/ turn'[j].request = {}
          BY <3>2
        <4> QED
          BY <2>1, <2>6, <2>8, <3>1, <3>4, <4>1 DEF AckHolder
      <3> QED
        BY <3>3, <3>4
    <2>10. PendingTargetsCurrentTurn'
      <3> SUFFICES ASSUME NEW p \in preemptCtrl.pending
                   PROVE  /\ preemptCtrl.phase # "idle"
                          /\ pusher[p].target /\ pusher[p].turnID = preemptCtrl.turnID
                          /\ ack'[p] = "open"
        BY <2>1, <2>6 DEF PendingTargetsCurrentTurn
      <3>1. p \in Items
        BY <1>0, PreemptType DEF PreemptRec
      <3>2. p \notin turn[k].request
        BY <1>0, <3>1 DEF AckHolder
      <3> QED
        BY <1>0, <2>8, <3>1, <3>2 DEF PendingTargetsCurrentTurn
    <2>11. \A j \in Turns : turn[j].watchPreempt = "receive" => turn'[j].watchPreempt = "receive"
      BY <2>3 DEF PreemptMoves, OneTurn
    <2>12. NotifyNotLost'
      BY <1>0, <2>4, <2>5, <2>6, <2>11, SignalsKept DEF SameRequests
    <2> QED
      BY <1>0, <2>1, <2>2, <2>3, <2>4, <2>5, <2>8, <2>9, <2>10, <2>12 DEF TurnKept, PreemptMoves
  <1>7. ASSUME NEW k \in Turns, WatchStop(k) \/ ReceiveCancel(k) \/ SubmitCancel(k)
        PROVE  TurnKept(k)
    <2>1. TurnFrame /\ UNCHANGED <<preemptCtrl, pusher, stopVars, ack, flags, late, captured>>
      BY <1>7 DEF WatchStop, ReceiveCancel, SubmitCancel, TurnFrame, pushVars, stopVars, saveVars
    <2>2. FlagsType' /\ flags'.started = flags.started /\ AckType'
      BY <1>0, <2>1 DEF FlagsType, AckType
    <2>3. SameTurn /\ SameRequests /\ preemptCtrl'.pushInFlight = preemptCtrl.pushInFlight
      BY <1>0, <2>1, SameController
    <2>4. /\ SameTarget
          /\ \E pc, next \in WatcherPcs :
                /\ StopMoves(k, pc, next)
                /\ \/ next = "receive" \/ ~stopCtrl'.pending
                   \/ ~(stopCtrl.hasTarget /\ stopCtrl.pending) /\ UNCHANGED stopCtrl
                   \/ pc # "receive" /\ UNCHANGED stopCtrl
      <3> USE DEF WatcherPcs
      <3>1. CASE WatchStop(k)
        BY <1>0, <2>1, <3>1, WatchStopEffect
      <3>2. CASE ReceiveCancel(k)
        BY <1>0, <2>1, <3>2, ReceiveCancelEffect
      <3>3. CASE SubmitCancel(k)
        <4>1. StopMoves(k, "submit", "select") /\ UNCHANGED stopCtrl
          BY <1>0, <3>3, SubmitCancelEffect DEF SubmitCancel
        <4>2. SameTarget
          BY <1>0, <2>1, <4>1, SameStopCtrl DEF stopVars
        <4> QED
          BY <4>1, <4>2
      <3> QED
        BY <1>7, <3>1, <3>2, <3>3
    <2>5. PICK pc \in WatcherPcs, next \in WatcherPcs :
                /\ StopMoves(k, pc, next)
                /\ \/ next = "receive" \/ ~stopCtrl'.pending
                   \/ ~(stopCtrl.hasTarget /\ stopCtrl.pending) /\ UNCHANGED stopCtrl
                   \/ pc # "receive" /\ UNCHANGED stopCtrl
      BY <2>4
    <2>6. \A j \in Turns : /\ turn'[j].request = turn[j].request
                           /\ turn'[j].watchPreempt = turn[j].watchPreempt
      BY <2>5 DEF StopMoves, OneTurn
    <2>7. \A p \in Items : AckHolder(p)'
      BY <1>0, <2>1, <2>3, <2>6, SameHolders DEF SameRequests
    <2>8. PendingTargetsCurrentTurn'
      BY <1>0, <2>1, <2>3, SamePending DEF SameRequests
    <2>9. \/ ~stopCtrl'.hasTarget \/ ~stopCtrl'.pending
          \/ /\ stopCtrl'.pending = stopCtrl.pending
             /\ stopCtrl'.notify = stopCtrl.notify
             /\ \A j \in Turns : turn[j].watchStop = "receive" => turn'[j].watchStop = "receive"
          \/ \E j \in Turns : turn'[j].watchStop = "receive"
      BY <2>5 DEF StopMoves, OneTurn
    <2>10. NotifyNotLost'
      BY <1>0, <2>3, <2>4, <2>6, <2>9, SignalsKept DEF SameRequests
    <2> QED
      BY <1>0, <2>1, <2>2, <2>3, <2>4, <2>5, <2>7, <2>8, <2>10 DEF TurnKept, StopMoves
  <1>8. ASSUME NEW k \in Turns, SubmitPreempt(k) \/ ClosePreemptDone(k)
        PROVE  TurnKept(k)
    <2>1. TurnFrame /\ UNCHANGED <<preemptCtrl, stopCtrl, stopper, timers, ack, flags, late,
                                   captured>>
      BY <1>8 DEF SubmitPreempt, ClosePreemptDone, TurnFrame, pushVars, stopVars, saveVars
    <2>2. FlagsType' /\ flags'.started = flags.started /\ AckType'
      BY <1>0, <2>1 DEF FlagsType, AckType
    <2>3. PICK pc \in {"submit", "close"}, next \in {"close", "ack"} :
             PreemptMoves(k, pc, next, turn[k].request)
      BY <1>0, <1>8, SubmitPreemptEffect
    <2>4. /\ SameTarget /\ stopCtrl'.pending = stopCtrl.pending
          /\ stopCtrl'.notify = stopCtrl.notify
      BY <1>0, <2>1, SameStopCtrl
    <2>5. SameTurn /\ SameRequests /\ preemptCtrl'.pushInFlight = preemptCtrl.pushInFlight
      BY <1>0, <2>1, SameController
    <2>6. \A j \in Turns : /\ turn'[j].request = turn[j].request
                           /\ turn'[j].watchStop = turn[j].watchStop
      BY <2>3 DEF PreemptMoves, OneTurn
    <2>7. \A p \in Items : AckHolder(p)'
      BY <1>0, <2>1, <2>5, <2>6, SameHolders DEF TurnFrame, SameRequests
    <2>8. PendingTargetsCurrentTurn'
      BY <1>0, <2>1, <2>5, SamePending DEF TurnFrame, SameRequests
    <2>9. \A j \in Turns : turn[j].watchPreempt = "receive" => turn'[j].watchPreempt = "receive"
      BY <2>3 DEF PreemptMoves, OneTurn
    <2>10. NotifyNotLost'
      BY <1>0, <2>4, <2>5, <2>6, <2>9, SignalsKept DEF SameRequests
    <2> QED
      BY <1>0, <2>1, <2>2, <2>3, <2>4, <2>5, <2>7, <2>8, <2>10 DEF TurnKept, PreemptMoves
  <1> QED
    BY <1>1, <1>2, <1>3, <1>4, <1>5, <1>6, <1>7, <1>8, TurnKeeps DEF TurnSteps, WatchStep

-----------------------------------------------------------------------------
(* run *)

OtherTypes ==
    /\ BufferType /\ StopType /\ FlagsType
    /\ captured \subseteq {"cancel", "contexts"} /\ runnerBytes \in BOOLEAN
    /\ store.state \in AllStores

LEMMA TypesOfRun == ASSUME StateType PROVE LoopType /\ OtherTypes
  BY DEF StateType, CtrlType, CallersType, OtherTypes, StopType, FlagsType

LEMMA GotoEffect ==
  ASSUME LoopType, NEW pc \in LoopPcs, Goto(pc)
  PROVE  LoopType' /\ loop'.pc = pc
  BY DEF Goto, LoopType

LEMMA LeaveEffect ==
  ASSUME LoopType, NEW err \in LoopErrs, Leave(err)
  PROVE  LoopType' /\ loop'.pc = "cleanup"
  <1>1. "cleanup" \in LoopPcs
    BY DEF LoopPcs
  <1> QED
    BY <1>1 DEF Leave, LoopType

\* The loop goes on, and neither controller hears of it: it stays in the phase it
\* is in, and plans no turn.
QuietStep ==
    /\ UNCHANGED <<preemptCtrl, stopCtrl, pusher, ack, turn>>
    /\ LoopType' /\ OtherTypes' /\ flags'.started
    /\ loop.pc \notin PlanningPcs
    /\ loop'.pc \notin PlanningPcs \cup {"beginStop", "panic"}
    /\ loop'.pc \in ActivePcs <=> loop.pc \in ActivePcs

LEMMA QuietKeeps ==
  ASSUME IInv, QuietStep
  PROVE  IInv'
  <1> USE DEF QuietStep
  <1>1. Stages'
    BY DEF IInv, Stages
  <1>2. \A p \in Items : PushPath(p)' /\ AckHolder(p)'
    BY DEF IInv, PushPath, AckHolder, Unrequested
  <1>3. PushesCounted' /\ PendingTargetsCurrentTurn' /\ NotifyNotLost'
    BY DEF IInv, PushesCounted, PendingTargetsCurrentTurn, NotifyNotLost
  <1>4. Ahead'
    BY DEF IInv, Ahead, NotStarted, PlanningPcs
  <1>5. AfterStopPlanned'
    BY DEF IInv, AfterStopPlanned, PlanningPcs
  <1>6. StateType'
    BY DEF IInv, StateType, CtrlType, CallersType, TurnType, OtherTypes, StopType, FlagsType
  <1> QED
    BY <1>1, <1>2, <1>3, <1>4, <1>5, <1>6 DEF IInv

\* The program counter moves along with what QuietStep leaves free.
LEMMA StartedAt ==
  ASSUME IInv, loop.pc # "new"
  PROVE  flags.started
  BY DEF IInv, Stages

ReceiveSteps ==
    \/ LoadCheckpoint \/ Top \/ ChooseMode \/ Receive \/ NothingReceived
    \/ DisarmIdleTimer \/ IdleCheck \/ Received \/ WaitForPushes \/ TakeItems

\* Before a turn is planned.
LEMMA ReceiveStepsQuiet ==
  ASSUME IInv, Run \/ ReceiveSteps
  PROVE  QuietStep
  <1>0. StateType /\ LoopType /\ OtherTypes
    BY TypesOfRun DEF IInv
  <1> DEFINE BeforePcs == {"new", "load", "top", "mode", "receive", "empty", "disarm", "idleCheck",
                           "got", "wait", "take", "plan", "cleanup"}
             Frame == UNCHANGED <<preemptCtrl, stopCtrl, pusher, ack, turn>>
             Stays == Frame /\ LoopType' /\ loop.pc \in BeforePcs /\ loop'.pc \in BeforePcs
  <1>a. ASSUME Stays, OtherTypes', flags'.started PROVE QuietStep
    BY <1>a DEF QuietStep, PlanningPcs, ActivePcs
  <1>b. BeforePcs \subseteq LoopPcs
    BY DEF LoopPcs
  <1>c. {"none", "load", "ctx"} \subseteq LoopErrs /\ CtxErr \in {"none", "ctx"}
    BY DEF LoopErrs, CtxErr
  <1>d. ASSUME UNCHANGED <<stopVars, stopCtrl, flags, late, captured, runnerBytes, store>>, BufferType'
        PROVE  OtherTypes'
    BY <1>0, <1>d DEF OtherTypes, StopType, FlagsType, stopVars
  <1>e. UNCHANGED buffer => BufferType'
    BY <1>0 DEF OtherTypes, BufferType
  <1> USE DEF At, pushVars, turnVars, saveVars
  <1>1. CASE Run
    <2>1. Stays
      <3>1. loop.pc = "new"
        BY <1>1 DEF Run, IInv, Stages
      <3>2. Goto("load") /\ Frame
        BY <1>1 DEF Run
      <3> QED
        BY <1>0, <1>b, <3>1, <3>2, GotoEffect
    <2>2. OtherTypes' /\ flags'.started
      <3>1. UNCHANGED <<buffer, stopVars, stopCtrl, late, captured, runnerBytes, store>>
        BY <1>1 DEF Run
      <3>2. FlagsType' /\ flags'.started
        BY <1>0, <1>1, <3>1 DEF Run, OtherTypes, FlagsType
      <3>3. StopType'
        BY <1>0, <3>1 DEF OtherTypes, StopType, stopVars
      <3> QED
        BY <1>0, <1>e, <3>1, <3>2, <3>3 DEF OtherTypes
    <2> QED
      BY <1>a, <2>1, <2>2
  <1>2. CASE LoadCheckpoint
    <2>0. UNCHANGED <<stopVars, stopCtrl, flags, late, captured, runnerBytes, store>> /\ Frame
          /\ loop.pc = "load"
      BY <1>2 DEF LoadCheckpoint
    <2>1. LoopType' /\ loop'.pc \in {"cleanup", "top"} /\ BufferType'
      <3>1. CASE Leave("load") /\ UNCHANGED buffer
        BY <1>0, <1>c, <1>e, <3>1, LeaveEffect
      <3>2. CASE Goto("top") /\ (UNCHANGED buffer \/ PushFront(store.unhandled))
        <4>1. BufferType'
          BY <1>0, <3>2 DEF OtherTypes, BufferType, PushFront
        <4> QED
          BY <1>0, <1>b, <3>2, <4>1, GotoEffect
      <3>3. CASE TakeAll /\ loop' = [loop EXCEPT !.pc = "top", !.resume = "pending",
                        !.hand = store.canceled \o store.unhandled \o buffer.buf]
        <4>1. BufferType'
          BY <1>0, <3>3 DEF OtherTypes, BufferType, TakeAll
        <4>2. LoopType' /\ loop'.pc = "top"
          BY <1>0, <1>b, <3>3 DEF LoopType
        <4> QED
          BY <4>1, <4>2
      <3> QED
        BY <1>2, <3>1, <3>2, <3>3 DEF LoadCheckpoint
    <2> QED
      BY <1>a, <1>d, <2>0, <2>1, StartedAt
  <1>3. CASE Top
    <2>0. UNCHANGED <<stopVars, stopCtrl, flags, late, captured, runnerBytes, store, buffer>> /\ Frame
          /\ loop.pc = "top"
      BY <1>3 DEF Top
    <2>1. LoopType' /\ loop'.pc \in {"cleanup", "wait", "mode"}
      BY <1>0, <1>b, <1>c, <1>3, GotoEffect, LeaveEffect DEF Top
    <2> QED
      BY <1>a, <1>d, <1>e, <2>0, <2>1, StartedAt
  <1>4. CASE ChooseMode
    <2>0. UNCHANGED <<stopCtrl, flags, late, captured, runnerBytes, store, stopper>> /\ Frame
          /\ loop.pc = "mode"
      BY <1>4 DEF ChooseMode
    <2> DEFINE idle == stopCtrl.phase = "idleWaiting"
               woken == buffer.woken /\ ~idle
    <2>1. idle \in BOOLEAN /\ woken \in BOOLEAN
      OBVIOUS
    <2>2. /\ loop' = [loop EXCEPT !.pc = "receive", !.idle = idle]
          /\ timers' = [timers EXCEPT !.idle = idle]
          /\ buffer' = [buffer EXCEPT !.woken = woken]
      BY <1>4 DEF ChooseMode
    <2> HIDE DEF idle, woken
    <2>3. LoopType' /\ loop'.pc = "receive"
      BY <1>0, <1>b, <2>1, <2>2 DEF LoopType
    <2>4. BufferType'
      BY <1>0, <2>1, <2>2 DEF OtherTypes, BufferType
    <2>5. StopType'
      BY <1>0, <2>0, <2>1, <2>2 DEF OtherTypes, StopType
    <2>6. OtherTypes'
      BY <1>0, <2>0, <2>4, <2>5 DEF OtherTypes, FlagsType
    <2> QED
      BY <1>a, <2>0, <2>3, <2>6, StartedAt
  <1>5. CASE Receive
    <2>0. UNCHANGED <<stopVars, stopCtrl, flags, late, captured, runnerBytes, store>> /\ Frame
          /\ loop.pc = "receive"
      BY <1>5 DEF Receive
    <2>1. LoopType' /\ loop'.pc \in {"disarm", "got", "empty"}
      BY <1>0, <1>b, <1>5 DEF Receive, LoopType
    <2>2. BufferType'
      BY <1>0, <1>5 DEF Receive, OtherTypes, BufferType
    <2> QED
      BY <1>a, <1>d, <2>0, <2>1, <2>2, StartedAt
  <1>6. CASE NothingReceived
    <2>0. UNCHANGED <<stopVars, stopCtrl, flags, late, captured, runnerBytes, store, buffer>> /\ Frame
          /\ loop.pc = "empty"
      BY <1>6 DEF NothingReceived
    <2>1. LoopType' /\ loop'.pc \in {"cleanup", "top"}
      BY <1>0, <1>b, <1>c, <1>6, GotoEffect, LeaveEffect DEF NothingReceived
    <2> QED
      BY <1>a, <1>d, <1>e, <2>0, <2>1, StartedAt
  <1>7. CASE DisarmIdleTimer
    <2>0. UNCHANGED <<stopCtrl, flags, late, captured, runnerBytes, store, stopper, buffer>> /\ Frame
          /\ loop.pc = "disarm"
      BY <1>7 DEF DisarmIdleTimer
    <2>1. LoopType' /\ loop'.pc = "idleCheck"
      BY <1>0, <1>b, <1>7, GotoEffect DEF DisarmIdleTimer
    <2>2. StopType'
      BY <1>0, <1>7, <2>0 DEF DisarmIdleTimer, OtherTypes, StopType
    <2>3. OtherTypes'
      BY <1>0, <1>e, <2>0, <2>2 DEF OtherTypes, FlagsType
    <2> QED
      BY <1>a, <2>0, <2>1, <2>3, StartedAt
  <1>8. CASE IdleCheck
    <2>0. UNCHANGED <<stopVars, stopCtrl, flags, late, captured, runnerBytes, store, buffer>> /\ Frame
          /\ loop.pc = "idleCheck"
      BY <1>8 DEF IdleCheck
    <2>1. LoopType' /\ loop'.pc \in {"cleanup", "top", "got"}
      BY <1>0, <1>b, <1>c, <1>8, GotoEffect, LeaveEffect DEF IdleCheck
    <2> QED
      BY <1>a, <1>d, <1>e, <2>0, <2>1, StartedAt
  <1>9. CASE Received
    <2>0. UNCHANGED <<stopVars, stopCtrl, flags, late, captured, runnerBytes, store>> /\ Frame
          /\ loop.pc = "got"
      BY <1>9 DEF Received
    <2>1. LoopType' /\ loop'.pc \in {"cleanup", "wait"}
      BY <1>0, <1>b, <1>c, <1>9, GotoEffect, LeaveEffect DEF Received
    <2>2. BufferType'
      BY <1>0, <1>9 DEF Received, OtherTypes, BufferType, PushFront
    <2> QED
      BY <1>a, <1>d, <2>0, <2>1, <2>2, StartedAt
  <1>10. CASE WaitForPushes
    <2>0. UNCHANGED <<stopVars, stopCtrl, flags, late, captured, runnerBytes, store, buffer>> /\ Frame
          /\ loop.pc = "wait"
      BY <1>10 DEF WaitForPushes
    <2>1. LoopType' /\ loop'.pc = "take"
      BY <1>0, <1>b, <1>10, GotoEffect DEF WaitForPushes
    <2> QED
      BY <1>a, <1>d, <1>e, <2>0, <2>1, StartedAt
  <1>11. CASE TakeItems
    <2>0. UNCHANGED <<stopVars, stopCtrl, flags, late, captured, runnerBytes, store>> /\ Frame
          /\ loop.pc = "take"
      BY <1>11 DEF TakeItems
    <2>1. LoopType' /\ loop'.pc = "plan"
      BY <1>0, <1>b, <1>11 DEF TakeItems, LoopType
    <2>2. BufferType'
      BY <1>0, <1>11 DEF TakeItems, TakeAll, OtherTypes, BufferType
    <2> QED
      BY <1>a, <1>d, <2>0, <2>1, <2>2, StartedAt
  <1> QED
    BY <1>1, <1>2, <1>3, <1>4, <1>5, <1>6, <1>7, <1>8, <1>9, <1>10, <1>11 DEF ReceiveSteps

EndSteps ==
    \/ FinishTurn \/ FinishPreempted \/ AfterTurn
    \/ StopPushes \/ TakeUnhandled \/ SaveCheckpoint \/ Finish

\* The end of a turn, and cleanup, but for what they tell the controllers.
LEMMA EndStepsQuiet ==
  ASSUME IInv, EndSteps
  PROVE  QuietStep
  <1>0. StateType /\ LoopType /\ OtherTypes
    BY TypesOfRun DEF IInv
  <1> DEFINE TurnPcs == {"active", "preempting", "endStop"}
             EndPcs == {"after", "top", "cleanup", "takeAll", "save", "closeStop", "closeBuffer", "done"}
             Frame == UNCHANGED <<preemptCtrl, stopCtrl, pusher, ack, turn, stopVars, late>>
             Stays == /\ Frame /\ LoopType'
                      /\ \/ loop.pc \in TurnPcs /\ loop'.pc \in TurnPcs
                         \/ loop.pc \in EndPcs /\ loop'.pc \in EndPcs
  <1>a. ASSUME Stays, OtherTypes', flags'.started PROVE QuietStep
    BY <1>a DEF QuietStep, PlanningPcs, ActivePcs
  <1>b. TurnPcs \cup EndPcs \subseteq LoopPcs
    BY DEF LoopPcs
  <1>c. ASSUME Frame, BufferType', UNCHANGED <<flags, captured, store>>, runnerBytes' \in BOOLEAN
        PROVE  OtherTypes'
    BY <1>0, <1>c DEF OtherTypes, StopType, FlagsType, stopVars
  <1>d. UNCHANGED buffer => BufferType'
    BY <1>0 DEF OtherTypes, BufferType
  <1>e. runnerBytes \in BOOLEAN
    BY <1>0 DEF OtherTypes
  <1>f. loop.pc # "new" => flags.started
    BY StartedAt
  <1> USE DEF At, pushVars, turnVars, saveVars
  <1>1. CASE FinishTurn
    <2>0. Frame /\ loop.pc = "active" /\ UNCHANGED <<buffer, flags, captured, store>>
      BY <1>1 DEF FinishTurn
    <2>1. preemptCtrl.turnID \in Turns
      BY <2>0 DEF IInv, Stages, ActivePcs, PlanningPcs
    <2>2. turn[preemptCtrl.turnID].err \in {"none", "err"} /\ turn[preemptCtrl.turnID].bytes \in BOOLEAN
      BY <1>0, <2>1 DEF StateType, TurnType
    <2>3. LoopType' /\ loop'.pc = "endStop"
      <3>1. CASE Goto("endStop")
        BY <1>0, <1>b, <3>1, GotoEffect
      <3>2. CASE \E err \in LoopErrs : loop' = [loop EXCEPT !.pc = "endStop", !.err = err]
        BY <1>0, <1>b, <3>2 DEF LoopType
      <3>3. Goto("endStop") \/ \E err \in LoopErrs : loop' = [loop EXCEPT !.pc = "endStop", !.err = err]
        BY <1>1, <2>2 DEF FinishTurn, LoopErrs
      <3> QED
        BY <3>1, <3>2, <3>3
    <2>4. runnerBytes' \in BOOLEAN
      BY <1>1, <1>e, <2>2 DEF FinishTurn
    <2> QED
      BY <1>a, <1>c, <1>d, <1>f, <2>0, <2>3, <2>4
  <1>2. CASE FinishPreempted
    <2>0. Frame /\ loop.pc = "preempting" /\ UNCHANGED <<buffer, flags, captured, store, runnerBytes>>
      BY <1>2 DEF FinishPreempted
    <2>1. LoopType' /\ loop'.pc = "endStop"
      BY <1>0, <1>2, <1>b, GotoEffect DEF FinishPreempted
    <2> QED
      BY <1>a, <1>c, <1>d, <1>e, <1>f, <2>0, <2>1
  <1>3. CASE AfterTurn
    <2>0. Frame /\ loop.pc = "after" /\ UNCHANGED <<buffer, flags, captured, store, runnerBytes>>
      BY <1>3 DEF AfterTurn
    <2>1. LoopType' /\ loop'.pc \in {"cleanup", "top"}
      <3>1. {"interrupt", loop.err} \subseteq LoopErrs
        BY <1>0 DEF LoopType, LoopErrs
      <3> QED
        BY <1>0, <1>3, <1>b, <3>1 DEF AfterTurn, LoopType
    <2> QED
      BY <1>a, <1>c, <1>d, <1>e, <1>f, <2>0, <2>1
  <1>4. CASE StopPushes
    <2>0. Frame /\ loop.pc = "cleanup" /\ UNCHANGED <<buffer, captured, store, runnerBytes>>
      BY <1>4 DEF StopPushes
    <2>1. LoopType' /\ loop'.pc = "takeAll"
      BY <1>0, <1>4, <1>b, GotoEffect DEF StopPushes
    <2>2. FlagsType' /\ flags'.started
      BY <1>0, <1>4, <1>f, <2>0 DEF StopPushes, OtherTypes, FlagsType
    <2>3. OtherTypes'
      BY <1>0, <1>d, <1>e, <2>0, <2>2 DEF OtherTypes, StopType, stopVars
    <2> QED
      BY <1>a, <2>0, <2>1, <2>2, <2>3
  <1>5. CASE TakeUnhandled
    <2>0. Frame /\ loop.pc = "takeAll" /\ UNCHANGED <<flags, captured, store, runnerBytes>>
      BY <1>5 DEF TakeUnhandled
    <2>1. LoopType' /\ loop'.pc = "save"
      BY <1>0, <1>5, <1>b, GotoEffect DEF TakeUnhandled
    <2>2. BufferType'
      BY <1>0, <1>5 DEF TakeUnhandled, TakeAll, OtherTypes, BufferType
    <2> QED
      BY <1>a, <1>c, <1>e, <1>f, <2>0, <2>1, <2>2
  <1>6. CASE SaveCheckpoint
    <2>0. Frame /\ loop.pc = "save" /\ UNCHANGED <<buffer, flags, captured, runnerBytes>>
      BY <1>6 DEF SaveCheckpoint
    <2>1. LoopType' /\ loop'.pc = "closeStop"
      BY <1>0, <1>6, <1>b, GotoEffect DEF SaveCheckpoint
    <2>2. store'.state \in AllStores
      <3>1. store.state \in AllStores
        BY <1>0 DEF OtherTypes
      <3>2. \/ store' = store
            \/ store' = [state |-> "empty", canceled |-> <<>>, unhandled |-> <<>>]
            \/ store' = [state     |-> IF runnerBytes THEN "runner" ELSE "bare",
                         canceled  |-> result.interrupted,
                         unhandled |-> result.unhandled]
        BY <1>6 DEF SaveCheckpoint
      <3> QED
        BY <3>1, <3>2 DEF AllStores
    <2>3. OtherTypes'
      BY <1>0, <1>d, <2>0, <2>2 DEF OtherTypes, StopType, FlagsType, stopVars
    <2> QED
      BY <1>a, <1>f, <2>0, <2>1, <2>3
  <1>7. CASE Finish
    <2>0. Frame /\ loop.pc = "closeBuffer" /\ UNCHANGED <<captured, store, runnerBytes>>
      BY <1>7 DEF Finish
    <2>1. LoopType' /\ loop'.pc = "done"
      BY <1>0, <1>7, <1>b, GotoEffect DEF Finish
    <2>2. FlagsType' /\ flags'.started
      BY <1>0, <1>7, <1>f, <2>0 DEF Finish, OtherTypes, FlagsType
    <2>3. BufferType'
      BY <1>0, <1>7 DEF Finish, CloseBuffer, OtherTypes, BufferType
    <2>4. OtherTypes'
      BY <1>0, <1>e, <2>0, <2>2, <2>3 DEF OtherTypes, StopType, stopVars
    <2> QED
      BY <1>a, <2>0, <2>1, <2>2, <2>4
  <1> QED
    BY <1>1, <1>2, <1>3, <1>4, <1>5, <1>6, <1>7 DEF EndSteps

\* The other steps of run tell a controller, or the turn, of it.
ToldStep ==
    /\ UNCHANGED pusher
    /\ preemptCtrl' \in PreemptRec /\ preemptCtrl'.pushInFlight = preemptCtrl.pushInFlight
    /\ LoopType' /\ OtherTypes' /\ TurnType' /\ AckType' /\ flags'.started
    /\ Stages' /\ Ahead' /\ AfterStopPlanned'
    /\ PendingTargetsCurrentTurn' /\ NotifyNotLost'
    /\ \A p \in Items : AckHolder(p)'

LEMMA ToldKeeps ==
  ASSUME IInv, ToldStep, UNCHANGED <<stopVars, late>>
  PROVE  IInv'
  <1> USE DEF ToldStep
  <1>1. \A p \in Items : PushPath(p)'
    BY DEF IInv, PushPath
  <1>2. PushesCounted'
    BY DEF IInv, PushesCounted
  <1>3. preemptCtrl'.pushInFlight \in 0..Cardinality(Items)
    BY DEF IInv, StateType, CtrlType
  <1>4. CtrlType'
    BY <1>3 DEF CtrlType, PreemptRec, OtherTypes, StopType, FlagsType
  <1>5. CallersType'
    BY DEF IInv, StateType, CallersType, AckType, stopVars
  <1>6. StateType'
    BY <1>4, <1>5 DEF StateType, OtherTypes
  <1> QED
    BY <1>1, <1>2, <1>6 DEF IInv

\* The acks of what was pending are closed, once.
LEMMA ClearPending ==
  ASSUME IInv, preemptCtrl'.pending = {}, CloseAcks(preemptCtrl.pending),
         UNCHANGED <<pusher, turn>>
  PROVE  /\ AckType' /\ PendingTargetsCurrentTurn'
         /\ \A p \in Items : AckHolder(p)'
  <1>0. AckType /\ preemptCtrl.pending \in SUBSET Items
    BY PusherTypes, PreemptType DEF IInv, PreemptRec
  <1>1. \A p \in preemptCtrl.pending : ack[p] = "open"
    BY DEF IInv, PendingTargetsCurrentTurn
  <1>2. /\ AckType'
        /\ \A q \in Items \ preemptCtrl.pending : ack'[q] = ack[q]
        /\ \A q \in preemptCtrl.pending : ack'[q] = "closed"
    BY <1>0, <1>1, CloseAcksEffect
  <1>3. PendingTargetsCurrentTurn'
    BY DEF PendingTargetsCurrentTurn
  <1>4. ASSUME NEW p \in Items PROVE AckHolder(p)'
    <2>1. AckHolder(p) /\ (Unrequested(p)' <=> Unrequested(p))
      BY DEF IInv, Unrequested
    <2>2. CASE p \in preemptCtrl.pending
      <3>1. ~Unrequested(p) /\ \A k \in Turns : p \notin turn[k].request
        BY <2>1, <2>2 DEF AckHolder
      <3>2. pusher'[p].pc \notin {"request", "delay"}
        BY <3>1 DEF Unrequested
      <3> QED
        BY <1>2, <2>2, <3>1, <3>2 DEF AckHolder
    <2>3. CASE p \notin preemptCtrl.pending
      BY <1>2, <2>1, <2>3 DEF AckHolder
    <2> QED
      BY <2>2, <2>3
  <1> QED
    BY <1>2, <1>3, <1>4

\* What holds before every step of run.
LEMMA RunFacts ==
  ASSUME IInv
  PROVE  /\ LoopType /\ OtherTypes /\ TurnType /\ AckType /\ preemptCtrl \in PreemptRec
         /\ {"none", "gen", "resume"} \subseteq LoopErrs
         /\ {"cleanup", "planning", "begin", "beginStop", "active", "preempting", "endStop",
             "endPreempt", "after", "closePreempt", "closeBuffer"} \subseteq LoopPcs
  BY TypesOfRun, PusherTypes, PreemptType DEF IInv, StateType, LoopErrs, LoopPcs

LEMMA StageAt ==
  ASSUME IInv
  PROVE  /\ loop.pc \in PlanningPcs => preemptCtrl.phase = "planning"
         /\ loop.pc \in ActivePcs => preemptCtrl.phase = "active"
         /\ loop.pc \notin PlanningPcs \cup ActivePcs =>
                preemptCtrl.phase = "idle" /\ preemptCtrl.pending = {}
         /\ loop.pc \in PlanningPcs \cup ActivePcs => preemptCtrl.turnID \in Turns
         /\ loop.pc # "new" => flags.started
  <1>1. /\ loop.pc \in PlanningPcs => preemptCtrl.phase = "planning"
        /\ loop.pc \in ActivePcs => preemptCtrl.phase = "active"
        /\ loop.pc \notin PlanningPcs \cup ActivePcs => preemptCtrl.phase = "idle"
        /\ loop.pc # "new" => flags.started
    BY DEF IInv, Stages, PlanningPcs, ActivePcs
  <1>2. preemptCtrl.phase = "idle" => preemptCtrl.pending = {}
    BY PreemptType DEF IInv, PendingTargetsCurrentTurn, PreemptRec
  <1>3. preemptCtrl.phase # "idle" => preemptCtrl.turnID \in Turns
    BY DEF IInv, Stages
  <1> QED
    BY <1>1, <1>2, <1>3

LEMMA BeginPlanningTurnKeeps ==
  ASSUME IInv, BeginPlanningTurn
  PROVE  ToldStep /\ UNCHANGED <<stopVars, late>>
  <1> DEFINE k == preemptCtrl.turnID + 1
  <1>0. /\ UNCHANGED <<pusher, stopVars, late, ack, stopCtrl, flags, buffer, captured, runnerBytes, store>>
        /\ loop.pc = "plan" /\ k \in Turns
    BY DEF BeginPlanningTurn, At, pushVars, saveVars
  <1>1. preemptCtrl.phase = "idle" /\ preemptCtrl.pending = {} /\ flags.started
    BY <1>0, StageAt DEF PlanningPcs, ActivePcs
  <1>2. LoopType' /\ loop'.pc = "planning"
    BY <1>1, RunFacts, GotoEffect DEF BeginPlanningTurn
  <1>3. /\ preemptCtrl' \in PreemptRec /\ preemptCtrl'.pushInFlight = preemptCtrl.pushInFlight
        /\ preemptCtrl'.phase = "planning" /\ preemptCtrl'.turnID = k
        /\ preemptCtrl'.pending = {} /\ preemptCtrl'.notify = preemptCtrl.notify
    <2>1. preemptCtrl' = [preemptCtrl EXCEPT !.turnID = k, !.phase = "planning"]
      BY DEF BeginPlanningTurn
    <2>2. k \in 0..MaxTurns
      BY <1>0, TurnNumbers DEF Turns
    <2> HIDE DEF k
    <2> QED
      BY <1>1, <2>1, <2>2, RunFacts DEF PreemptRec
  <1> DEFINE afterStop == Committed
             r == [turn[k] EXCEPT !.afterStop = afterStop]
  <1>4. turn' = [turn EXCEPT ![k] = r] /\ afterStop \in BOOLEAN
    BY DEF BeginPlanningTurn, Committed
  <1>5. afterStop <=> Committed'
    BY <1>0 DEF Committed
  <1> HIDE DEF afterStop
  <1>6. turn[k] \in TurnRec(turn[k].consumed)
    BY <1>0, RunFacts, TurnIs
  <1>7. r \in TurnRec(r.consumed)
    BY <1>4, <1>6 DEF TurnRec
  <1>8. /\ r.afterStop = afterStop /\ r.watchPreempt = turn[k].watchPreempt
        /\ r.request = turn[k].request /\ r.watchStop = turn[k].watchStop
    BY <1>6 DEF TurnRec
  <1> HIDE DEF r, k
  <1>9. TurnType' /\ turn'[k] = r /\ \A j \in Turns \ {k} : turn'[j] = turn[j]
    BY <1>0, <1>4, <1>7, RunFacts, TurnUpdate
  <1>10. \A j \in Turns : /\ turn'[j].watchPreempt = turn[j].watchPreempt
                          /\ turn'[j].request = turn[j].request
                          /\ turn'[j].watchStop = turn[j].watchStop
    BY <1>8, <1>9
  <1>11. Stages'
    BY <1>0, <1>1, <1>2, <1>3 DEF Stages, PlanningPcs, ActivePcs
  <1>12. Ahead'
    <2>1. k = preemptCtrl.turnID + 1 /\ preemptCtrl.turnID \in Nat
      BY RunFacts, TurnNumbers DEF k, PreemptRec
    <2>2. \A j \in Turns : NotStarted(j)' => NotStarted(j)
      BY <1>3, <2>1, TurnNumbers DEF NotStarted
    <2> QED
      BY <1>10, <2>2 DEF IInv, Ahead
  <1>13. AfterStopPlanned'
    BY <1>2, <1>3, <1>5, <1>8, <1>9 DEF AfterStopPlanned
  <1>14. PendingTargetsCurrentTurn'
    BY <1>3 DEF PendingTargetsCurrentTurn
  <1>15. NotifyNotLost'
    BY <1>0, <1>3, <1>10 DEF IInv, NotifyNotLost
  <1>16. \A p \in Items : AckHolder(p)'
    BY <1>0, <1>1, <1>3, <1>10, SameHolders DEF IInv
  <1>17. OtherTypes' /\ AckType'
    BY <1>0, RunFacts DEF OtherTypes, BufferType, StopType, FlagsType, AckType, stopVars
  <1> QED
    BY <1>0, <1>1, <1>2, <1>3, <1>9, <1>11, <1>12, <1>13, <1>14, <1>15, <1>16, <1>17 DEF ToldStep

LEMMA AbortPlanningTurnKeeps ==
  ASSUME IInv, AbortPlanningTurn
  PROVE  ToldStep /\ UNCHANGED <<stopVars, late>>
  <1>0. /\ UNCHANGED <<pusher, turn, captured, stopVars, late, stopCtrl, flags, runnerBytes, store>>
        /\ loop.pc = "planning" /\ CloseAcks(preemptCtrl.pending)
    BY DEF AbortPlanningTurn, At, turnVars, saveVars
  <1>1. LoopType' /\ loop'.pc = "cleanup"
    BY RunFacts, LeaveEffect DEF AbortPlanningTurn
  <1>2. /\ preemptCtrl' \in PreemptRec /\ preemptCtrl'.pushInFlight = preemptCtrl.pushInFlight
        /\ preemptCtrl'.phase = "idle" /\ preemptCtrl'.turnID = preemptCtrl.turnID
        /\ preemptCtrl'.pending = {}
    BY RunFacts DEF AbortPlanningTurn, PreemptRec
  <1>3. flags.started
    BY <1>0, StageAt
  <1>4. /\ AckType' /\ PendingTargetsCurrentTurn'
        /\ \A p \in Items : AckHolder(p)'
    BY <1>0, <1>2, ClearPending
  <1>5. Stages'
    BY <1>0, <1>1, <1>2, <1>3 DEF Stages, PlanningPcs, ActivePcs
  <1>6. Ahead'
    BY <1>0, <1>1, <1>2 DEF IInv, Ahead, NotStarted
  <1>7. AfterStopPlanned' /\ NotifyNotLost'
    BY <1>0, <1>2 DEF IInv, AfterStopPlanned, NotifyNotLost
  <1>8. BufferType'
    BY RunFacts DEF AbortPlanningTurn, PushFront, OtherTypes, BufferType
  <1>9. OtherTypes' /\ TurnType'
    BY <1>0, <1>8, RunFacts DEF OtherTypes, StopType, FlagsType, TurnType, stopVars
  <1> QED
    BY <1>0, <1>1, <1>2, <1>3, <1>4, <1>5, <1>6, <1>7, <1>9 DEF ToldStep

\* The controllers as they are.
LEMMA ControllersSame ==
  ASSUME IInv, UNCHANGED <<pusher, ack, preemptCtrl>>,
         \A j \in Turns : turn'[j].request = turn[j].request
  PROVE  /\ preemptCtrl' \in PreemptRec /\ preemptCtrl'.pushInFlight = preemptCtrl.pushInFlight
         /\ AckType' /\ PendingTargetsCurrentTurn' /\ \A p \in Items : AckHolder(p)'
  <1>1. preemptCtrl' \in PreemptRec /\ AckType'
    BY RunFacts DEF AckType
  <1>2. PendingTargetsCurrentTurn'
    BY DEF IInv, PendingTargetsCurrentTurn
  <1>3. \A p \in Items : AckHolder(p)'
    BY SameHolders DEF IInv
  <1> QED
    BY <1>1, <1>2, <1>3

LEMMA PlanTurnKeeps ==
  ASSUME IInv, PlanTurn
  PROVE  ToldStep /\ UNCHANGED <<stopVars, late>>
  <1> DEFINE k == preemptCtrl.turnID
  <1>0. /\ UNCHANGED <<preemptCtrl, pusher, ack, captured, stopVars, late, stopCtrl, flags, runnerBytes, store>>
        /\ loop.pc = "planning" /\ ~Committed
    BY DEF PlanTurn, At, pushVars, saveVars
  <1>1. k \in Turns /\ flags.started /\ preemptCtrl.phase = "planning"
    BY <1>0, StageAt DEF PlanningPcs
  <1>2. LoopType' /\ loop'.pc = "begin"
    BY RunFacts DEF PlanTurn, LoopType
  <1>3. PICK consumed : turn' = [turn EXCEPT ![k].consumed = consumed]
    BY DEF PlanTurn
  <1> DEFINE r == [turn[k] EXCEPT !.consumed = consumed]
  <1>4. turn' = [turn EXCEPT ![k] = r]
    BY <1>3
  <1>5. turn[k] \in TurnRec(turn[k].consumed)
    BY <1>1, RunFacts, TurnIs
  <1>6. r.consumed = consumed
    BY <1>5 DEF TurnRec
  <1>7. r \in TurnRec(consumed)
    BY <1>5 DEF TurnRec
  <1>8. /\ r.afterStop = turn[k].afterStop /\ r.watchPreempt = turn[k].watchPreempt
        /\ r.request = turn[k].request /\ r.watchStop = turn[k].watchStop
    BY <1>5 DEF TurnRec
  <1> HIDE DEF r
  <1>9. TurnType' /\ turn'[k] = r /\ \A j \in Turns \ {k} : turn'[j] = turn[j]
    BY <1>1, <1>4, <1>6, <1>7, RunFacts, TurnUpdate
  <1>10. \A j \in Turns : /\ turn'[j].watchPreempt = turn[j].watchPreempt
                          /\ turn'[j].request = turn[j].request
                          /\ turn'[j].watchStop = turn[j].watchStop
    BY <1>8, <1>9
  <1>11. Stages'
    BY <1>0, <1>1, <1>2 DEF Stages, PlanningPcs, ActivePcs
  <1>12. Ahead'
    BY <1>0, <1>2, <1>10 DEF IInv, Ahead, NotStarted
  <1>13. AfterStopPlanned'
    BY <1>0, <1>1, <1>8, <1>9 DEF IInv, AfterStopPlanned
  <1>14. NotifyNotLost'
    BY <1>0, <1>10 DEF IInv, NotifyNotLost
  <1>15. BufferType'
    BY RunFacts DEF PlanTurn, PushFront, OtherTypes, BufferType
  <1>16. OtherTypes'
    BY <1>0, <1>15, RunFacts DEF OtherTypes, StopType, FlagsType, stopVars
  <1> QED
    BY <1>0, <1>1, <1>2, <1>9, <1>10, <1>11, <1>12, <1>13, <1>14, <1>16, ControllersSame DEF ToldStep

LEMMA BeginActiveTurnKeeps ==
  ASSUME IInv, BeginActiveTurn
  PROVE  ToldStep /\ UNCHANGED <<stopVars, late>>
  <1>0. /\ UNCHANGED <<pusher, ack, turn, stopVars, late, stopCtrl, flags, buffer, store>>
        /\ loop.pc = "begin" /\ captured' = {} /\ runnerBytes' = FALSE
    BY DEF BeginActiveTurn, At, pushVars
  <1>1. flags.started /\ preemptCtrl.phase = "planning" /\ preemptCtrl.turnID \in Turns
    BY <1>0, StageAt DEF PlanningPcs
  <1>2. LoopType' /\ loop'.pc = "beginStop"
    BY <1>1, RunFacts, GotoEffect DEF BeginActiveTurn
  <1> DEFINE notify == preemptCtrl.notify \/ SignalsAtStart
  <1>3. notify \in BOOLEAN /\ (preemptCtrl.pending # {} => notify)
    BY RunFacts DEF SignalsAtStart, PreemptRec
  <1>4. preemptCtrl' = [preemptCtrl EXCEPT !.phase = "active", !.notify = notify]
    BY DEF BeginActiveTurn
  <1> HIDE DEF notify
  <1>5. /\ preemptCtrl' \in PreemptRec /\ preemptCtrl'.pushInFlight = preemptCtrl.pushInFlight
        /\ preemptCtrl'.phase = "active" /\ preemptCtrl'.turnID = preemptCtrl.turnID
        /\ preemptCtrl'.pending = preemptCtrl.pending /\ preemptCtrl'.notify = notify
    BY <1>3, <1>4, RunFacts DEF PreemptRec
  <1>6. Stages'
    BY <1>0, <1>1, <1>2, <1>5 DEF Stages, PlanningPcs, ActivePcs
  <1>7. Ahead'
    BY <1>0, <1>2, <1>5 DEF IInv, Ahead, NotStarted
  <1>8. AfterStopPlanned'
    BY <1>0, <1>1, <1>5 DEF IInv, AfterStopPlanned
  <1>9. PendingTargetsCurrentTurn'
    BY <1>0, <1>5 DEF IInv, PendingTargetsCurrentTurn
  <1>10. NotifyNotLost'
    BY <1>0, <1>3, <1>5 DEF IInv, NotifyNotLost
  <1>11. \A p \in Items : AckHolder(p)'
    BY <1>0, <1>5, SameHolders DEF IInv
  <1>12. OtherTypes'
    <2>1. BufferType' /\ StopType' /\ FlagsType'
      BY <1>0, RunFacts DEF OtherTypes, BufferType, StopType, FlagsType, stopVars
    <2> QED
      BY <1>0, <2>1, RunFacts DEF OtherTypes
  <1>13. AckType'
    BY <1>0, RunFacts DEF AckType
  <1>14. TurnType'
    BY <1>0, RunFacts DEF TurnType
  <1> QED
    BY <1>0, <1>1, <1>2, <1>5, <1>6, <1>7, <1>8, <1>9, <1>10, <1>11, <1>12, <1>13, <1>14 DEF ToldStep

\* stopController.beginActiveTurn, in either branch of StartTurn.
LEMMA TargetEffect ==
  ASSUME IInv, StartTurn
  PROVE  /\ StopType'
         /\ \/ stopCtrl' = stopCtrl
            \/ stopCtrl'.pending => stopCtrl'.notify
  <1>0. StopType /\ UNCHANGED <<timers, stopper>>
    BY RunFacts DEF OtherTypes, StartTurn, stopVars
  <1>1. CASE stopCtrl' = stopCtrl
    BY <1>0, <1>1 DEF StopType
  <1>2. CASE stopCtrl' = [stopCtrl EXCEPT !.hasTarget = TRUE, !.notify = @ \/ stopCtrl.pending]
    <2> DEFINE notify == stopCtrl.notify \/ stopCtrl.pending
    <2>1. notify \in BOOLEAN /\ (stopCtrl.pending => notify)
      BY <1>0 DEF StopType
    <2>2. stopCtrl' = [stopCtrl EXCEPT !.hasTarget = TRUE, !.notify = notify]
      BY <1>2
    <2> HIDE DEF notify
    <2>3. stopCtrl'.pending = stopCtrl.pending /\ stopCtrl'.notify = notify
      BY <1>0, <2>2 DEF StopType
    <2>4. StopType'
      BY <1>0, <2>1, <2>2 DEF StopType
    <2> QED
      BY <2>1, <2>3, <2>4
  <1> QED
    BY <1>1, <1>2 DEF StartTurn

LEMMA StartTurnKeeps ==
  ASSUME IInv, StartTurn
  PROVE  ToldStep /\ UNCHANGED <<stopVars, late>>
  <1> DEFINE k == preemptCtrl.turnID
  <1>0. /\ UNCHANGED <<preemptCtrl, pusher, ack, captured, stopVars, late, flags, buffer, runnerBytes, store>>
        /\ loop.pc = "beginStop"
    BY DEF StartTurn, At, pushVars, saveVars
  <1>1. k \in Turns /\ flags.started /\ preemptCtrl.phase = "active"
    BY <1>0, StageAt DEF ActivePcs
  <1>2. turn[k].watchPreempt = "off" /\ ~turn[k].afterStop
    BY <1>0, <1>1 DEF IInv, Ahead, NotStarted, AfterStopPlanned
  <1>3. turn[k] \in TurnRec(turn[k].consumed)
    BY <1>1, RunFacts, TurnIs
  <1>4. OtherTypes'
    <2>1. BufferType' /\ FlagsType'
      BY <1>0, RunFacts DEF OtherTypes, BufferType, FlagsType
    <2> QED
      BY <1>0, <2>1, RunFacts, TargetEffect DEF OtherTypes
  <1>5. LoopType' /\ loop'.pc \in {"active", "endStop"}
    BY RunFacts DEF StartTurn, LoopType
  <1>6. Stages'
    BY <1>0, <1>1, <1>5 DEF Stages, PlanningPcs, ActivePcs
  <1>7. CASE UNCHANGED turn /\ loop'.pc = "endStop"
    <2>1. stopCtrl'.hasTarget /\ stopCtrl'.pending => stopCtrl'.notify \/ UNCHANGED stopCtrl
      BY TargetEffect
    <2>2. NotifyNotLost'
      BY <1>0, <1>7, <2>1 DEF IInv, NotifyNotLost
    <2>3. Ahead' /\ AfterStopPlanned' /\ TurnType'
      BY <1>0, <1>2, <1>7, RunFacts DEF IInv, Ahead, NotStarted, AfterStopPlanned, TurnType
    <2> QED
      BY <1>0, <1>1, <1>4, <1>5, <1>6, <1>7, <2>2, <2>3, ControllersSame DEF ToldStep
  <1>8. CASE /\ loop'.pc = "active"
             /\ turn' = [turn EXCEPT ![k] = [turn[k] EXCEPT
                    !.agent = "run", !.proxy = "run", !.handler = "run",
                    !.watchPreempt = "select", !.watchStop = "receive",
                    !.bytes = loop.resume = "now"]]
    <2>1. PICK bytes \in BOOLEAN : turn' = [turn EXCEPT ![k] = [turn[k] EXCEPT
                    !.agent = "run", !.proxy = "run", !.handler = "run",
                    !.watchPreempt = "select", !.watchStop = "receive", !.bytes = bytes]]
      <3>1. PICK bytes \in BOOLEAN : bytes = (loop.resume = "now")
        OBVIOUS
      <3> QED
        BY <1>8, <3>1
    <2> DEFINE r == [turn[k] EXCEPT
                       !.agent = "run", !.proxy = "run", !.handler = "run",
                       !.watchPreempt = "select", !.watchStop = "receive", !.bytes = bytes]
    <2>2. turn' = [turn EXCEPT ![k] = r]
      BY <2>1
    <2>3. /\ r.afterStop = turn[k].afterStop /\ r.request = turn[k].request
          /\ r.watchStop = "receive"
      BY <1>3 DEF TurnRec
    <2>4. r \in TurnRec(r.consumed)
      <3>1. r.consumed = turn[k].consumed
        BY <1>3 DEF TurnRec
      <3> DEFINE works   == [turn[k] EXCEPT !.agent = "run", !.proxy = "run", !.handler = "run"]
                 selects == [works EXCEPT !.watchPreempt = "select"]
                 watches == [selects EXCEPT !.watchStop = "receive"]
      <3>2. works \in TurnRec(turn[k].consumed)
        BY <1>3 DEF TurnRec
      <3>3. selects \in TurnRec(turn[k].consumed)
        <4> HIDE DEF works
        <4> QED
          BY <3>2 DEF TurnRec, WatcherPcs
      <3>4. watches \in TurnRec(turn[k].consumed)
        <4> HIDE DEF selects
        <4> QED
          BY <3>3 DEF TurnRec, WatcherPcs
      <3>5. [watches EXCEPT !.bytes = bytes] \in TurnRec(turn[k].consumed)
        <4> HIDE DEF watches
        <4> QED
          BY <3>4 DEF TurnRec
      <3>6. r = [watches EXCEPT !.bytes = bytes]
        BY <1>3 DEF TurnRec
      <3> HIDE DEF r
      <3> QED
        BY <3>1, <3>5, <3>6
    <2> HIDE DEF r
    <2>5. TurnType' /\ turn'[k] = r /\ \A j \in Turns \ {k} : turn'[j] = turn[j]
      BY <1>1, <2>2, <2>4, RunFacts, TurnUpdate
    <2>6. \A j \in Turns : turn'[j].request = turn[j].request
      BY <2>3, <2>5
    <2>7. NotifyNotLost'
      <3>1. \A j \in Turns : turn[j].watchPreempt = "receive" => turn'[j].watchPreempt = "receive"
        BY <1>2, <2>5
      <3>2. turn'[k].watchStop = "receive"
        BY <2>3, <2>5
      <3> QED
        BY <1>0, <1>1, <3>1, <3>2 DEF IInv, NotifyNotLost
    <2>8. Ahead'
      BY <1>0, <1>8, <2>5, TurnNumbers DEF IInv, Ahead, NotStarted
    <2>9. AfterStopPlanned'
      BY <1>0, <1>2, <2>3, <2>5 DEF AfterStopPlanned
    <2> QED
      BY <1>0, <1>1, <1>4, <1>5, <1>6, <2>5, <2>6, <2>7, <2>8, <2>9, ControllersSame DEF ToldStep
  <1> QED
    <2>1. \/ UNCHANGED turn /\ loop' = [loop EXCEPT !.pc = "endStop", !.err = "resume"]
          \/ /\ loop' = [loop EXCEPT !.pc = "active"]
             /\ turn' = [turn EXCEPT ![k] = [turn[k] EXCEPT
                    !.agent = "run", !.proxy = "run", !.handler = "run",
                    !.watchPreempt = "select", !.watchStop = "receive",
                    !.bytes = loop.resume = "now"]]
      BY Zenon DEF StartTurn
    <2>2. \/ UNCHANGED turn /\ loop'.pc = "endStop"
          \/ /\ loop'.pc = "active"
             /\ turn' = [turn EXCEPT ![k] = [turn[k] EXCEPT
                    !.agent = "run", !.proxy = "run", !.handler = "run",
                    !.watchPreempt = "select", !.watchStop = "receive",
                    !.bytes = loop.resume = "now"]]
      <3>1. loop' = [loop EXCEPT !.pc = "endStop", !.err = "resume"] => loop'.pc = "endStop"
        BY RunFacts DEF LoopType
      <3>2. loop' = [loop EXCEPT !.pc = "active"] => loop'.pc = "active"
        BY RunFacts DEF LoopType
      <3> QED
        BY <2>1, <3>1, <3>2, Zenon
    <2> QED
      BY <1>7, <1>8, <2>2

\* The iterator is closed under the goroutines of the turn.
LEMMA CloseIteratorKeeps ==
  ASSUME IInv, CloseIterator
  PROVE  ToldStep /\ UNCHANGED <<stopVars, late>>
  <1> DEFINE k == preemptCtrl.turnID
  <1>0. /\ UNCHANGED <<preemptCtrl, pusher, ack, captured, stopVars, late, stopCtrl, buffer, runnerBytes, store>>
        /\ loop.pc = "active"
    BY DEF CloseIterator, At, pushVars, saveVars
  <1>1. k \in Turns /\ flags.started /\ preemptCtrl.phase = "active"
    BY <1>0, StageAt DEF ActivePcs
  <1>2. LoopType' /\ loop'.pc = "preempting"
    BY RunFacts, GotoEffect DEF CloseIterator
  <1>3. PICK closes \in BOOLEAN : turn' = [turn EXCEPT ![k].iterClosed = closes]
    <2>1. PICK closes \in BOOLEAN : closes = (turn[k].agent = "run")
      OBVIOUS
    <2> QED
      BY <2>1 DEF CloseIterator
  <1>4. PICK crashes \in BOOLEAN : flags' = [flags EXCEPT !.crashed = crashes]
    <2>1. PICK crashes \in BOOLEAN :
             crashes = (turn[k].agent = "over" /\ turn[k].proxy = "run")
      OBVIOUS
    <2> QED
      BY <2>1 DEF CloseIterator
  <1> DEFINE r == [turn[k] EXCEPT !.iterClosed = closes]
  <1>5. turn[k] \in TurnRec(turn[k].consumed)
    BY <1>1, RunFacts, TurnIs
  <1>6. /\ r \in TurnRec(r.consumed)
        /\ r.afterStop = turn[k].afterStop /\ r.watchPreempt = turn[k].watchPreempt
        /\ r.request = turn[k].request /\ r.watchStop = turn[k].watchStop
    BY <1>5 DEF TurnRec
  <1>7. turn' = [turn EXCEPT ![k] = r]
    BY <1>3
  <1> HIDE DEF r
  <1>8. TurnType' /\ turn'[k] = r /\ \A j \in Turns \ {k} : turn'[j] = turn[j]
    BY <1>1, <1>6, <1>7, RunFacts, TurnUpdate
  <1>9. \A j \in Turns : /\ turn'[j].watchPreempt = turn[j].watchPreempt
                         /\ turn'[j].request = turn[j].request
                         /\ turn'[j].watchStop = turn[j].watchStop
                         /\ turn'[j].afterStop = turn[j].afterStop
    BY <1>6, <1>8
  <1>10. FlagsType' /\ flags'.started
    BY <1>0, <1>1, <1>4, RunFacts DEF OtherTypes, FlagsType
  <1>11. OtherTypes'
    <2>1. BufferType' /\ StopType'
      BY <1>0, RunFacts DEF OtherTypes, BufferType, StopType, stopVars
    <2> QED
      BY <1>0, <1>10, <2>1, RunFacts DEF OtherTypes
  <1>12. Stages'
    BY <1>0, <1>1, <1>2, <1>10 DEF Stages, PlanningPcs, ActivePcs
  <1>13. Ahead'
    BY <1>0, <1>2, <1>9 DEF IInv, Ahead, NotStarted
  <1>14. AfterStopPlanned'
    BY <1>0, <1>1, <1>9 DEF IInv, AfterStopPlanned
  <1>15. NotifyNotLost'
    BY <1>0, <1>9 DEF IInv, NotifyNotLost
  <1> QED
    BY <1>0, <1>2, <1>8, <1>9, <1>10, <1>11, <1>12, <1>13, <1>14, <1>15, ControllersSame DEF ToldStep

\* stopController.endActiveTurn, and its close: no request is left.
LEMMA TargetGoneKeeps ==
  ASSUME IInv, EndStopTurn \/ CloseStopCtrl
  PROVE  ToldStep /\ UNCHANGED <<stopVars, late>>
  <1>0. /\ UNCHANGED <<preemptCtrl, pusher, ack, turn, captured, stopVars, late, flags, buffer, runnerBytes, store>>
        /\ \/ loop.pc = "endStop" /\ Goto("endPreempt")
           \/ loop.pc = "closeStop" /\ Goto("closePreempt")
    BY DEF EndStopTurn, CloseStopCtrl, At, pushVars, turnVars, saveVars
  <1>1. flags.started
    BY <1>0, StageAt
  <1>2. /\ LoopType'
        /\ \/ loop.pc = "endStop" /\ loop'.pc = "endPreempt"
           \/ loop.pc = "closeStop" /\ loop'.pc = "closePreempt"
    BY <1>0, RunFacts, GotoEffect
  <1>3. StopType' /\ ~stopCtrl'.hasTarget
    BY <1>0, RunFacts DEF EndStopTurn, CloseStopCtrl, OtherTypes, StopType, stopVars
  <1>4. OtherTypes'
    <2>1. BufferType' /\ FlagsType'
      BY <1>0, RunFacts DEF OtherTypes, BufferType, FlagsType
    <2> QED
      BY <1>0, <1>3, <2>1, RunFacts DEF OtherTypes
  <1>5. TurnType'
    BY <1>0, RunFacts DEF TurnType
  <1>6. Stages'
    BY <1>0, <1>1, <1>2 DEF IInv, Stages, PlanningPcs, ActivePcs
  <1>7. Ahead'
    BY <1>0, <1>2 DEF IInv, Ahead, NotStarted
  <1>8. AfterStopPlanned'
    BY <1>0, <1>2 DEF IInv, AfterStopPlanned
  <1>9. NotifyNotLost'
    BY <1>0, <1>3 DEF IInv, NotifyNotLost
  <1> QED
    BY <1>0, <1>1, <1>2, <1>4, <1>5, <1>6, <1>7, <1>8, <1>9, ControllersSame DEF ToldStep

\* preemptController.endActiveTurn, and its close: what is pending is acked.
LEMMA RequestsGoneKeeps ==
  ASSUME IInv, EndActiveTurn \/ ClosePreemptCtrl
  PROVE  ToldStep /\ UNCHANGED <<stopVars, late>>
  <1>0. /\ UNCHANGED <<stopCtrl, pusher, turn, captured, stopVars, late, flags, buffer, runnerBytes, store>>
        /\ CloseAcks(preemptCtrl.pending)
        /\ loop.pc \in {"endPreempt", "closePreempt"}
    BY DEF EndActiveTurn, ClosePreemptCtrl, At, pushVars, turnVars, saveVars
  <1>1. flags.started
    BY <1>0, StageAt
  <1>2. LoopType' /\ loop'.pc \in {"after", "closeBuffer"}
    <2>1. loop.pc = "endPreempt" => preemptCtrl.phase = "active"
      BY StageAt DEF ActivePcs
    <2>2. Goto("after") \/ Goto("closeBuffer")
      BY <2>1 DEF EndActiveTurn, ClosePreemptCtrl, At
    <2> QED
      BY <2>2, RunFacts, GotoEffect
  <1>3. /\ preemptCtrl' \in PreemptRec /\ preemptCtrl'.pushInFlight = preemptCtrl.pushInFlight
        /\ preemptCtrl'.phase = "idle" /\ preemptCtrl'.turnID = preemptCtrl.turnID
        /\ preemptCtrl'.pending = {}
    BY RunFacts DEF EndActiveTurn, ClosePreemptCtrl, PreemptRec
  <1>4. /\ AckType' /\ PendingTargetsCurrentTurn'
        /\ \A p \in Items : AckHolder(p)'
    BY <1>0, <1>3, ClearPending
  <1>5. OtherTypes'
    <2>1. BufferType' /\ StopType' /\ FlagsType'
      BY <1>0, RunFacts DEF OtherTypes, BufferType, StopType, FlagsType, stopVars
    <2> QED
      BY <1>0, <2>1, RunFacts DEF OtherTypes
  <1>6. TurnType'
    BY <1>0, RunFacts DEF TurnType
  <1>7. Stages'
    BY <1>0, <1>1, <1>2, <1>3 DEF Stages, PlanningPcs, ActivePcs
  <1>8. Ahead'
    BY <1>0, <1>2, <1>3 DEF IInv, Ahead, NotStarted
  <1>9. AfterStopPlanned' /\ NotifyNotLost'
    BY <1>0, <1>3 DEF IInv, AfterStopPlanned, NotifyNotLost
  <1> QED
    BY <1>0, <1>1, <1>2, <1>3, <1>4, <1>5, <1>6, <1>7, <1>8, <1>9 DEF ToldStep

LEMMA RunKeeps ==
  ASSUME IInv, RunSteps
  PROVE  IInv'
  <1>1. CASE Run \/ ReceiveSteps
    BY <1>1, ReceiveStepsQuiet, QuietKeeps
  <1>2. CASE EndSteps
    BY <1>2, EndStepsQuiet, QuietKeeps
  <1>3. CASE BeginPlanningTurn
    BY <1>3, BeginPlanningTurnKeeps, ToldKeeps
  <1>4. CASE AbortPlanningTurn
    BY <1>4, AbortPlanningTurnKeeps, ToldKeeps
  <1>5. CASE PlanTurn
    BY <1>5, PlanTurnKeeps, ToldKeeps
  <1>6. CASE BeginActiveTurn
    BY <1>6, BeginActiveTurnKeeps, ToldKeeps
  <1>7. CASE StartTurn
    BY <1>7, StartTurnKeeps, ToldKeeps
  <1>8. CASE CloseIterator
    BY <1>8, CloseIteratorKeeps, ToldKeeps
  <1>9. CASE EndStopTurn \/ CloseStopCtrl
    BY <1>9, TargetGoneKeeps, ToldKeeps
  <1>10. CASE EndActiveTurn \/ ClosePreemptCtrl
    BY <1>10, RequestsGoneKeeps, ToldKeeps
  <1> QED
    BY <1>1, <1>2, <1>3, <1>4, <1>5, <1>6, <1>7, <1>8, <1>9, <1>10
    DEF RunSteps, LoopStep, PlanStep, TurnStep, CleanupStep, ReceiveSteps, EndSteps

-----------------------------------------------------------------------------
(* The theorems *)

LEMMA InitIInv == Init => IInv
  <1> SUFFICES ASSUME Init PROVE IInv
    OBVIOUS
  <1> USE DEF Init
  <1>0. Cardinality(Items) \in Nat /\ 0 \in 0..MaxTurns
    BY CardinalityOfItems, TurnNumbers
  <1>1. LoopType /\ BufferType
    BY DEF LoopType, BufferType, LoopPcs, LoopErrs
  <1>2. CtrlType
    BY <1>0 DEF CtrlType
  <1>3. CallersType
    BY <1>0 DEF CallersType, AllPushKinds
  <1>4. \A k \in Turns : turn[k] = NoTurn
    OBVIOUS
  <1>5. TurnType
    <2>1. turn = [k \in Turns |-> turn[k]]
      OBVIOUS
    <2>2. NoTurn \in TurnRec(<<>>) /\ NoTurn.consumed = <<>>
      BY DEF NoTurn, TurnRec, WatcherPcs
    <2>3. \A k \in Turns : turn[k] \in TurnRec(turn[k].consumed)
      BY <1>4, <2>2
    <2> QED
      BY <2>1, <2>3 DEF TurnType, TurnRec
  <1>6. captured \subseteq {"cancel", "contexts"} /\ runnerBytes \in BOOLEAN
    OBVIOUS
  <1>7. store.state \in AllStores
    BY LoopAssumption
  <1>8. Stages
    BY DEF Stages, PlanningPcs, ActivePcs
  <1>9. \A p \in Items : PushPath(p)
    BY DEF PushPath
  <1>10. \A p \in Items : AckHolder(p)
    <2>1. \A k \in Turns : turn[k].request = {}
      BY <1>4 DEF NoTurn
    <2> QED
      BY <2>1 DEF AckHolder
  <1>11. PushesCounted
    <2>1. Section = {}
      BY DEF Section, Counted, InSection
    <2> QED
      BY <2>1, FS_EmptySet, CountedIsSection
  <1>12. PendingTargetsCurrentTurn /\ NotifyNotLost /\ AfterStopPlanned
    BY DEF PendingTargetsCurrentTurn, NotifyNotLost, AfterStopPlanned
  <1>13. Ahead
    BY <1>4 DEF Ahead, NoTurn
  <1> QED
    BY <1>1, <1>2, <1>3, <1>5, <1>6, <1>7, <1>8, <1>9, <1>10, <1>11, <1>12, <1>13
    DEF IInv, StateType

LEMMA NextIInv == IInv /\ [Next]_vars => IInv'
  <1> SUFFICES ASSUME IInv, [Next]_vars PROVE IInv'
    OBVIOUS
  <1>1. CASE StopperSteps
    BY <1>1, StoppersKeep
  <1>2. CASE PusherSteps
    BY <1>2, PushersKeep
  <1>3. CASE TurnSteps
    BY <1>3, TurnsKeep
  <1>4. CASE RunSteps
    BY <1>4, RunKeeps
  <1>5. CASE UNCHANGED vars
    <2>1. Untouched /\ UNCHANGED <<buffer, stopCtrl, flags, stopper, timers, late>>
      BY <1>5 DEF vars, Untouched
    <2>2. StateType'
      BY <2>1 DEF IInv, Untouched, StateType, LoopType, BufferType, CtrlType, CallersType, TurnType
    <2>3. Stages' /\ PushesCounted' /\ PendingTargetsCurrentTurn'
      BY <2>1 DEF IInv, Untouched, Stages, PushesCounted, PendingTargetsCurrentTurn
    <2>4. \A p \in Items : PushPath(p)' /\ AckHolder(p)'
      BY <2>1 DEF IInv, Untouched, PushPath, AckHolder, Unrequested
    <2>5. Ahead' /\ NotifyNotLost' /\ AfterStopPlanned'
      BY <2>1 DEF IInv, Untouched, Ahead, NotStarted, NotifyNotLost, AfterStopPlanned, Committed
    <2> QED
      BY <2>2, <2>3, <2>4, <2>5 DEF IInv
  <1> QED
    BY <1>1, <1>2, <1>3, <1>4, <1>5, NextByActor

\* The controllers agree with where run and the pushes are, in every run of the
\* agent loop.
THEOREM LoopInvariant == Spec => []IInv
  BY InitIInv, NextIInv, PTL DEF Spec

\* None of the panics of preemptController and of the ack channels is reached,
\* however pushes, stops and turns interleave.
THEOREM NoPanics == Spec => []NoPanic
  <1>1. IInv => NoPanic
    BY DEF IInv, Stages, PushPath, AckHolder, NoPanic
  <1> QED
    BY <1>1, LoopInvariant, PTL

\* pushInFlight is the number of pushes between beginPush and endPush, so
\* waitForPushes waits for those and for no others.
THEOREM PushesAreCounted == Spec => []PushesCounted
  <1>1. IInv => PushesCounted
    BY DEF IInv
  <1> QED
    BY <1>1, LoopInvariant, PTL

\* A preempt never hits a turn its push has not seen: what is pending names the
\* turn that is planned or active, and its ack channel is still open.
THEOREM RequestsNameTheTurn == Spec => []PendingTargetsCurrentTurn
  <1>1. IInv => PendingTargetsCurrentTurn
    BY DEF IInv
  <1> QED
    BY <1>1, LoopInvariant, PTL

\* While a turn is active, a pending preempt or cancel has its token in the
\* channel or a watcher about to look.
THEOREM SignalsReachAWatcher == Spec => []NotifyNotLost
  <1>1. IInv => NotifyNotLost
    BY DEF IInv
  <1> QED
    BY <1>1, LoopInvariant, PTL

\* A turn whose planning began after the stop was committed is never run.
THEOREM StopsPreventTurns == Spec => []StopPreventsTurns
  <1>1. IInv => StopPreventsTurns
    <2> SUFFICES ASSUME IInv, preemptCtrl.phase = "active"
                 PROVE  ~turn[preemptCtrl.turnID].afterStop
      BY DEF StopPreventsTurns
    <2>1. loop.pc # "planning"
      BY StageAt DEF PlanningPcs
    <2> QED
      BY <2>1 DEF IInv, AfterStopPlanned
  <1> QED
    BY <1>1, LoopInvariant, PTL
====
