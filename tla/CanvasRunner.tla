---------------------------- MODULE CanvasRunner ----------------------------
(***************************************************************************)
(* The runs of one canvas: canvas.Runner, the RunFunc that AgentService    *)
(* gives it, and the HTTP handler that streams the events of a run.        *)
(*                                                                         *)
(* A request has three goroutines.  The handler registers the run and      *)
(* reads its events until the channel is closed or a write fails.  The run *)
(* goroutine takes the interrupt that the session waits on, waits for the  *)
(* RunFunc or for the cancel channel, reports the outcome and closes the   *)
(* events channel.  The function goroutine runs the RunFunc, which goes on *)
(* after its run has been cancelled, until it notices that the context of  *)
(* the request is done or sends on the closed channel.                     *)
(*                                                                         *)
(* Left out: failures of MySQL and Redis, which are logged and ignored,    *)
(* the expiry of tracked runs and their checkpoint_id, which nothing       *)
(* reads, the checks that refuse a request before it is registered, the    *)
(* agentbot and webhook handlers, and a restart of the server, which       *)
(* forgets the interrupts.                                                 *)
(***************************************************************************)
EXTENDS Naturals, Sequences, FiniteSets

CONSTANTS
    Requests,  \* the requests to run the canvas
    Paused,    \* those of them whose runs have paused and ended beforehand
    Sessions,  \* the sessions they may belong to
    SessionsOf, \* the ways in which the requests may belong to sessions
    Stored,    \* the sessions that have a row in the conversation table
    Leavers,   \* the requests whose client may disconnect
    Cap,       \* the capacity of an events channel, 8 in the code
    Outcomes,  \* how the RunFunc of each request may end
    None       \* no request

ASSUME CanvasAssumption ==
    /\ Paused \subseteq Requests
    /\ SessionsOf \subseteq [Requests -> Sessions]
    /\ Stored \subseteq Sessions
    /\ Leavers \subseteq Requests
    /\ Cap \in Nat \ {0}
    /\ Outcomes \in [Requests -> SUBSET {"placeholder", "ok", "interrupt", "err", "panic"}]
    /\ None \notin Requests

VARIABLES
    session,     \* the session each request belongs to
    registered,  \* runCancels[canvasID]: the run that holds the registration
    cancelled,   \* the runs whose cancel channel is closed
    interruptID, \* interruptIDs: the paused run each session waits on
    resumed,     \* __resume_interrupt_id__: the paused run a run resumes
    run,         \* the run goroutines: pc, and the events still to be pushed
    fn,          \* the function goroutines: pc, events to emit, result, and
                 \* the session row as it was read
    out,         \* the events channels
    reader,      \* the handlers: "none", "reading" or "over"
    left,        \* the clients that have disconnected
    got,         \* the outcomes each client has been told
    tracker,     \* the status of the run of each session and who wrote it
    history,     \* the answers in the conversation row of each session
    met          \* the requests that overlapped another one of their session

vars == <<session, registered, cancelled, interruptID, resumed, run, fn, out, reader, left,
          got, tracker, history, met>>

runnerVars == <<registered, cancelled, interruptID, resumed>>
clientVars == <<session, reader, left, got>>
storeVars  == <<tracker, history>>

\* "progress" is workflow_started or an event of a node; "message" is message,
\* message_end and workflow_finished, which are sent in a row.
Events   == {"progress", "placeholder", "message", "waiting", "error", "done"}
Told     == {"message", "waiting", "done"}
Statuses == {"none", "running", "succeeded", "failed"}

RunType ==
    run \in [Requests -> [pc : {"idle", "resume", "invoke", "save", "push", "close", "over"},
                          todo : Seq(Events)]]

FnType ==
    fn \in [Requests -> [pc : {"none", "begin", "open", "compile", "invoke", "load",
                               "store", "mark", "return", "over"},
                         todo : Seq(Events),
                         ret : {"none", "ok", "interrupt", "err", "panic", "cancelled"},
                         read : SUBSET Requests]]

TypeOK ==
    /\ session \in [Requests -> Sessions]
    /\ registered \in Requests \cup {None}
    /\ cancelled \subseteq Requests
    /\ interruptID \in [Sessions -> Requests \cup {None}]
    /\ resumed \in [Requests -> Requests \cup {None}]
    /\ RunType /\ FnType
    /\ out \in [Requests -> Seq(Events)]
    /\ \A r \in Requests : Len(out[r]) <= Cap
    /\ reader \in [Requests -> {"none", "reading", "over"}]
    /\ left \subseteq Requests
    /\ got \in [Requests -> SUBSET Told]
    /\ tracker \in [Sessions -> [status : Statuses, by : Requests \cup {None}]]
    /\ history \in [Sessions -> SUBSET Requests]
    /\ met \subseteq Requests

\* Each session waits on its own paused run, if it has one.
Waiting ==
    /\ interruptID \in [Sessions -> Paused \cup {None}]
    /\ \A s \in Sessions : interruptID[s] # None => session[interruptID[s]] = s
    /\ \A r \in Paused : interruptID[session[r]] = r

\* NewRunner, and after it the earlier runs that have told their clients that they
\* wait for an answer.
Init ==
    /\ session \in SessionsOf
    /\ Waiting
    /\ registered = None
    /\ cancelled = {}
    /\ resumed = [r \in Requests |-> None]
    /\ run = [r \in Requests |-> [pc |-> IF r \in Paused THEN "over" ELSE "idle", todo |-> <<>>]]
    /\ fn = [r \in Requests |->
                IF r \in Paused
                THEN [pc |-> "over", todo |-> <<>>, ret |-> "interrupt", read |-> {}]
                ELSE [pc |-> "none", todo |-> <<>>, ret |-> "none", read |-> {}]]
    /\ out = [r \in Requests |-> <<>>]
    /\ reader = [r \in Requests |-> IF r \in Paused THEN "over" ELSE "none"]
    /\ left = {}
    /\ got = [r \in Requests |-> IF r \in Paused THEN {"waiting", "done"} ELSE {}]
    /\ tracker = [s \in Sessions |->
                     [status |-> IF interruptID[s] = None THEN "none" ELSE "failed",
                      by |-> interruptID[s]]]
    /\ history = [s \in Sessions |-> {}]
    /\ met = {}

-----------------------------------------------------------------------------
(* What the goroutines of a request see of each other *)

Closed(r) == run[r].pc = "over"

FnActive(r) == fn[r].pc \notin {"none", "over"}

Active(r) == run[r].pc \notin {"idle", "over"} \/ FnActive(r)

\* The server cancels the context of a request when its client disconnects and
\* when its handler returns.
ContextDone(r) == r \in left \/ reader[r] = "over"

\* A send finds room in the channel.
Room(r) == Len(out[r]) < Cap

\* The other requests of the session that are still at work.
Others(r) == {q \in Requests \ {r} : session[q] = session[r] /\ Active(q)}

\* The function goroutine moves, with what it has to emit first, the result it has
\* got and the row it has read.
Move(r, pc, events, ret, row) ==
    fn' = [fn EXCEPT ![r] = [pc |-> pc, todo |-> events, ret |-> ret, read |-> row]]

Continue(r, pc, events) == Move(r, pc, events, fn[r].ret, {})

Return(r, ret) == Move(r, "over", <<>>, ret, {})

-----------------------------------------------------------------------------
(* The run goroutine: Runner.Run *)

\* The handler calls RunAgent: the run takes the registration of the canvas and
\* cancels the run that held it, whatever its session.
Register(r) ==
    /\ run[r].pc = "idle"
    /\ cancelled' = cancelled \cup ({registered} \ {None})
    /\ registered' = r
    /\ run' = [run EXCEPT ![r].pc = "resume"]
    /\ reader' = [reader EXCEPT ![r] = "reading"]
    /\ met' = met \cup Others(r) \cup IF Others(r) = {} THEN {} ELSE {r}
    /\ UNCHANGED <<session, interruptID, resumed, fn, out, left, got, storeVars>>

\* getInterruptID: the resume consumes the interrupt.  The mutant leaves it.
LeaveInterrupt(s) == interruptID' = interruptID

ConsumeInterrupt(s) == interruptID' = [interruptID EXCEPT ![s] = None]

\* The input of a request is a string, never nil, so that every run takes the
\* interrupt of its session; then safeInvoke starts the RunFunc.
TakeInterrupt(r) ==
    /\ run[r].pc = "resume"
    /\ resumed' = [resumed EXCEPT ![r] = interruptID[session[r]]]
    /\ ConsumeInterrupt(session[r])
    /\ run' = [run EXCEPT ![r].pc = "invoke"]
    /\ Continue(r, "begin", <<>>)
    /\ UNCHANGED <<registered, cancelled, out, clientVars, storeVars, met>>

\* How the run goroutine goes on with what the RunFunc returned.  The first mutant
\* skips the save of the interrupt, the second forgets the terminator after an error.
ReportUnsaved(ret) ==
    CASE ret = "ok"        -> [pc |-> "push", todo |-> <<"done">>]
      [] ret = "interrupt" -> [pc |-> "push", todo |-> <<"waiting", "done">>]
      [] ret = "cancelled" -> [pc |-> "push", todo |-> <<>>]
      [] OTHER             -> [pc |-> "push", todo |-> <<"error", "done">>]

ReportBare(ret) ==
    CASE ret = "ok"        -> [pc |-> "push", todo |-> <<"done">>]
      [] ret = "interrupt" -> [pc |-> "save", todo |-> <<"waiting", "done">>]
      [] ret = "cancelled" -> [pc |-> "push", todo |-> <<>>]
      [] OTHER             -> [pc |-> "push", todo |-> <<"error">>]

Report(ret) ==
    CASE ret = "ok"        -> [pc |-> "push", todo |-> <<"done">>]
      [] ret = "interrupt" -> [pc |-> "save", todo |-> <<"waiting", "done">>]
      [] ret = "cancelled" -> [pc |-> "push", todo |-> <<>>]
      [] OTHER             -> [pc |-> "push", todo |-> <<"error", "done">>]

\* safeInvoke: the select takes whichever of done and cancel is ready.  The mutant
\* does not listen to cancel.
InvokeReturnsOnly(r) ==
    /\ run[r].pc = "invoke"
    /\ fn[r].pc = "over"
    /\ run' = [run EXCEPT ![r] = Report(fn[r].ret)]
    /\ UNCHANGED <<runnerVars, fn, out, clientVars, storeVars, met>>

InvokeReturns(r) ==
    /\ run[r].pc = "invoke"
    /\ \/ fn[r].pc = "over" /\ run' = [run EXCEPT ![r] = Report(fn[r].ret)]
       \/ r \in cancelled /\ run' = [run EXCEPT ![r] = Report("cancelled")]
    /\ UNCHANGED <<runnerVars, fn, out, clientVars, storeVars, met>>

SaveInterrupt(r) ==
    /\ run[r].pc = "save"
    /\ interruptID' = [interruptID EXCEPT ![session[r]] = r]
    /\ run' = [run EXCEPT ![r].pc = "push"]
    /\ UNCHANGED <<registered, cancelled, resumed, fn, out, clientVars, storeVars, met>>

\* push: the send waits for room, for ever if the handler has returned.
Push(r) ==
    /\ run[r].pc = "push"
    /\ run[r].todo # <<>>
    /\ Room(r)
    /\ out' = [out EXCEPT ![r] = Append(@, Head(run[r].todo))]
    /\ run' = [run EXCEPT ![r].todo = Tail(@)]
    /\ UNCHANGED <<runnerVars, fn, clientVars, storeVars, met>>

\* The run gives up the registration unless a newer run has taken it.  The mutant
\* does not look whose it is.
ReleasedAny(r) == None

Released(r) == IF registered = r THEN None ELSE registered

Cleanup(r) ==
    /\ run[r].pc = "push"
    /\ run[r].todo = <<>>
    /\ registered' = Released(r)
    /\ run' = [run EXCEPT ![r].pc = "close"]
    /\ UNCHANGED <<cancelled, interruptID, resumed, fn, out, clientVars, storeVars, met>>

\* The deferred close.  The mutant forgets it on the path of a cancelled run.
CloseUnlessCancelled(r) ==
    /\ run[r].pc = "close"
    /\ r \notin cancelled
    /\ run' = [run EXCEPT ![r].pc = "over"]
    /\ UNCHANGED <<runnerVars, fn, out, clientVars, storeVars, met>>

CloseEvents(r) ==
    /\ run[r].pc = "close"
    /\ run' = [run EXCEPT ![r].pc = "over"]
    /\ UNCHANGED <<runnerVars, fn, out, clientVars, storeVars, met>>

-----------------------------------------------------------------------------
(* The function goroutine: the RunFunc of buildRunFunc *)

\* The RunFunc goes on, or returns, once it has nothing left to emit.
At(r, pc) == fn[r].pc = pc /\ fn[r].todo = <<>>

\* A write to the tracker does not land once the context is done.
Track(r, status) ==
    tracker' = IF ContextDone(r) THEN tracker
               ELSE [tracker EXCEPT ![session[r]] = [status |-> status, by |-> r]]

\* PushEvent, from the RunFunc or from a node of the workflow: an event is dropped
\* when the channel is closed, also under a sender that waits for room.
Emit(r) ==
    /\ fn[r].todo # <<>>
    /\ \/ Closed(r) /\ UNCHANGED out
       \/ ~Closed(r) /\ Room(r) /\ out' = [out EXCEPT ![r] = Append(@, Head(fn[r].todo))]
    /\ Move(r, fn[r].pc, Tail(fn[r].todo), fn[r].ret, fn[r].read)
    /\ UNCHANGED <<runnerVars, run, clientVars, storeVars, met>>

\* A resumed run does not say that it has started.
FnBegin(r) ==
    /\ At(r, "begin")
    /\ \/ ContextDone(r) /\ Return(r, "cancelled")
       \/ ~ContextDone(r) /\ Continue(r, "open", IF resumed[r] = None THEN <<"progress">> ELSE <<>>)
    /\ UNCHANGED <<runnerVars, run, out, clientVars, storeVars, met>>

\* A canvas without a DSL answers with a placeholder and is not tracked; a DSL
\* that cannot be decoded fails before the run is tracked as running.
FnOpen(r) ==
    /\ At(r, "open")
    /\ \/ /\ "placeholder" \in Outcomes[r]
          /\ Move(r, "return", <<"placeholder">>, "ok", {})
          /\ UNCHANGED tracker
       \/ "err" \in Outcomes[r] /\ Return(r, "err") /\ Track(r, "failed")
       \/ Continue(r, "compile", <<>>) /\ Track(r, "running")
    /\ UNCHANGED <<runnerVars, run, out, clientVars, history, met>>

\* Compile.  The nodes of the workflow emit events while it is invoked.  The
\* mutant returns the error and leaves the run tracked as running.
FnCompileUntracked(r) ==
    /\ At(r, "compile")
    /\ \/ "err" \in Outcomes[r] /\ Return(r, "err")
       \/ Continue(r, "invoke", <<"progress">>)
    /\ UNCHANGED <<runnerVars, run, out, clientVars, storeVars, met>>

FnCompile(r) ==
    /\ At(r, "compile")
    /\ \/ "err" \in Outcomes[r] /\ Return(r, "err") /\ Track(r, "failed")
       \/ Continue(r, "invoke", <<"progress">>) /\ UNCHANGED tracker
    /\ UNCHANGED <<runnerVars, run, out, clientVars, history, met>>

\* The workflow returns.  An interrupt counts as a failure for the tracker, and
\* comes with an answer to keep or without; a panic is turned into an error by
\* safeInvoke and leaves the tracker alone.
FnInvoke(r) ==
    /\ At(r, "invoke")
    /\ \/ /\ "ok" \in Outcomes[r]
          /\ Move(r, "load", <<>>, "ok", {})
          /\ UNCHANGED tracker
       \/ /\ "interrupt" \in Outcomes[r]
          /\ \/ Move(r, "load", <<>>, "interrupt", {})
             \/ Return(r, "interrupt")
          /\ Track(r, "failed")
       \/ "err" \in Outcomes[r] /\ Return(r, "err") /\ Track(r, "failed")
       \/ ContextDone(r) /\ Return(r, "cancelled") /\ Track(r, "failed")
       \/ "panic" \in Outcomes[r] /\ Return(r, "panic") /\ UNCHANGED tracker
    /\ UNCHANGED <<runnerVars, run, out, clientVars, history, met>>

\* Where the RunFunc goes when the answer is kept: a run that is complete still
\* has its success to record.
AfterAnswer(r) == IF fn[r].ret = "ok" THEN "mark" ELSE "return"

\* persistAgentRunSession reads the row of the session and writes it back with the
\* answer; a session without a row is left alone.
FnLoad(r) ==
    /\ At(r, "load")
    /\ \/ session[r] \notin Stored /\ Continue(r, AfterAnswer(r), <<"message">>)
       \/ session[r] \in Stored
          /\ Move(r, "store", <<>>, fn[r].ret, history[session[r]])
    /\ UNCHANGED <<runnerVars, run, out, clientVars, storeVars, met>>

\* The mutant replaces the row by the answer alone.
WithAnswerOnly(r) == {r}

WithAnswer(r) == fn[r].read \cup {r}

FnStore(r) ==
    /\ At(r, "store")
    /\ history' = [history EXCEPT ![session[r]] = WithAnswer(r)]
    /\ Continue(r, AfterAnswer(r), <<"message">>)
    /\ UNCHANGED <<runnerVars, run, out, clientVars, tracker, met>>

FnMark(r) ==
    /\ At(r, "mark")
    /\ Track(r, "succeeded")
    /\ Return(r, "ok")
    /\ UNCHANGED <<runnerVars, run, out, clientVars, history, met>>

FnReturn(r) ==
    /\ At(r, "return")
    /\ Return(r, fn[r].ret)
    /\ UNCHANGED <<runnerVars, run, out, clientVars, storeVars, met>>

-----------------------------------------------------------------------------
(* The handler and its client *)

\* The handler writes an event to the client; once the client has gone a write
\* may still be accepted, or fail and end the handler.
Read(r) ==
    /\ reader[r] = "reading"
    /\ out[r] # <<>>
    /\ out' = [out EXCEPT ![r] = Tail(@)]
    /\ IF r \in left
       THEN got' = got /\ (reader' = reader \/ reader' = [reader EXCEPT ![r] = "over"])
       ELSE got' = [got EXCEPT ![r] = @ \cup ({Head(out[r])} \cap Told)] /\ reader' = reader
    /\ UNCHANGED <<session, runnerVars, run, fn, left, storeVars, met>>

ReadEnd(r) ==
    /\ reader[r] = "reading"
    /\ out[r] = <<>>
    /\ Closed(r)
    /\ reader' = [reader EXCEPT ![r] = "over"]
    /\ UNCHANGED <<session, runnerVars, run, fn, out, left, got, storeVars, met>>

Leave(r) ==
    /\ reader[r] = "reading"
    /\ r \in Leavers \ left
    /\ left' = left \cup {r}
    /\ UNCHANGED <<session, runnerVars, run, fn, out, reader, got, storeVars, met>>

-----------------------------------------------------------------------------

RunNext(r) ==
    \/ TakeInterrupt(r) \/ InvokeReturns(r) \/ SaveInterrupt(r)
    \/ Push(r) \/ Cleanup(r) \/ CloseEvents(r)

FnNext(r) ==
    \/ Emit(r) \/ FnBegin(r) \/ FnOpen(r) \/ FnCompile(r) \/ FnInvoke(r)
    \/ FnLoad(r) \/ FnStore(r) \/ FnMark(r) \/ FnReturn(r)

HandlerNext(r) == Read(r) \/ ReadEnd(r)

Next ==
    \E r \in Requests :
        Register(r) \/ RunNext(r) \/ FnNext(r) \/ HandlerNext(r) \/ Leave(r)

Spec == Init /\ [][Next]_vars

\* A goroutine that can go on does, and a component gives up after its time limit,
\* so that an invocation ends.  Nothing makes a client send a request or leave.  A
\* request takes a bounded number of steps, so fairness of the goroutines together is
\* fairness of each.
Goroutines == \E r \in Requests : RunNext(r) \/ FnNext(r) \/ HandlerNext(r)

Fairness == WF_vars(Goroutines)

FairSpec == Spec /\ Fairness

-----------------------------------------------------------------------------
(* Properties *)

\* The run holds its registration or has lost it to a newer one.
Holds(r) == run[r].pc \notin {"idle", "close", "over"}

\* A run that has not been cancelled holds the registration of its canvas until it
\* has reported its outcome, so that the next request cancels it and at most one run
\* goes on (a run that ends deletes the registration only if it is its own).
RegistrationKept ==
    \A r \in Requests : Holds(r) /\ r \notin cancelled => registered = r

\* Of two runs of the canvas that have not cleaned up, one has been cancelled.
OneRunGoesOn ==
    \A q, r \in Requests :
        Holds(q) /\ Holds(r) /\ q \notin cancelled /\ r \notin cancelled => q = r

\* An interrupt is answered once: of the requests that find the same paused run, at
\* the same time or one after the other, one resumes it (getInterruptID deletes what
\* it reads under the lock, and no run saves itself again).
AnsweredOnce ==
    \A q, r \in Requests : resumed[q] # None /\ resumed[q] = resumed[r] => q = r

\* A client that has been told that the run waits for it can answer: its interrupt
\* is saved, or was taken by the request that answered (Run saves the id before it
\* pushes waiting_for_user).  Requests of one session that overlap can lose it.
WaitingCanBeAnswered ==
    \A r \in Requests \ met :
        "waiting" \in got[r] =>
            interruptID[session[r]] = r \/ \E q \in Requests : resumed[q] = r

\* A stream ends with `done` for a client that stays, unless a newer request has
\* cancelled the run (every other return of the run goroutine pushes the terminator).
EndsWithDone ==
    \A r \in Requests :
        reader[r] = "over" /\ r \notin left \cup cancelled => "done" \in got[r]

\* An answer that the client has seen is in the conversation (the RunFunc calls
\* persistAgentRunSession before it emits the message, with what it has just read).
\* Functions of one session that overlap can overwrite each other's row.
AnswersKept ==
    \A r \in Requests \ met :
        /\ "message" \in got[r]
        /\ session[r] \in Stored
        => r \in history[session[r]]

\* A run tracked as running is running, but for the ways its end is not recorded:
\* the context was done before the RunFunc could write it, or it panicked.
RunningIsLive ==
    \A s \in Sessions :
        tracker[s].status = "running" =>
            LET r == tracker[s].by
            IN  FnActive(r) \/ ContextDone(r) \/ fn[r].ret = "panic"

\* A handler does not wait for ever: its stream is closed (the run goroutine closes
\* the events channel on every path, a panic of the RunFunc included).
StreamsEnd == \A r \in Requests \ Paused : reader[r] = "reading" ~> reader[r] # "reading"

\* The RunFunc of a cancelled run ends, even one that waits for room in a channel
\* that nobody reads (the run goroutine leaves on cancel and closes the channel,
\* which drops what the RunFunc sends).
CancelledEnds ==
    \A r \in Requests \ Paused : FnActive(r) /\ r \in cancelled ~> ~FnActive(r)

-----------------------------------------------------------------------------
(* The inductive invariant of the proofs *)

Saved(r) == run[r].pc \in {"push", "close", "over"}

\* A paused run is waited on by its own session, after it has saved itself, until it
\* is resumed, and no run resumes another before it has taken the interrupt.
Interrupts ==
    /\ \A s \in Sessions :
          interruptID[s] # None => session[interruptID[s]] = s /\ Saved(interruptID[s])
    /\ \A q \in Requests :
          resumed[q] # None =>
              /\ Saved(resumed[q]) /\ run[q].pc \notin {"idle", "resume"}
              /\ \A s \in Sessions : interruptID[s] # resumed[q]

Has(events, e) == \E i \in 1..Len(events) : events[i] = e

\* The terminator is on its way: still to be pushed, in the channel or received.
DoneComes(r) == Has(run[r].todo, "done") \/ Has(out[r], "done") \/ "done" \in got[r]

\* A run that has an outcome to report has, unless its client has left or it was
\* cancelled, the terminator on its way, and its handler waits for the close.
Terminator(r) ==
    /\ run[r].pc \in {"save", "push", "close", "over"} =>
          /\ r \in left \cup cancelled \/ DoneComes(r)
          /\ r \in cancelled \/ fn[r].pc = "over"
    /\ run[r].pc \in {"close", "over"} => run[r].todo = <<>>
    /\ fn[r].ret = "cancelled" => r \in left \cup cancelled
    /\ reader[r] = "over" /\ r \notin left => Closed(r) /\ out[r] = <<>>

\* Types, the registration and the interrupts with what they rest on, and the way
\* the terminator of a stream takes.
RunnerInv ==
    /\ TypeOK /\ RegistrationKept /\ AnsweredOnce /\ Interrupts
    /\ \A r \in Requests : Terminator(r)

\* A request that has met no other is alone in its session while it is at work.
Apart == \A r \in Requests \ met : Active(r) => Others(r) = {}

\* Only the run goroutine asks the user and only the RunFunc answers.
Speakers ==
    \A r \in Requests : ~Has(fn[r].todo, "waiting") /\ ~Has(run[r].todo, "message")

\* The run has told its client, or is about to, that it waits for an answer.
Asks(r) ==
    \/ Saved(r) /\ Has(run[r].todo, "waiting")
    \/ Has(out[r], "waiting") \/ "waiting" \in got[r]

Resumed(r) == \E q \in Requests : resumed[q] = r

\* The interrupt of a run that asks is waited on or has been taken, and taken it is
\* once another run of the session may save an interrupt over it.
InterruptKept(r) ==
    Asks(r) =>
        /\ interruptID[session[r]] = r \/ Resumed(r)
        /\ \A q \in Requests \ {r} :
              session[q] = session[r] /\ run[q].pc \in {"invoke", "save"} => Resumed(r)

\* The RunFunc has told the client its answer, or is about to.
Answers(r) == Has(fn[r].todo, "message") \/ Has(out[r], "message") \/ "message" \in got[r]

\* An answer is in the row of the session, and in what every other RunFunc that is
\* about to write the row has read of it.
AnswerKept(r) ==
    Answers(r) /\ session[r] \in Stored =>
        /\ r \in history[session[r]]
        /\ \A q \in Requests \ {r} :
              session[q] = session[r] /\ fn[q].pc = "store" => r \in fn[q].read

\* The RunFunc has yet to record its end, or will never do so because it panicked.
Unrecorded(r) ==
    \/ fn[r].pc \in {"compile", "invoke"}
    \/ fn[r].pc \in {"load", "store", "mark"} /\ fn[r].ret = "ok"
    \/ fn[r].pc = "over" /\ fn[r].ret = "panic"

\* Who is tracked as running in a session belongs to it, and has its end to record
\* or can no longer write it.
TrackedLive ==
    \A s \in Sessions :
        tracker[s].status = "running" =>
            /\ tracker[s].by \in Requests /\ session[tracker[s].by] = s
            /\ ContextDone(tracker[s].by) \/ Unrecorded(tracker[s].by)

\* The RunFunc starts after its run has looked for an interrupt.
Fresh == \A r \in Requests : run[r].pc \in {"idle", "resume"} => fn[r].pc = "none"

\* With what the requests of one session do to each other.
IInv ==
    /\ RunnerInv /\ Apart /\ Speakers /\ Fresh /\ TrackedLive
    /\ \A r \in Requests \ met : InterruptKept(r) /\ AnswerKept(r)
=============================================================================
