-------------------------------- MODULE Kernel --------------------------------
(***************************************************************************)
(* The database wrapper and the event service: nested transactions as      *)
(* savepoints, events published inside a transaction, hooks that run in it *)
(* and may veto it, and callbacks that run once the outermost transaction  *)
(* has committed.  Everything runs on one synchronous call stack.  After   *)
(* the commit flush runs the callbacks in order; a callback may itself run *)
(* a transaction, whose own callbacks then run before the rest of the list.*)
(* A callback of the event bus reaches subscribers that catch what they    *)
(* throw; one that is work (dispatch of a publication, a rollback) does    *)
(* not.                                                                    *)
(*                                                                         *)
(* A callback that throws leaves flush inside the try of tx, after the     *)
(* commit: depth becomes -1 and from then on every tx() begins with        *)
(* SAVEPOINT sp-1, a syntax error.  The process serves no further change   *)
(* until it is restarted.  No caller catches inside a transaction what a   *)
(* nested one threw.                                                       *)
(***************************************************************************)
EXTENDS Naturals, Sequences, FiniteSets, SequencesExt

CONSTANTS
  Events,           \* events that may be published, each once
  MaxDepth,         \* bound: nesting of transactions
  MaxWork,          \* bound: callbacks that are work
  MaxKernelCrashes  \* bound: crashes

ASSUME KernelConstants ==
  /\ {MaxDepth, MaxWork, MaxKernelCrashes} \subseteq Nat
  /\ "WORK" \notin Events

VARIABLES
  rows,       \* committed rows of the events table
  streamed,   \* events the bus has delivered
  frames,     \* work of each open transaction and savepoint, outermost first
  pending,    \* callbacks to run after the commit: an event, or Work
  flushing,   \* lists being flushed, outermost first: [list, running]
  throwing,   \* an exception is on its way up the stack
  wedged,     \* depth is -1
  undone,     \* events whose transaction threw
  worked,     \* work callbacks registered so far
  failures    \* crashes so far

kernelVars == <<rows, streamed, frames, pending, flushing, throwing, wedged, undone,
                worked, failures>>

Work == "WORK"
Written == UNION ToSet(frames)
Top(s) == s[Len(s)]
SetTop(s, x) == [s EXCEPT ![Len(s)] = x]

KernelInit ==
  /\ rows = {}
  /\ streamed = << >>
  /\ frames = << >>
  /\ pending = << >>
  /\ flushing = << >>
  /\ throwing = FALSE
  /\ wedged = FALSE
  /\ undone = {}
  /\ worked = 0
  /\ failures = 0

\* A handler, or a callback that is running, has control.
InCode ==
  /\ ~throwing
  /\ (frames = << >> /\ flushing # << >>) => Top(flushing).running

\* tx: BEGIN or SAVEPOINT.
BeginTx ==
  /\ InCode
  /\ ~wedged
  /\ Len(frames) < MaxDepth
  /\ frames' = Append(frames, {})
  /\ UNCHANGED <<rows, streamed, pending, flushing, throwing, wedged, undone, worked,
                 failures>>

Raised == throwing' = TRUE /\ undone' = undone \cup Written'

\* publish: the row, the hooks in the same transaction, then the callback.  A
\* hook that throws vetoes the change.
Publish(e) ==
  /\ InCode
  /\ frames # << >>
  /\ e \notin rows \cup undone \cup Written
  /\ frames' = SetTop(frames, Top(frames) \cup {e})
  /\ \/ pending' = Append(pending, e) /\ UNCHANGED <<throwing, undone>>
     \/ Raised /\ UNCHANGED pending
  /\ UNCHANGED <<rows, streamed, flushing, wedged, worked, failures>>

\* afterCommit for work of its own.
AfterCommit ==
  /\ InCode
  /\ frames # << >>
  /\ worked < MaxWork
  /\ worked' = worked + 1
  /\ pending' = Append(pending, Work)
  /\ UNCHANGED <<rows, streamed, frames, flushing, throwing, wedged, undone, failures>>

Throw ==
  /\ InCode
  /\ frames # << >> \/ flushing # << >>
  /\ UNCHANGED <<rows, streamed, frames, pending, flushing, wedged, worked, failures>>
  /\ Raised

\* Mutant of Release: the inner transaction commits.
ReleaseCommits ==
  /\ InCode
  /\ Len(frames) > 1
  /\ rows' = rows \cup Top(frames)
  /\ frames' = SetTop(Front(frames), Top(Front(frames)) \cup Top(frames))
  /\ UNCHANGED <<streamed, pending, flushing, throwing, wedged, undone, worked, failures>>

\* The callback of a nested tx returned: RELEASE.
Release ==
  /\ InCode
  /\ Len(frames) > 1
  /\ frames' = SetTop(Front(frames), Top(Front(frames)) \cup Top(frames))
  /\ UNCHANGED <<rows, streamed, pending, flushing, throwing, wedged, undone, worked,
                 failures>>

\* Mutant of CommitTx: no flush within a flush.
CommitTxQuiet ==
  /\ InCode
  /\ Len(frames) = 1
  /\ rows' = rows \cup Written
  /\ frames' = << >>
  /\ pending' = << >>
  /\ flushing' = IF pending = << >> \/ flushing # << >> THEN flushing
                 ELSE Append(flushing, [list |-> pending, running |-> FALSE])
  /\ UNCHANGED <<streamed, throwing, wedged, undone, worked, failures>>

\* The callback of the outermost tx returned: COMMIT, then flush.
CommitTx ==
  /\ InCode
  /\ Len(frames) = 1
  /\ rows' = rows \cup Written
  /\ frames' = << >>
  /\ pending' = << >>
  /\ flushing' = IF pending = << >> THEN flushing
                 ELSE Append(flushing, [list |-> pending, running |-> FALSE])
  /\ UNCHANGED <<streamed, throwing, wedged, undone, worked, failures>>

\* Mutant of Rollback: the callbacks are kept.
RollbackKeepsPending ==
  /\ throwing
  /\ frames # << >>
  /\ frames' = Front(frames)
  /\ UNCHANGED pending
  /\ UNCHANGED <<rows, streamed, flushing, throwing, wedged, undone, worked, failures>>

\* catch of tx: ROLLBACK and forget the callbacks, or ROLLBACK TO the savepoint;
\* then the exception goes on up.
Rollback ==
  /\ throwing
  /\ frames # << >>
  /\ frames' = Front(frames)
  /\ pending' = IF Len(frames) = 1 THEN << >> ELSE pending
  /\ UNCHANGED <<rows, streamed, flushing, throwing, wedged, undone, worked, failures>>

\* flush: the next callback of the innermost list begins.
RunCallback ==
  LET f == Top(flushing) IN
  /\ ~throwing /\ frames = << >> /\ flushing # << >>
  /\ ~f.running
  /\ flushing' = SetTop(flushing, [f EXCEPT !.running = TRUE])
  /\ streamed' = IF Head(f.list) = Work THEN streamed ELSE Append(streamed, Head(f.list))
  /\ UNCHANGED <<rows, frames, pending, throwing, wedged, undone, worked, failures>>

NextCallback ==
  LET f == Top(flushing) IN
  IF Len(f.list) = 1 THEN Front(flushing)
  ELSE SetTop(flushing, [list |-> Tail(f.list), running |-> FALSE])

EndCallback ==
  /\ ~throwing /\ frames = << >> /\ flushing # << >>
  /\ Top(flushing).running
  /\ flushing' = NextCallback
  /\ UNCHANGED <<rows, streamed, frames, pending, throwing, wedged, undone, worked, failures>>

\* The exception leaves a callback.  A subscriber of the bus catches it; from
\* work it goes through flush into the catch of the committed tx: the rest of
\* the list is lost, depth is -1, and the failing ROLLBACK throws in turn.
Escape ==
  /\ throwing /\ frames = << >> /\ flushing # << >>
  /\ IF Head(Top(flushing).list) = Work
     THEN wedged' = TRUE /\ flushing' = Front(flushing) /\ UNCHANGED throwing
     ELSE throwing' = FALSE /\ UNCHANGED <<wedged, flushing>>
  /\ UNCHANGED <<rows, streamed, frames, pending, undone, worked, failures>>

\* The exception reaches the request that began it all.
Answer500 ==
  /\ throwing /\ frames = << >> /\ flushing = << >>
  /\ throwing' = FALSE
  /\ UNCHANGED <<rows, streamed, frames, pending, flushing, wedged, undone, worked, failures>>

KernelCrash ==
  /\ failures < MaxKernelCrashes
  /\ failures' = failures + 1
  /\ undone' = undone \cup Written
  /\ frames' = << >> /\ pending' = << >> /\ flushing' = << >>
  /\ throwing' = FALSE /\ wedged' = FALSE
  /\ UNCHANGED <<rows, streamed, worked>>

KernelNext ==
  \/ BeginTx \/ AfterCommit \/ Throw
  \/ \E e \in Events : Publish(e)
  \/ Release \/ CommitTx \/ Rollback
  \/ RunCallback \/ EndCallback \/ Escape \/ Answer500
  \/ KernelCrash

KernelSpec == KernelInit /\ [][KernelNext]_kernelVars

-----------------------------------------------------------------------------
(* Properties *)

KernelTypeOK ==
  /\ rows \subseteq Events
  /\ streamed \in Seq(Events)
  /\ frames \in Seq(SUBSET Events)
  /\ pending \in Seq(Events \cup {Work})
  /\ flushing \in Seq([list: Seq(Events \cup {Work}), running: BOOLEAN])
  /\ throwing \in BOOLEAN
  /\ wedged \in BOOLEAN
  /\ undone \subseteq Events
  /\ worked \in Nat
  /\ failures \in Nat

\* Durable at once or not at all, streamed at most once and only when durable,
\* however transactions nest, hooks veto, callbacks throw and run transactions of
\* their own (db.ts:18-20, event.service.ts:39).
Stream == INSTANCE CommittedStream
StreamsCommitted == Stream!Spec

\* What a transaction wrote before it threw is never durable.
UndoneStaysOut == rows \cap undone = {}

\* When the stack is empty every durable event has been streamed, unless work of
\* a callback threw (the tx it belongs to fails although it is committed, and
\* the process is wedged) or the process crashed.
NothingUnheard ==
  frames = << >> /\ flushing = << >> /\ ~wedged /\ failures = 0 => rows = ToSet(streamed)
=============================================================================
