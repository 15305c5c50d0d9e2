--------------------------- MODULE GracefulShutdown ---------------------------
(***************************************************************************)
(* GracefulShutdown of src/graceful/gracefulshutdown.go and the process   *)
(* around it.  The call returns at once after starting a goroutine that   *)
(* registers for SIGINT/SIGTERM, waits for one signal, arms a force-exit  *)
(* timer (os.Exit(0) after `timeout`), runs every operation in a goroutine *)
(* of its own, waits for them on a WaitGroup, closes the `wait` channel    *)
(* and stops the timer on return.                                          *)
(*                                                                         *)
(* The caller's main goroutine is the environment: after the call it may  *)
(* return (ending the process) at any moment if MainMayReturn holds.  An   *)
(* operation in MayHang may block forever inside op(ctx).  Time is not     *)
(* measured: the timer fires at any moment after it is armed and before    *)
(* it is stopped.                                                          *)
(***************************************************************************)
EXTENDS Naturals, FiniteSets

CONSTANTS
    Ops,            \* the keys of the operations map
    MayHang,        \* operations whose op(ctx) may never return
    MainMayReturn,  \* whether the caller's main may return on its own
    MaxSignals      \* how many signals the environment sends at most

ASSUME MayHang \subseteq Ops /\ MainMayReturn \in BOOLEAN /\ MaxSignals \in Nat

VARIABLES
    spc,      \* the signal goroutine: "none" | "start" | "listen" | "spawn" | "wait" | "stop" | "end"
    sigbuf,   \* signals buffered in signalchan (capacity 1)
    sent,     \* signals the environment has sent
    timer,    \* "none" | "armed" | "stopped"
    wg,       \* the WaitGroup counter
    opc,      \* operation goroutine: "idle" | "running" | "returned" | "done"
    waitClosed,  \* close(wait) has happened
    exited    \* how the process ended: "no" | "main" | "timer" | "signal" | "panic"

vars == <<spc, sigbuf, sent, timer, wg, opc, waitClosed, exited>>

Running == exited = "no"

(* The call: with no operations it returns without starting anything.      *)
Init ==
    /\ spc = IF Ops = {} THEN "none" ELSE "start"
    /\ sigbuf = 0
    /\ sent = 0
    /\ timer = "none"
    /\ wg = 0
    /\ opc = [o \in Ops |-> "idle"]
    /\ waitClosed = FALSE
    /\ exited = "no"

(* Mutant: signalchan is made with capacity 2.                             *)
SignalBufferTwo ==
    /\ Running
    /\ sent < MaxSignals
    /\ sent' = sent + 1
    /\ IF spc \in {"none", "start"}
       THEN /\ exited' = "signal"
            /\ UNCHANGED sigbuf
       ELSE /\ sigbuf' = IF sigbuf < 2 THEN sigbuf + 1 ELSE sigbuf
            /\ UNCHANGED exited
    /\ UNCHANGED <<spc, timer, wg, opc, waitClosed>>

(* The environment sends SIGINT or SIGTERM.  Before signal.Notify the     *)
(* default action terminates the process; after it the signal goes to the *)
(* buffered channel, or is dropped when the buffer is full.                *)
Signal ==
    /\ Running
    /\ sent < MaxSignals
    /\ sent' = sent + 1
    /\ IF spc \in {"none", "start"}
       THEN /\ exited' = "signal"
            /\ UNCHANGED sigbuf
       ELSE /\ sigbuf' = 1
            /\ UNCHANGED exited
    /\ UNCHANGED <<spc, timer, wg, opc, waitClosed>>

(* signal.Notify(signalchan, ...).                                          *)
Notify ==
    /\ Running
    /\ spc = "start"
    /\ spc' = "listen"
    /\ UNCHANGED <<sigbuf, sent, timer, wg, opc, waitClosed, exited>>

(* Mutant: the timer is stopped as soon as it is armed (Stop not deferred). *)
ReceiveStopNow ==
    /\ Running
    /\ spc = "listen"
    /\ sigbuf = 1
    /\ sigbuf' = 0
    /\ timer' = "stopped"
    /\ wg' = Cardinality(Ops)
    /\ spc' = "spawn"
    /\ UNCHANGED <<sent, opc, waitClosed, exited>>

(* Mutant: wg.Add is given one less than the number of operations.         *)
WgCountShort(S) == Cardinality(S) - 1

(* wg.Add(len(operations)).                                                 *)
WgCount(S) == Cardinality(S)

(* oscall := <-signalchan, then time.AfterFunc and wg.Add.                  *)
Receive ==
    /\ Running
    /\ spc = "listen"
    /\ sigbuf = 1
    /\ sigbuf' = 0
    /\ timer' = "armed"
    /\ wg' = WgCount(Ops)
    /\ spc' = "spawn"
    /\ UNCHANGED <<sent, opc, waitClosed, exited>>

(* One iteration of `for k, op := range operations`: `go func(k, op)`, in  *)
(* the map's unspecified order.                                            *)
Spawn(o) ==
    /\ Running
    /\ spc = "spawn"
    /\ opc[o] = "idle"
    /\ opc' = [opc EXCEPT ![o] = "running"]
    /\ spc' = IF \A p \in Ops \ {o} : opc[p] # "idle" THEN "wait" ELSE "spawn"
    /\ UNCHANGED <<sigbuf, sent, timer, wg, waitClosed, exited>>

(* op(ctx) returns; its error is only logged.                              *)
OpReturn(o) ==
    /\ Running
    /\ opc[o] = "running"
    /\ opc' = [opc EXCEPT ![o] = "returned"]
    /\ UNCHANGED <<spc, sigbuf, sent, timer, wg, waitClosed, exited>>

(* The goroutine's deferred wg.Done(); a negative counter panics.          *)
OpDone(o) ==
    /\ Running
    /\ opc[o] = "returned"
    /\ opc' = [opc EXCEPT ![o] = "done"]
    /\ IF wg = 0
       THEN exited' = "panic" /\ UNCHANGED wg
       ELSE wg' = wg - 1 /\ UNCHANGED exited
    /\ UNCHANGED <<spc, sigbuf, sent, timer, waitClosed>>

(* wg.Wait() returns; close(wait).                                          *)
CloseWait ==
    /\ Running
    /\ spc = "wait"
    /\ wg = 0
    /\ spc' = "stop"
    /\ waitClosed' = TRUE
    /\ UNCHANGED <<sigbuf, sent, timer, wg, opc, exited>>

(* The goroutine returns: the deferred timeAfterExecuted.Stop().            *)
StopTimer ==
    /\ Running
    /\ spc = "stop"
    /\ spc' = "end"
    /\ timer' = IF timer = "armed" THEN "stopped" ELSE timer
    /\ UNCHANGED <<sigbuf, sent, wg, opc, waitClosed, exited>>

(* The AfterFunc callback: logger.Warn and os.Exit(0).                      *)
TimerFire ==
    /\ Running
    /\ timer = "armed"
    /\ exited' = "timer"
    /\ UNCHANGED <<spc, sigbuf, sent, timer, wg, opc, waitClosed>>

(* The caller's main returns and the process ends with every goroutine.    *)
MainReturns ==
    /\ Running
    /\ MainMayReturn
    /\ exited' = "main"
    /\ UNCHANGED <<spc, sigbuf, sent, timer, wg, opc, waitClosed>>

(* The process has ended, or is alive with nothing left to do.             *)
Ended ==
    /\ \/ ~Running
       \/ /\ sent = MaxSignals
          /\ spc = "listen" => sigbuf = 0
          /\ spc \in {"none", "listen", "end"}
    /\ UNCHANGED vars

Next ==
    \/ Signal \/ Notify \/ Receive \/ CloseWait \/ StopTimer \/ TimerFire
    \/ \E o \in Ops : Spawn(o) \/ OpReturn(o) \/ OpDone(o)
    \/ MainReturns
    \/ Ended

(* The Go runtime runs every runnable goroutine and fires a due timer; an  *)
(* operation outside MayHang returns.  The environment is not fair.        *)
Fairness ==
    /\ WF_vars(Notify) /\ WF_vars(Receive) /\ WF_vars(CloseWait)
    /\ WF_vars(StopTimer) /\ WF_vars(TimerFire)
    /\ \A o \in Ops : WF_vars(Spawn(o)) /\ WF_vars(OpDone(o))
    /\ \A o \in Ops \ MayHang : WF_vars(OpReturn(o))

Spec == Init /\ [][Next]_vars /\ Fairness

-----------------------------------------------------------------------------
TypeOK ==
    /\ spc \in {"none", "start", "listen", "spawn", "wait", "stop", "end"}
    /\ sigbuf \in 0..1 /\ sent \in 0..MaxSignals
    /\ timer \in {"none", "armed", "stopped"}
    /\ wg \in 0..Cardinality(Ops)
    /\ opc \in [Ops -> {"idle", "running", "returned", "done"}]
    /\ waitClosed \in BOOLEAN
    /\ exited \in {"no", "main", "timer", "signal", "panic"}

(* The wait channel is closed only after every operation's goroutine has  *)
(* returned: wg.Add and the deferred wg.Done calls account for each one.   *)
WaitClosedAfterAllOperations ==
    waitClosed => \A o \in Ops : opc[o] = "done"

(* Once a signal has been received, shutdown ends: every operation returns *)
(* and the wait channel is closed, or the process exits (the force-exit    *)
(* timer when an operation hangs).                                          *)
ShutdownEnds ==
    (spc = "spawn") ~> (waitClosed \/ exited # "no")

(* The process never ends while an operation is still running, unless the *)
(* force-exit timer ends it.                                               *)
NoExitDuringOperations ==
    exited \in {"main", "signal"} => \A o \in Ops : opc[o] \in {"idle", "done"}
=============================================================================
