---------------------------- MODULE ParallelSearch ----------------------------
(***************************************************************************)
(* LinearSearchParallelInt of src/search/searchutils.go: the caller splits *)
(* data into `thread` chunks, starts one LinearSearchParallelIntHelper      *)
(* goroutine per chunk, waits on a sync.WaitGroup and scans the per-chunk  *)
(* results.  When len(data) is not a multiple of thread it searches only   *)
(* the trailing remainder instead.                                         *)
(*                                                                         *)
(* A slice is a sequence; the Go indices 0..n-1 are the sequence positions *)
(* 1..n, and LinearSearchInt returns a Go index or -1.                     *)
(***************************************************************************)
EXTENDS Naturals, Integers, Sequences, FiniteSets

CONSTANTS
    Data,       \* the slices the caller may pass
    Vals,       \* the values a slice holds and the targets searched for
    Threads,    \* the thread counts the caller may pass
    MaxThread   \* an upper bound of Threads

ASSUME Threads \subseteq 0..MaxThread

Helper == 0..MaxThread-1

VARIABLES
    data, target, thread,  \* the arguments of LinearSearchParallelInt
    phase,   \* "call" | "waiting" | "done" | "panicked": the caller goroutine
    result,  \* the result slice shared with the helpers
    wg,      \* the WaitGroup counter
    hpc,     \* helper goroutine i: "none" | "search" | "done" | "exited"
    ret      \* the value LinearSearchParallelInt returns

vars == <<data, target, thread, phase, result, wg, hpc, ret>>

(* Mutant: the loop records the last match instead of returning the first. *)
LinearSearchIntLast(d, t) ==
    IF \E k \in 1..Len(d) : d[k] = t
    THEN (CHOOSE k \in 1..Len(d) : d[k] = t /\ \A j \in 1..Len(d) : d[j] = t => j <= k) - 1
    ELSE -1

(* LinearSearchInt: the Go index of the first element equal to t, or -1.   *)
LinearSearchInt(d, t) ==
    IF \E k \in 1..Len(d) : d[k] = t
    THEN (CHOOSE k \in 1..Len(d) : d[k] = t /\ \A j \in 1..k-1 : d[j] # t) - 1
    ELSE -1

(* data[lo:hi] in Go.                                                       *)
Slice(d, lo, hi) == SubSeq(d, lo + 1, hi)

(* Mutant: the chunk's offset is that of the next chunk.                    *)
ChunkOffsetNext(i, dx) == (i + 1) * dx

(* The Go index in data of a chunk's index 0.                               *)
ChunkOffset(i, dx) == i * dx

DataXThread == Len(data) \div thread

Init ==
    /\ data \in Data
    /\ target \in Vals
    /\ thread \in Threads
    /\ phase = "call"
    /\ result = [i \in Helper |-> 0]
    /\ wg = 0
    /\ hpc = [i \in Helper |-> "none"]
    /\ ret = -1

(* The body of LinearSearchParallelInt up to wg.Wait: the divisions (which  *)
(* panic when thread is 0), the oddment branch that returns at once, or    *)
(* make, wg.Add(thread) and one `go` per chunk.                             *)
Call ==
    /\ phase = "call"
    /\ IF thread = 0
       THEN /\ phase' = "panicked"
            /\ UNCHANGED <<result, wg, hpc, ret>>
       ELSE LET dx == DataXThread
                oddment == Len(data) % thread
            IN IF oddment # 0
               THEN LET found == LinearSearchInt(Slice(data, thread * dx, oddment + thread * dx), target)
                    IN /\ phase' = "done"
                       /\ ret' = IF found # -1 THEN found + thread * dx ELSE -1
                       /\ UNCHANGED <<result, wg, hpc>>
               ELSE /\ phase' = "waiting"
                    /\ result' = [i \in Helper |-> 0]
                    /\ wg' = thread
                    /\ hpc' = [i \in Helper |-> IF i < thread THEN "search" ELSE "none"]
                    /\ UNCHANGED ret
    /\ UNCHANGED <<data, target, thread>>

(* Helper i: result[i] = LinearSearchInt(its chunk, target).                *)
HelperSearch(i) ==
    /\ hpc[i] = "search"
    /\ LET dx == DataXThread
       IN result' = [result EXCEPT ![i] = LinearSearchInt(Slice(data, i * dx, (i + 1) * dx), target)]
    /\ hpc' = [hpc EXCEPT ![i] = "done"]
    /\ UNCHANGED <<data, target, thread, phase, wg, ret>>

(* Mutant: the helper returns without calling wg.Done().                   *)
HelperDoneMissing(i) ==
    /\ hpc[i] = "done"
    /\ hpc' = [hpc EXCEPT ![i] = "exited"]
    /\ UNCHANGED <<data, target, thread, phase, result, wg, ret>>

(* Helper i: the deferred wg.Done().                                        *)
HelperDone(i) ==
    /\ hpc[i] = "done"
    /\ wg' = wg - 1
    /\ hpc' = [hpc EXCEPT ![i] = "exited"]
    /\ UNCHANGED <<data, target, thread, phase, result, ret>>

(* The first chunk whose result is not -1, in index order.                  *)
FirstHit == {i \in 0..thread-1 : result[i] # -1}

(* wg.Wait() returns and the caller scans result in index order.            *)
Wait ==
    /\ phase = "waiting"
    /\ wg = 0
    /\ phase' = "done"
    /\ ret' = IF FirstHit = {} THEN -1
              ELSE LET i == CHOOSE j \in FirstHit : \A k \in FirstHit : j <= k
                   IN result[i] + ChunkOffset(i, DataXThread)
    /\ UNCHANGED <<data, target, thread, result, wg, hpc>>

(* The call has returned or panicked: nothing is left to run.               *)
Returned ==
    /\ phase \in {"done", "panicked"}
    /\ UNCHANGED vars

Next ==
    \/ Call
    \/ \E i \in Helper : HelperSearch(i) \/ HelperDone(i)
    \/ Wait
    \/ Returned

(* The Go scheduler eventually runs every runnable goroutine.               *)
Fairness ==
    /\ WF_vars(Call)
    /\ WF_vars(Wait)
    /\ \A i \in Helper : WF_vars(HelperSearch(i)) /\ WF_vars(HelperDone(i))

Spec == Init /\ [][Next]_vars /\ Fairness

-----------------------------------------------------------------------------
(* Reference: the Go index of the first occurrence of t in d, or -1.        *)
FirstIndex(d, t) ==
    LET hits == {k \in 0..Len(d)-1 : d[k+1] = t}
    IN IF hits = {} THEN -1 ELSE CHOOSE k \in hits : \A j \in hits : k <= j

MaxLen == CHOOSE n \in {Len(d) : d \in Data} : \A d \in Data : Len(d) <= n

TypeOK ==
    /\ data \in Data /\ target \in Vals /\ thread \in Threads
    /\ phase \in {"call", "waiting", "done", "panicked"}
    /\ result \in [Helper -> -1..MaxLen-1]
    /\ wg \in 0..MaxThread
    /\ hpc \in [Helper -> {"none", "search", "done", "exited"}]
    /\ ret \in -1..MaxLen-1

(* LinearSearchParallelInt returns what the sequential LinearSearchInt     *)
(* returns on the whole slice, whatever order the helper goroutines run    *)
(* and finish in: the first occurrence's index, or -1.                     *)
MatchesSequential ==
    phase = "done" => ret = FirstIndex(data, target)

(* Every call returns or panics: wg.Wait is never left waiting on a helper *)
(* that will not call Done.                                                 *)
Terminates == <>(phase \in {"done", "panicked"})
=============================================================================
