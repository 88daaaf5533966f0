---------------------------- MODULE ThreadedApply ----------------------------
(***************************************************************************)
(* gm_apply_thread (libgumath/thread.c): one kernel applied to the outer   *)
(* dimensions of its arguments by several pthreads.                        *)
(*                                                                         *)
(* The caller splits every argument into the same number of slices,        *)
(* creates one thread for each column of slices, joins the threads in      *)
(* order, and takes over the error of the first that failed.  Slices and   *)
(* thread_info records belong to the caller; the threads borrow them.      *)
(*                                                                         *)
(* Abstracted: what a kernel computes.  An application to one element of   *)
(* the outer dimensions writes that element of the output or fails.        *)
(* pthread_join of a thread that exists and was not joined does not fail.  *)
(***************************************************************************)
EXTENDS Split, FiniteSets

CONSTANTS
    Dims,       \* the dimensions of the arguments, one sequence per argument
    OuterDims,  \* the number of outer dimensions
    MaxThreads  \* bound: threads asked for

Arg == DOMAIN Dims
Shape == SubSeq(Dims[1], 1, OuterDims)
Element == Indices(Shape)
Thread == 1..MaxThreads

\* Broadcasting has given all arguments the same outer dimensions.
ASSUME ApplyAssumption ==
    /\ OuterDims \in Nat \ {0} /\ MaxThreads \in Nat
    /\ Dims \in Seq(Seq(Nat)) /\ Dims # <<>>
    /\ \A a \in Arg : OuterDims <= Len(Dims[a]) /\ SubSeq(Dims[a], 1, OuterDims) = Shape

None == [kind |-> "none"]
Failed(x) == [kind |-> "kernel", at |-> x]          \* the kernel's own error
OutOfMemory == [kind |-> "memory"]
NoThread == [kind |-> "create"]
Unequal == [kind |-> "unequal"]

VARIABLES
    nthreads,   \* threads the caller asks for
    large,      \* every argument reaches GM_THREAD_CUTOFF elements
    bad,        \* elements on which the kernel fails
    pc,         \* where the caller is
    slices,     \* slices of every argument that was split and not cleared
    tinfo,      \* the caller's thread_info array: "none", "live", "freed"
    tnum,       \* the caller's loop variable
    todo,       \* the elements ahead of every thread, and of the caller
    copied,     \* how many arguments a thread has copied from its slices
    state,      \* "none", "copy", "apply" or "exited", for every thread
    tctx,       \* the error context of every thread
    ctx,        \* the error context of the caller
    writes      \* how often every element of the output was written

inputs == <<nthreads, large, bad>>
workers == <<todo, copied, state, tctx, writes>>
vars == <<inputs, pc, slices, tinfo, tnum, workers, ctx>>

Caller == 0
Splits == [n \in 1..MaxThreads |-> [a \in Arg |-> xnd_split(n, Dims[a], OuterDims)]]
Rows(a) == Splits[nthreads][a]
First(S) == CHOOSE x \in S : \A y \in S : ~Before(y, x)    \* in memory order

Init ==
    /\ nthreads \in 0..MaxThreads
    /\ large \in BOOLEAN
    /\ bad \in SUBSET Element
    /\ pc = "enter"
    /\ slices = <<>> /\ tinfo = "none" /\ tnum = 1
    /\ todo = [t \in {Caller} \cup Thread |-> {}]
    /\ copied = [t \in Thread |-> 0]
    /\ state = [t \in Thread |-> "none"]
    /\ tctx = [t \in Thread |-> None]
    /\ ctx = None
    /\ writes = [x \in Element |-> 0]

-----------------------------------------------------------------------------
(* The kernel loop.                                                        *)

\* One application, by the caller or a thread: gm_xnd_map goes through the
\* elements in memory order and stops at the first failure.
Compute(t) ==
    /\ todo[t] # {}
    /\ LET x == First(todo[t]) IN
       IF x \in bad
       THEN todo' = [todo EXCEPT ![t] = {}] /\ UNCHANGED writes
       ELSE /\ todo' = [todo EXCEPT ![t] = @ \ {x}]
            /\ writes' = [writes EXCEPT ![x] = @ + 1]

Error(t) == IF First(todo[t]) \in bad THEN Failed(First(todo[t])) ELSE None

-----------------------------------------------------------------------------
(* The caller.                                                             *)

use_threads == nthreads > 1 /\ large

Enter ==
    /\ pc = "enter"
    /\ IF use_threads
       THEN pc' = "split" /\ UNCHANGED todo
       ELSE pc' = "direct" /\ todo' = [todo EXCEPT ![Caller] = Element]
    /\ UNCHANGED <<inputs, slices, tinfo, tnum, copied, state, tctx, writes, ctx>>

\* gm_apply by the caller itself.
Direct ==
    /\ pc = "direct"
    /\ \/ Compute(Caller) /\ ctx' = Error(Caller) /\ UNCHANGED pc
       \/ /\ todo[Caller] = {} /\ pc' = "done"
          /\ UNCHANGED <<todo, writes, ctx>>
    /\ UNCHANGED <<inputs, slices, tinfo, tnum, copied, state, tctx>>

\* Leaving with an error: clear_all_slices, and the records if there are any.
GiveUp(error) ==
    /\ ctx' = error /\ pc' = "done"
    /\ slices' = <<>>
    /\ tinfo' = IF tinfo = "live" THEN "freed" ELSE tinfo

\* Faulty variant: the slices made so far are forgotten.
SplitFails_Forget ==
    /\ pc = "split" /\ Len(slices) < Len(Dims)
    /\ ctx' = OutOfMemory /\ pc' = "done"
    /\ UNCHANGED <<inputs, slices, tinfo, tnum, workers>>

SplitArgument ==
    /\ pc = "split" /\ Len(slices) < Len(Dims)
    /\ Rows(Len(slices) + 1).ok
    /\ slices' = Append(slices, Rows(Len(slices) + 1).rows)
    /\ UNCHANGED <<inputs, pc, tinfo, tnum, workers, ctx>>

SplitFails ==
    /\ pc = "split" /\ Len(slices) < Len(Dims)
    /\ GiveUp(OutOfMemory)
    /\ UNCHANGED <<inputs, tnum, workers>>

ncols == Len(slices[1])

\* All arguments are split; the thread_info array is allocated, or is not.
Compare ==
    /\ pc = "split" /\ Len(slices) = Len(Dims)
    /\ IF \E a \in Arg : Len(slices[a]) # ncols
       THEN GiveUp(Unequal)
       ELSE \/ pc' = "create" /\ tinfo' = "live" /\ UNCHANGED <<slices, ctx>>
            \/ GiveUp(OutOfMemory)
    /\ UNCHANGED <<inputs, tnum, workers>>

Create ==
    /\ pc = "create" /\ tnum <= ncols
    /\ state' = [state EXCEPT ![tnum] = "copy"]
    /\ tnum' = tnum + 1
    /\ UNCHANGED <<inputs, pc, slices, tinfo, todo, copied, tctx, writes, ctx>>

\* The threads that exist already are neither stopped nor joined.
CreateFails ==
    /\ pc = "create" /\ tnum <= ncols
    /\ GiveUp(NoThread)
    /\ UNCHANGED <<inputs, tnum, workers>>

Created ==
    /\ pc = "create" /\ tnum > ncols
    /\ pc' = "join" /\ tnum' = 1
    /\ UNCHANGED <<inputs, slices, tinfo, workers, ctx>>

\* Faulty variant: a later error overwrites an earlier one.
Join_LastError ==
    /\ pc = "join" /\ tnum <= ncols /\ state[tnum] = "exited"
    /\ ctx' = IF tctx[tnum] = None THEN ctx ELSE tctx[tnum]
    /\ tctx' = [tctx EXCEPT ![tnum] = None]
    /\ tnum' = tnum + 1
    /\ UNCHANGED <<inputs, pc, slices, tinfo, todo, copied, state, writes>>

\* Faulty variant: the caller does not wait.
Join_NoWait ==
    /\ pc = "join" /\ tnum <= ncols
    /\ ctx' = IF ctx = None THEN tctx[tnum] ELSE ctx
    /\ tctx' = [tctx EXCEPT ![tnum] = None]
    /\ tnum' = tnum + 1
    /\ UNCHANGED <<inputs, pc, slices, tinfo, todo, copied, state, writes>>

Join ==
    /\ pc = "join" /\ tnum <= ncols /\ state[tnum] = "exited"
    /\ ctx' = IF ctx = None THEN tctx[tnum] ELSE ctx
    /\ tctx' = [tctx EXCEPT ![tnum] = None]
    /\ tnum' = tnum + 1
    /\ UNCHANGED <<inputs, pc, slices, tinfo, todo, copied, state, writes>>

Joined ==
    /\ pc = "join" /\ tnum > ncols
    /\ GiveUp(ctx)
    /\ UNCHANGED <<inputs, tnum, workers>>

-----------------------------------------------------------------------------
(* apply_thread.                                                           *)

\* A thread copies its column of slices to its own stack, one argument
\* after the other.
Copy(t) ==
    /\ state[t] = "copy" /\ copied[t] < Len(Dims)
    /\ copied' = [copied EXCEPT ![t] = @ + 1]
    /\ UNCHANGED <<inputs, pc, slices, tinfo, tnum, todo, state, tctx, writes, ctx>>

Column(t) == Rows(1).rows[t]

\* Faulty variant: every thread takes the first column.
StartApply_FirstColumn(t) ==
    /\ state[t] = "copy" /\ copied[t] = Len(Dims)
    /\ state' = [state EXCEPT ![t] = "apply"]
    /\ todo' = [todo EXCEPT ![t] = Selected(Column(1), Shape)]
    /\ UNCHANGED <<inputs, pc, slices, tinfo, tnum, copied, tctx, writes, ctx>>

StartApply(t) ==
    /\ state[t] = "copy" /\ copied[t] = Len(Dims)
    /\ state' = [state EXCEPT ![t] = "apply"]
    /\ todo' = [todo EXCEPT ![t] = Selected(Column(t), Shape)]
    /\ UNCHANGED <<inputs, pc, slices, tinfo, tnum, copied, tctx, writes, ctx>>

Apply(t) ==
    /\ state[t] = "apply"
    /\ Compute(t)
    /\ tctx' = [tctx EXCEPT ![t] = Error(t)]
    /\ UNCHANGED <<inputs, pc, slices, tinfo, tnum, copied, state, ctx>>

\* Faulty variant: a thread that fails never leaves.
Exit_OnlySuccess(t) ==
    /\ state[t] = "apply" /\ todo[t] = {} /\ tctx[t] = None
    /\ state' = [state EXCEPT ![t] = "exited"]
    /\ UNCHANGED <<inputs, pc, slices, tinfo, tnum, todo, copied, tctx, writes, ctx>>

Exit(t) ==
    /\ state[t] = "apply" /\ todo[t] = {}
    /\ state' = [state EXCEPT ![t] = "exited"]
    /\ UNCHANGED <<inputs, pc, slices, tinfo, tnum, todo, copied, tctx, writes, ctx>>

CallerStep ==
    \/ Enter \/ Direct
    \/ SplitArgument \/ SplitFails \/ Compare
    \/ Create \/ CreateFails \/ Created
    \/ Join \/ Joined

apply_thread(t) == Copy(t) \/ StartApply(t) \/ Apply(t) \/ Exit(t)

Next == CallerStep \/ \E t \in Thread : apply_thread(t)

Spec == Init /\ [][Next]_vars

-----------------------------------------------------------------------------
(* Properties.                                                             *)

Active(t) == state[t] \in {"copy", "apply"}

(* A running thread finds its slices, its record and the frame of the      *)
(* caller in place, unless a pthread_create failed: then the caller clears *)
(* them and returns while the threads created before go on.                *)
ThreadsKeepTheirData ==
    ctx # NoThread =>
        \A t \in Thread : Active(t) =>
            pc # "done" /\ tinfo = "live" /\ Len(slices) = Len(Dims)

(* A call that succeeds has written every element of the output once; no   *)
(* element is ever written by two threads.                                 *)
EachElementOnce ==
    /\ \A x \in Element : writes[x] <= 1
    /\ pc = "done" /\ ctx = None => \A x \in Element : writes[x] = 1

(* Whatever the threads' schedule and number, the error reported is the    *)
(* one a sequential call reports: that of the first bad element in memory  *)
(* order.  Success is reported only if there is none.                      *)
SequentialError ==
    pc = "done" /\ ctx.kind \in {"none", "kernel"} =>
        ctx = IF bad = {} THEN None ELSE Failed(First(bad))

(* The caller leaves no slice and no record behind, whichever step fails,  *)
(* and the check on the number of slices never fails.                      *)
ReleasesAll ==
    /\ pc = "done" => slices = <<>> /\ tinfo # "live"
    /\ ctx # Unequal
=============================================================================
