----------------------------- MODULE GufuncCall ------------------------------
(***************************************************************************)
(* A call of a gumath function from Python (_gufunc_call of _gumath.c),    *)
(* around the application of its kernel (ThreadedApply): which references  *)
(* the call takes, gives back and returns, whatever fails.                 *)
(*                                                                         *)
(* The kernel has Len(Dims) arguments; nin of them are inputs.  pystack    *)
(* holds a reference to an object in every slot that is in use, spec to    *)
(* the types of all arguments.  A CUDA function applies its kernel in one  *)
(* step.                                                                   *)
(***************************************************************************)
EXTENDS ThreadedApply

VARIABLES
    request,    \* [nin, nout, dtype, cuda]: nout outputs are given explicitly
    phase,      \* where the call is
    pystack,    \* the slots that hold a reference
    stray,      \* a slot was cleared that holds no object
    dtype,      \* the call holds a reference to the dtype argument
    spec,       \* the call holds references to the types in spec
    made,       \* the call holds a reference to the contiguous type it made
    answer      \* the slots whose objects are returned, and at which step

refs == <<pystack, stray, dtype, spec, made>>
callvars == <<request, phase, refs, answer>>
allvars == <<vars, callvars>>

Nargs == Len(Dims)
Outputs == request.nin + 1 .. Nargs

InitCall ==
    /\ Init
    /\ request \in [nin : 1..Nargs, nout : 0..Nargs - 1, dtype : BOOLEAN, cuda : BOOLEAN]
    /\ request.nin + request.nout <= Nargs
    /\ phase = "keywords"
    /\ pystack = {} /\ stray = FALSE
    /\ dtype = FALSE /\ spec = FALSE /\ made = FALSE
    /\ answer = [slots |-> {}, at |-> "none"]

-----------------------------------------------------------------------------

Answer(slots) == phase' = "returned" /\ answer' = [slots |-> slots, at |-> phase]
Raise == Answer({})
Goto(s) == phase' = s /\ UNCHANGED answer

clear_pystack(n) ==
    /\ pystack' = pystack \ 1..n
    /\ stray' = (stray \/ ~(1..n \subseteq pystack))

\* Keywords that are no keywords, or exclude each other.
Keywords ==
    /\ phase = "keywords"
    /\ \/ Raise /\ UNCHANGED dtype
       \/ ~(request.dtype /\ request.nout > 0) /\ dtype' = request.dtype /\ Goto("args")
    /\ UNCHANGED <<vars, request, pystack, stray, spec, made>>

\* cls and the arguments are checked before any reference is taken.
parse_args ==
    /\ phase = "args"
    /\ \/ Raise /\ UNCHANGED pystack
       \/ pystack' = 1..request.nin + request.nout /\ Goto("device")
    /\ UNCHANGED <<vars, request, stray, dtype, spec, made>>

\* A CUDA function refuses data on the CPU.
Device ==
    /\ phase = "device"
    /\ \/ request.cuda /\ Raise /\ clear_pystack(request.nin + request.nout)
       \/ Goto("select") /\ UNCHANGED <<pystack, stray>>
    /\ UNCHANGED <<vars, request, dtype, spec, made>>

\* gm_select may fail with the types of the kernel set in spec.
gm_select(next) ==
    \/ spec' = TRUE /\ request.nin + request.nout \in {request.nin, Nargs} /\ Goto(next)
    \/ spec' \in BOOLEAN /\ Raise

Select ==
    /\ phase = "select"
    /\ gm_select(IF request.dtype THEN "dtype" ELSE "outputs")
    /\ UNCHANGED <<vars, request, pystack, stray, dtype, made>>

\* The inferred output gets the dtype asked for, for kernels of one output.
ndt_copy_contiguous_dtype ==
    /\ phase = "dtype"
    /\ spec' = FALSE /\ dtype' = FALSE
    /\ \/ Raise /\ UNCHANGED made
       \/ Cardinality(Outputs) = 1 /\ made' = TRUE /\ Goto("reselect")
    /\ UNCHANGED <<vars, request, pystack, stray>>

Reselect ==
    /\ phase = "reselect"
    /\ gm_select("outputs")
    /\ UNCHANGED <<vars, request, pystack, stray, dtype, made>>

NextSlot == CHOOSE k \in Outputs \ pystack : \A j \in Outputs \ pystack : k <= j

\* Faulty variant: the output that could not be made is cleared with the others.
Xnd_EmptyFromType_ClearsNext ==
    /\ phase = "outputs" /\ ~(Outputs \subseteq pystack)
    /\ \/ pystack' = pystack \cup {NextSlot} /\ UNCHANGED <<stray, spec, phase, answer>>
       \/ Raise /\ clear_pystack(NextSlot) /\ spec' = FALSE
    /\ UNCHANGED <<vars, request, dtype, made>>

\* Outputs that were not given are made one by one; there may be no memory, or
\* a type may be abstract.
Xnd_EmptyFromType ==
    /\ phase = "outputs" /\ ~(Outputs \subseteq pystack)
    /\ \/ pystack' = pystack \cup {NextSlot} /\ UNCHANGED <<stray, spec, phase, answer>>
       \/ Raise /\ clear_pystack(NextSlot - 1) /\ spec' = FALSE
    /\ UNCHANGED <<vars, request, dtype, made>>

OutputsMade ==
    /\ phase = "outputs" /\ Outputs \subseteq pystack
    /\ Goto("apply") /\ UNCHANGED <<vars, request, refs>>

Applied(success) ==
    IF success THEN Goto("results") /\ spec' = FALSE /\ UNCHANGED <<pystack, stray>>
    ELSE Raise /\ clear_pystack(Nargs) /\ spec' = FALSE

\* Also without CUDA, and for folds, which CUDA does not support.
ApplyCuda ==
    /\ phase = "apply" /\ request.cuda
    /\ \E success \in BOOLEAN : Applied(success)
    /\ UNCHANGED <<vars, request, dtype, made>>

\* gm_apply_thread has returned.
ApplyReturned ==
    /\ phase = "apply" /\ ~request.cuda /\ pc = "done"
    /\ Applied(ctx = None)
    /\ UNCHANGED <<vars, request, dtype, made>>

\* Nothing, one object, or a tuple, for which there may be no memory.
Results ==
    /\ phase = "results"
    /\ \/ Outputs = {} /\ Answer({}) /\ clear_pystack(Nargs)
       \/ Cardinality(Outputs) = 1 /\ Answer(Outputs) /\ clear_pystack(request.nin)
       \/ /\ Cardinality(Outputs) > 1
          /\ \/ Answer(Outputs) /\ UNCHANGED <<pystack, stray>>
             \/ Raise /\ clear_pystack(Nargs)
    /\ UNCHANGED <<vars, request, dtype, spec, made>>

\* One step of the function.
_gufunc_call ==
    \/ Keywords \/ parse_args \/ Device \/ Select \/ ndt_copy_contiguous_dtype \/ Reselect
    \/ Xnd_EmptyFromType \/ OutputsMade \/ ApplyCuda \/ ApplyReturned \/ Results

Applying == phase = "apply" /\ ~request.cuda

NextCall ==
    \/ _gufunc_call
    \/ Applying /\ CallerStep /\ UNCHANGED callvars
    \/ \E t \in Thread : apply_thread(t) /\ UNCHANGED callvars

SpecCall == InitCall /\ [][NextCall]_allvars

\* The call and its threads get to run.
FairSpecCall ==
    /\ SpecCall
    /\ WF_allvars(_gufunc_call)
    /\ WF_allvars(Applying /\ CallerStep /\ UNCHANGED callvars)
    /\ \A t \in Thread : WF_allvars(apply_thread(t) /\ UNCHANGED callvars)

-----------------------------------------------------------------------------
(* Properties.                                                             *)

(* While threads work on the arguments the call holds the objects and the  *)
(* types of all of them, besides the slices and records of                 *)
(* gm_apply_thread; unless a pthread_create failed.                        *)
ThreadsKeepTheirArguments ==
    /\ ThreadsKeepTheirData
    /\ ctx # NoThread /\ (\E t \in Thread : Active(t)) =>
          phase = "apply" /\ pystack = 1..Nargs /\ spec

\* The arguments are kept when no kernel was found, and for a dtype that does
\* not fit; so are the inputs of a kernel with several outputs.
ArgumentsKept ==
    \/ answer.at \in {"select", "dtype", "reselect"}
    \/ answer.at = "results" /\ Cardinality(answer.slots) > 1

\* The dtype is kept when the call fails before the dtype is used, the types of
\* a kernel when it has no specialization for the arguments.
DtypeKept == answer.at \in {"args", "device", "select"}
TypesKept == answer.at \in {"select", "reselect"}

(* A call gives back, once, every object it has referred to, or returns it,*)
(* whichever of its steps fails; no slot of pystack is cleared that was    *)
(* never filled.  So with its types.  The exceptions are named above, and  *)
(* the contiguous type made for a dtype, which is never given back.        *)
CallGivesBack ==
    /\ ~stray
    /\ phase = "returned" =>
          /\ answer.slots \subseteq pystack
          /\ ~ArgumentsKept => pystack = answer.slots
          /\ ~DtypeKept => ~dtype
          /\ ~TypesKept => ~spec
          /\ made => request.dtype

(* The call returns, whatever the schedule of its threads and whichever    *)
(* kernels fail.                                                           *)
CallReturns == <>(phase = "returned")
=============================================================================
