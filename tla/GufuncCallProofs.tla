-------------------------- MODULE GufuncCallProofs --------------------------
(***************************************************************************)
(* A call from Python applies its kernel as ThreadedApply describes, holds *)
(* what its threads work on, and gives back what it has taken, for any     *)
(* number of arguments and threads.                                        *)
(***************************************************************************)
EXTENDS GufuncCall, ThreadedApplyProofs

-----------------------------------------------------------------------------
(* The threads of a call.                                                  *)

LEMMA CallStepsApply ==
  ASSUME [NextCall]_allvars
  PROVE  [Next]_vars
<1>1. CASE _gufunc_call
  BY <1>1 DEF _gufunc_call, Keywords, parse_args, Device, Select, ndt_copy_contiguous_dtype,
     Reselect, Xnd_EmptyFromType, OutputsMade, ApplyCuda, ApplyReturned, Results
<1>2. CASE Applying /\ CallerStep /\ UNCHANGED callvars
  BY <1>2 DEF Next
<1>3. CASE \E t \in Thread : apply_thread(t) /\ UNCHANGED callvars
  BY <1>3 DEF Next
<1>4. CASE UNCHANGED allvars
  BY <1>4 DEF allvars
<1> QED
  BY <1>1, <1>2, <1>3, <1>4 DEF NextCall

\* A call from Python does nothing to the threads that gm_apply_thread would not.
THEOREM CallApplies == SpecCall => Spec
<1>1. InitCall => Init
  BY DEF InitCall
<1> QED
  BY <1>1, CallStepsApply, PTL DEF SpecCall, Spec

\* The threads of a call write every element of the output once.
THEOREM CallWritesOnce == SpecCall => []EachElementOnce
  BY CallApplies, WrittenOnce, PTL

\* A call raises the error that the kernel run in one thread would have raised.
THEOREM CallErrorIsSequential == SpecCall => []SequentialError
  BY CallApplies, ErrorIsSequential, PTL

\* A call whose threads have returned holds none of their slices or records.
THEOREM CallReleasesAll == SpecCall => []ReleasesAll
  BY CallApplies, AllReleased, PTL

-----------------------------------------------------------------------------
(* The references of a call.                                               *)

Requests == [nin : 1..Nargs, nout : 0..Nargs - 1, dtype : BOOLEAN, cuda : BOOLEAN]

Filled == request.nin + request.nout

CallTypeOK ==
  /\ request \in Requests /\ Filled <= Nargs
  /\ phase \in {"keywords", "args", "device", "select", "dtype", "reselect", "outputs", "apply",
                "results", "returned"}
  /\ dtype \in BOOLEAN /\ spec \in BOOLEAN /\ made \in BOOLEAN
  /\ stray = FALSE

\* The objects the call holds at each place.
Holds(n) == pystack = 1..n

Before_apply == {"keywords", "args", "device", "select", "dtype", "reselect", "outputs"}

CallInv ==
  /\ CallTypeOK
  /\ made = TRUE => request.dtype = TRUE
  /\ phase \in {"keywords", "args"} => Holds(0) /\ spec = FALSE
  /\ phase = "keywords" => dtype = FALSE
  /\ phase \in {"device", "select"} => Holds(Filled) /\ spec = FALSE
  /\ phase \in {"args", "device", "select"} => dtype = request.dtype
  /\ phase = "dtype" => Holds(Filled) /\ request.dtype = TRUE
  /\ phase = "reselect" => Holds(Filled) /\ dtype = FALSE
  /\ phase = "outputs" => spec = TRUE /\ dtype = FALSE /\ \E n \in Filled..Nargs : Holds(n)
  /\ phase = "apply" => spec = TRUE /\ dtype = FALSE /\ Holds(Nargs)
  /\ phase = "results" => spec = FALSE /\ dtype = FALSE /\ Holds(Nargs)
  /\ phase = "returned" => CallGivesBack
  /\ phase \in Before_apply => pc = "enter"
  /\ request.cuda = TRUE => pc = "enter"
  /\ phase \in {"results", "returned"} => pc \in {"enter", "done"}

LEMMA RequestNumbers ==
  ASSUME CallTypeOK
  PROVE  /\ Nargs \in Nat \ {0} /\ request.nin \in 1..Nargs /\ Filled \in 1..Nargs
         /\ request.dtype \in BOOLEAN /\ request.cuda \in BOOLEAN
         /\ Outputs = (request.nin + 1)..Nargs /\ request.nin <= Filled
<1>1. Nargs \in Nat \ {0}
  BY ArgumentsAndShape DEF Nargs
<1>2. request.nin \in 1..Nargs /\ request.nout \in 0..(Nargs - 1)
      /\ request.dtype \in BOOLEAN /\ request.cuda \in BOOLEAN /\ Filled <= Nargs
  BY DEF CallTypeOK, Requests
<1> QED
  BY <1>1, <1>2 DEF Filled, Outputs

\* Clearing some of the slots that are in use.
LEMMA Cleared ==
  ASSUME NEW m \in Nat, NEW n \in 0..m, Holds(m), stray = FALSE, clear_pystack(n)
  PROVE  pystack' = (n + 1)..m /\ stray' = FALSE
<1>1. 1..n \subseteq 1..m /\ (1..m) \ (1..n) = (n + 1)..m
  OBVIOUS
<1> QED
  BY <1>1 DEF clear_pystack, Holds

LEMMA AllCleared ==
  ASSUME NEW m \in Nat, Holds(m), stray = FALSE, clear_pystack(m)
  PROVE  pystack' = {} /\ stray' = FALSE
<1>1. m \in 0..m /\ (m + 1)..m = {}
  OBVIOUS
<1> QED
  BY <1>1, Cleared

\* An exception with nothing left.
LEMMA RaiseGivesBack ==
  ASSUME Raise, pystack' = {}, stray' = FALSE, made' = TRUE => request'.dtype = TRUE,
         phase \in {"args", "device", "select"} \/ dtype' = FALSE,
         phase \in {"select", "reselect"} \/ spec' = FALSE
  PROVE  phase' = "returned" /\ CallGivesBack'
<1>1. phase' = "returned" /\ answer' = [slots |-> {}, at |-> phase]
  BY DEF Raise, Answer
<1>2. answer'.slots = {} /\ answer'.at = phase
  BY <1>1
<1> QED
  BY <1>1, <1>2 DEF CallGivesBack, ArgumentsKept, DtypeKept, TypesKept

\* An exception with the arguments kept.
LEMMA RaiseKeeps ==
  ASSUME Raise, phase \in {"select", "dtype", "reselect"}, stray' = FALSE,
         made' = TRUE => request'.dtype = TRUE,
         phase = "select" \/ dtype' = FALSE, phase # "dtype" \/ spec' = FALSE
  PROVE  phase' = "returned" /\ CallGivesBack'
<1>1. phase' = "returned" /\ answer' = [slots |-> {}, at |-> phase]
  BY DEF Raise, Answer
<1>2. answer'.slots = {} /\ answer'.at = phase
  BY <1>1
<1> QED
  BY <1>1, <1>2 DEF CallGivesBack, ArgumentsKept, DtypeKept, TypesKept

LEMMA CallInit ==
  ASSUME InitCall
  PROVE  CallInv
<1>1. /\ Init /\ request \in Requests /\ request.nin + request.nout <= Nargs
      /\ phase = "keywords" /\ pystack = {} /\ stray = FALSE
      /\ dtype = FALSE /\ spec = FALSE /\ made = FALSE
  BY DEF InitCall, Requests
<1>2. CallTypeOK
  BY <1>1 DEF CallTypeOK, Filled
<1>3. Holds(0) /\ pc = "enter"
  BY <1>1 DEF Holds, Init
<1> QED
  BY <1>1, <1>2, <1>3 DEF CallInv, Before_apply

LEMMA KeywordsKeeps ==
  ASSUME CallInv, Keywords
  PROVE  CallInv'
<1>1. /\ phase = "keywords" /\ UNCHANGED <<request, pystack, stray, spec, made>> /\ pc' = pc
      /\ CallTypeOK /\ Holds(0) /\ spec = FALSE /\ dtype = FALSE /\ pc = "enter"
      /\ made = TRUE => request.dtype = TRUE
  BY DEF Keywords, CallInv, vars, Before_apply
<1>2. pystack = {}
  BY <1>1 DEF Holds
<1>3. CASE Raise /\ dtype' = dtype
  <2>1. phase' = "returned" /\ CallGivesBack'
    BY <1>1, <1>2, <1>3, RaiseGivesBack DEF CallTypeOK
  <2> QED
    BY <1>1, <1>3, <2>1 DEF CallInv, CallTypeOK, Filled, Before_apply
<1>4. CASE dtype' = request.dtype /\ Goto("args")
  BY <1>1, <1>4, RequestNumbers DEF Goto, CallInv, CallTypeOK, Filled, Holds, Before_apply
<1> QED
  BY <1>3, <1>4 DEF Keywords

LEMMA ArgsKeeps ==
  ASSUME CallInv, parse_args
  PROVE  CallInv'
<1>1. /\ phase = "args" /\ UNCHANGED <<request, stray, dtype, spec, made>> /\ pc' = pc
      /\ CallTypeOK /\ Holds(0) /\ spec = FALSE /\ dtype = request.dtype /\ pc = "enter"
      /\ made = TRUE => request.dtype = TRUE
  BY DEF parse_args, CallInv, vars, Before_apply
<1>2. pystack = {}
  BY <1>1 DEF Holds
<1>3. CASE Raise /\ pystack' = pystack
  <2>1. phase' = "returned" /\ CallGivesBack'
    BY <1>1, <1>2, <1>3, RaiseGivesBack DEF CallTypeOK
  <2> QED
    BY <1>1, <1>3, <2>1 DEF CallInv, CallTypeOK, Filled, Before_apply
<1>4. CASE pystack' = 1..Filled /\ Goto("device")
  BY <1>1, <1>4 DEF Goto, CallInv, CallTypeOK, Filled, Holds, Before_apply
<1> QED
  BY <1>3, <1>4 DEF parse_args, Filled

LEMMA DeviceKeeps ==
  ASSUME CallInv, Device
  PROVE  CallInv'
<1>1. /\ phase = "device" /\ UNCHANGED <<request, dtype, spec, made>> /\ pc' = pc
      /\ CallTypeOK /\ Holds(Filled) /\ spec = FALSE /\ dtype = request.dtype /\ pc = "enter"
      /\ made = TRUE => request.dtype = TRUE
  BY DEF Device, CallInv, vars, Before_apply
<1>2. Filled \in Nat
  BY <1>1, RequestNumbers
<1>3. CASE Raise /\ clear_pystack(Filled)
  <2>1. pystack' = {} /\ stray' = FALSE
    BY <1>1, <1>2, <1>3, AllCleared DEF CallTypeOK
  <2>2. phase' = "returned" /\ CallGivesBack'
    BY <1>1, <1>3, <2>1, RaiseGivesBack
  <2> QED
    BY <1>1, <2>1, <2>2 DEF CallInv, CallTypeOK, Filled, Before_apply
<1>4. CASE Goto("select") /\ UNCHANGED <<pystack, stray>>
  BY <1>1, <1>4 DEF Goto, CallInv, CallTypeOK, Filled, Holds, Before_apply
<1> QED
  BY <1>3, <1>4 DEF Device, Filled

LEMMA SelectKeeps ==
  ASSUME CallInv, Select
  PROVE  CallInv'
<1>1. /\ phase = "select" /\ UNCHANGED <<request, pystack, stray, dtype, made>> /\ pc' = pc
      /\ CallTypeOK /\ Holds(Filled) /\ dtype = request.dtype /\ pc = "enter"
      /\ made = TRUE => request.dtype = TRUE
      /\ gm_select(IF request.dtype THEN "dtype" ELSE "outputs")
  BY DEF Select, CallInv, vars, Before_apply
<1>2. Filled \in 1..Nargs /\ request.dtype \in BOOLEAN /\ Nargs \in Nat
  BY <1>1, RequestNumbers
<1>3. Filled \in Filled..Nargs
  BY <1>2
<1>4. CASE spec' \in BOOLEAN /\ Raise
  <2>1. phase' = "returned" /\ CallGivesBack'
    BY <1>1, <1>4, RaiseKeeps DEF CallTypeOK
  <2> QED
    BY <1>1, <1>4, <2>1 DEF CallInv, CallTypeOK, Filled, Before_apply
<1>5. CASE request.dtype = TRUE /\ spec' = TRUE /\ Goto("dtype")
  BY <1>1, <1>5 DEF Goto, CallInv, CallTypeOK, Filled, Holds, Before_apply
<1>6. CASE request.dtype = FALSE /\ spec' = TRUE /\ Goto("outputs")
  <2>1. Holds(Filled)' /\ Filled' = Filled /\ Nargs' = Nargs
    BY <1>1 DEF Holds, Filled, Nargs
  <2>2. (\E n \in Filled..Nargs : Holds(n))'
    BY <1>1, <1>3, <2>1 DEF Holds
  <2> QED
    BY <1>1, <1>6, <2>1, <2>2 DEF Goto, CallInv, CallTypeOK, Before_apply
<1> QED
  BY <1>1, <1>2, <1>4, <1>5, <1>6 DEF gm_select

LEMMA DtypeKeeps ==
  ASSUME CallInv, ndt_copy_contiguous_dtype
  PROVE  CallInv'
<1>1. /\ phase = "dtype" /\ spec' = FALSE /\ dtype' = FALSE
      /\ UNCHANGED <<request, pystack, stray>> /\ pc' = pc
      /\ CallTypeOK /\ Holds(Filled) /\ request.dtype = TRUE /\ pc = "enter"
  BY DEF ndt_copy_contiguous_dtype, CallInv, vars, Before_apply
<1>2. CASE Raise /\ made' = made
  <2>1. phase' = "returned" /\ CallGivesBack'
    BY <1>1, <1>2, RaiseKeeps DEF CallTypeOK
  <2> QED
    BY <1>1, <1>2, <2>1 DEF CallInv, CallTypeOK, Filled, Before_apply
<1>3. CASE made' = TRUE /\ Goto("reselect")
  BY <1>1, <1>3 DEF Goto, CallInv, CallTypeOK, Filled, Holds, Before_apply
<1> QED
  BY <1>2, <1>3 DEF ndt_copy_contiguous_dtype

LEMMA ReselectKeeps ==
  ASSUME CallInv, Reselect
  PROVE  CallInv'
<1>1. /\ phase = "reselect" /\ UNCHANGED <<request, pystack, stray, dtype, made>> /\ pc' = pc
      /\ CallTypeOK /\ Holds(Filled) /\ dtype = FALSE /\ pc = "enter"
      /\ made = TRUE => request.dtype = TRUE
      /\ gm_select("outputs")
  BY DEF Reselect, CallInv, vars, Before_apply
<1>2. Filled \in 1..Nargs /\ Nargs \in Nat
  BY <1>1, RequestNumbers
<1>3. Filled \in Filled..Nargs
  BY <1>2
<1>4. CASE spec' \in BOOLEAN /\ Raise
  <2>1. phase' = "returned" /\ CallGivesBack'
    BY <1>1, <1>4, RaiseKeeps DEF CallTypeOK
  <2> QED
    BY <1>1, <1>4, <2>1 DEF CallInv, CallTypeOK, Filled, Before_apply
<1>5. CASE spec' = TRUE /\ Goto("outputs")
  <2>1. Holds(Filled)' /\ Filled' = Filled /\ Nargs' = Nargs
    BY <1>1 DEF Holds, Filled, Nargs
  <2>2. (\E n \in Filled..Nargs : Holds(n))'
    BY <1>1, <1>3, <2>1 DEF Holds
  <2> QED
    BY <1>1, <1>5, <2>1, <2>2 DEF Goto, CallInv, CallTypeOK, Before_apply
<1> QED
  BY <1>1, <1>4, <1>5 DEF gm_select

\* The next slot to fill is the one after those in use.
LEMMA NextSlotFollows ==
  ASSUME CallTypeOK, NEW n \in Filled..Nargs, Holds(n), ~(Outputs \subseteq pystack)
  PROVE  NextSlot = n + 1 /\ n + 1 \in Filled..Nargs /\ n \in Nat
<1> DEFINE S == Outputs \ pystack
<1>1. /\ Nargs \in Nat \ {0} /\ request.nin \in 1..Nargs /\ Filled \in 1..Nargs /\ n \in Nat
      /\ Outputs = (request.nin + 1)..Nargs /\ request.nin <= Filled
  BY RequestNumbers
<1>2. S = (n + 1)..Nargs
  BY <1>1 DEF Holds
<1>3. n + 1 \in S /\ \A j \in S : n + 1 <= j
  <2>1. S # {}
    OBVIOUS
  <2> QED
    BY <1>1, <1>2, <2>1
<1>4. \A k \in S : (\A j \in S : k <= j) => k = n + 1
  <2>1. ASSUME NEW k \in S, \A j \in S : k <= j
        PROVE  k = n + 1
    <3>1. k <= n + 1 /\ n + 1 <= k /\ k \in Nat
      BY <1>1, <1>2, <1>3, <2>1
    <3> QED
      BY <1>1, <3>1
  <2> QED
    BY <2>1
<1>5. NextSlot \in S /\ \A j \in S : NextSlot <= j
  BY <1>3 DEF NextSlot
<1> QED
  BY <1>1, <1>2, <1>3, <1>4, <1>5

LEMMA EmptyKeeps ==
  ASSUME CallInv, Xnd_EmptyFromType
  PROVE  CallInv'
<1>1. /\ phase = "outputs" /\ UNCHANGED <<request, dtype, made>> /\ pc' = pc
      /\ CallTypeOK /\ spec = TRUE /\ dtype = FALSE /\ pc = "enter"
      /\ made = TRUE => request.dtype = TRUE
      /\ ~(Outputs \subseteq pystack)
  BY DEF Xnd_EmptyFromType, CallInv, vars, Before_apply
<1>2. PICK n \in Filled..Nargs : Holds(n)
  BY <1>1 DEF CallInv
<1>3. NextSlot = n + 1 /\ n + 1 \in Filled..Nargs /\ n \in Nat
  BY <1>1, <1>2, NextSlotFollows
<1>4. CASE pystack' = pystack \cup {NextSlot} /\ UNCHANGED <<stray, spec, phase, answer>>
  <2>1. pystack' = 1..(n + 1)
    <3>1. 1..(n + 1) = (1..n) \cup {n + 1}
      BY <1>3
    <3> QED
      BY <1>2, <1>3, <1>4, <3>1 DEF Holds
  <2>2. Filled' = Filled /\ Nargs' = Nargs
    BY <1>1 DEF Filled, Nargs
  <2>3. (\E k \in Filled..Nargs : Holds(k))'
    BY <1>3, <2>1, <2>2 DEF Holds
  <2> QED
    BY <1>1, <1>4, <2>2, <2>3 DEF CallInv, CallTypeOK, Before_apply
<1>5. CASE Raise /\ clear_pystack(NextSlot - 1) /\ spec' = FALSE
  <2>1. NextSlot - 1 = n
    BY <1>3
  <2>2. pystack' = {} /\ stray' = FALSE
    BY <1>1, <1>2, <1>3, <1>5, <2>1, AllCleared DEF CallTypeOK
  <2>3. phase' = "returned" /\ CallGivesBack'
    BY <1>1, <1>5, <2>2, RaiseGivesBack
  <2> QED
    BY <1>1, <1>5, <2>2, <2>3 DEF CallInv, CallTypeOK, Filled, Before_apply
<1> QED
  BY <1>4, <1>5 DEF Xnd_EmptyFromType

LEMMA OutputsMadeKeeps ==
  ASSUME CallInv, OutputsMade
  PROVE  CallInv'
<1>1. /\ phase = "outputs" /\ UNCHANGED <<request, pystack, stray, dtype, spec, made>> /\ pc' = pc
      /\ CallTypeOK /\ spec = TRUE /\ dtype = FALSE /\ pc = "enter"
      /\ made = TRUE => request.dtype = TRUE
      /\ Outputs \subseteq pystack /\ Goto("apply")
  BY DEF OutputsMade, CallInv, vars, refs, Before_apply
<1>2. PICK n \in Filled..Nargs : Holds(n)
  BY <1>1 DEF CallInv
<1>3. Holds(Nargs)
  <2>1. /\ Nargs \in Nat \ {0} /\ request.nin \in 1..Nargs /\ Filled \in 1..Nargs
        /\ Outputs = (request.nin + 1)..Nargs /\ request.nin <= Filled
    BY <1>1, RequestNumbers
  <2>2. n = Nargs
    <3>1. CASE request.nin = Nargs
      BY <1>2, <2>1, <3>1
    <3>2. CASE request.nin < Nargs
      <4>1. Nargs \in Outputs
        BY <2>1, <3>2
      <4> QED
        BY <1>1, <1>2, <2>1, <4>1 DEF Holds
    <3> QED
      BY <2>1, <3>1, <3>2
  <2> QED
    BY <1>2, <2>2
<1>4. Holds(Nargs)'
  BY <1>1, <1>3 DEF Holds, Nargs
<1> QED
  BY <1>1, <1>4 DEF CallInv, CallTypeOK, Filled, Goto, Before_apply

\* The kernel has been applied to all arguments.
LEMMA AppliedKeeps ==
  ASSUME CallInv, phase = "apply", UNCHANGED <<request, dtype, made, vars>>,
         pc = "done" \/ request.cuda = TRUE,
         NEW success \in BOOLEAN, Applied(success)
  PROVE  CallInv'
<1>1. /\ CallTypeOK /\ spec = TRUE /\ dtype = FALSE /\ Holds(Nargs) /\ pc' = pc
      /\ made = TRUE => request.dtype = TRUE
      /\ request.cuda = TRUE => pc = "enter"
      /\ UNCHANGED <<request, dtype, made>> /\ Nargs' = Nargs
  BY DEF CallInv, vars, Nargs
<1>2. Nargs \in Nat
  BY <1>1, RequestNumbers
<1>3. CASE success = TRUE
  <2>1. Goto("results") /\ spec' = FALSE /\ UNCHANGED <<pystack, stray>>
    BY <1>3 DEF Applied
  <2>2. Holds(Nargs)'
    BY <1>1, <2>1 DEF Holds
  <2> QED
    BY <1>1, <2>1, <2>2 DEF CallInv, CallTypeOK, Filled, Goto, Before_apply
<1>4. CASE success = FALSE
  <2>1. Raise /\ clear_pystack(Nargs) /\ spec' = FALSE
    BY <1>4 DEF Applied
  <2>2. pystack' = {} /\ stray' = FALSE
    BY <1>1, <1>2, <2>1, AllCleared DEF CallTypeOK
  <2>3. phase' = "returned" /\ CallGivesBack'
    BY <1>1, <2>1, <2>2, RaiseGivesBack
  <2> QED
    BY <1>1, <2>1, <2>2, <2>3 DEF CallInv, CallTypeOK, Filled, Before_apply
<1> QED
  BY <1>3, <1>4

LEMMA ResultsKeeps ==
  ASSUME CallInv, Results
  PROVE  CallInv'
<1>1. /\ phase = "results" /\ UNCHANGED <<request, dtype, spec, made>> /\ pc' = pc
      /\ CallTypeOK /\ spec = FALSE /\ dtype = FALSE /\ Holds(Nargs)
      /\ made = TRUE => request.dtype = TRUE
      /\ request.cuda = TRUE => pc = "enter"
      /\ pc \in {"enter", "done"}
  BY DEF Results, CallInv, vars
<1>2. /\ Nargs \in Nat /\ request.nin \in 0..Nargs /\ Outputs = (request.nin + 1)..Nargs
  BY <1>1, RequestNumbers
<1>3. ASSUME phase' = "returned", stray' = FALSE, CallGivesBack'
      PROVE  CallInv'
  BY <1>1, <1>3 DEF CallInv, CallTypeOK, Filled, Before_apply
<1>4. ASSUME Answer({}) \/ Answer(Outputs), pystack' = answer'.slots, stray' = FALSE
      PROVE  phase' = "returned" /\ CallGivesBack'
  <2>1. phase' = "returned"
    BY <1>4 DEF Answer
  <2> QED
    BY <1>1, <1>4, <2>1 DEF CallGivesBack
<1>5. CASE Answer({}) /\ clear_pystack(Nargs)
  <2>1. pystack' = {} /\ stray' = FALSE /\ answer'.slots = {}
    BY <1>1, <1>2, <1>5, AllCleared DEF CallTypeOK, Answer
  <2> QED
    BY <1>3, <1>4, <1>5, <2>1
<1>6. CASE Answer(Outputs) /\ clear_pystack(request.nin)
  <2>1. pystack' = Outputs /\ stray' = FALSE /\ answer'.slots = Outputs
    BY <1>1, <1>2, <1>6, Cleared DEF CallTypeOK, Answer
  <2> QED
    BY <1>3, <1>4, <1>6, <2>1
<1>7. CASE Cardinality(Outputs) > 1 /\ Answer(Outputs) /\ UNCHANGED <<pystack, stray>>
  <2>1. answer' = [slots |-> Outputs, at |-> "results"] /\ phase' = "returned"
    BY <1>1, <1>7 DEF Answer
  <2>2. answer'.slots = Outputs /\ answer'.at = "results"
    BY <2>1
  <2>3. Outputs \subseteq pystack'
    BY <1>1, <1>2, <1>7 DEF Holds
  <2>4. ArgumentsKept'
    BY <1>7, <2>2 DEF ArgumentsKept
  <2>5. CallGivesBack'
    BY <1>1, <1>7, <2>2, <2>3, <2>4 DEF CallGivesBack, CallTypeOK
  <2> QED
    BY <1>1, <1>3, <1>7, <2>1, <2>5 DEF CallTypeOK
<1> QED
  BY <1>5, <1>6, <1>7 DEF Results, Raise

\* Steps of the threads, and of gm_apply_thread, take nothing from the call.
LEMMA ThreadsKeep ==
  ASSUME CallInv, UNCHANGED callvars, pc' = pc \/ Applying
  PROVE  CallInv'
<1>1. UNCHANGED <<request, phase, pystack, stray, dtype, spec, made, answer>>
      /\ Filled' = Filled /\ Nargs' = Nargs
  BY DEF callvars, refs, Filled, Nargs
<1>2. CallTypeOK'
  BY <1>1 DEF CallInv, CallTypeOK
<1>3. CallGivesBack' = CallGivesBack
  BY <1>1 DEF CallGivesBack, ArgumentsKept, DtypeKept, TypesKept
<1>4. (phase = "outputs" => \E n \in Filled..Nargs : Holds(n))'
  BY <1>1 DEF CallInv, Holds
<1>5. /\ (phase \in Before_apply => pc = "enter")'
      /\ (request.cuda = TRUE => pc = "enter")'
      /\ (phase \in {"results", "returned"} => pc \in {"enter", "done"})'
  BY <1>1 DEF CallInv, Applying, Before_apply
<1> QED
  BY <1>1, <1>2, <1>3, <1>4, <1>5 DEF CallInv, Holds

LEMMA CallKeeps ==
  ASSUME CallInv, [NextCall]_allvars
  PROVE  CallInv'
<1>1. CASE Xnd_EmptyFromType \/ OutputsMade
  BY <1>1, EmptyKeeps, OutputsMadeKeeps
<1>2. CASE ApplyCuda
  <2>1. PICK success \in BOOLEAN : Applied(success)
    BY <1>2 DEF ApplyCuda
  <2>2. phase = "apply" /\ request.cuda = TRUE /\ UNCHANGED <<request, dtype, made, vars>>
    BY <1>2, RequestNumbers DEF ApplyCuda, CallInv
  <2> QED
    BY <2>1, <2>2, AppliedKeeps
<1>3. CASE ApplyReturned
  <2>1. phase = "apply" /\ pc = "done" /\ UNCHANGED <<request, dtype, made, vars>>
        /\ Applied(ctx = None) /\ (ctx = None) \in BOOLEAN
    BY <1>3 DEF ApplyReturned
  <2> QED
    BY <2>1, AppliedKeeps
<1>4. CASE Results
  BY <1>4, ResultsKeeps
<1>5. CASE Keywords \/ parse_args \/ Device \/ Select \/ ndt_copy_contiguous_dtype \/ Reselect
  BY <1>5, KeywordsKeeps, ArgsKeeps, DeviceKeeps, SelectKeeps, DtypeKeeps, ReselectKeeps
<1>6. CASE Applying /\ CallerStep /\ UNCHANGED callvars
  BY <1>6, ThreadsKeep
<1>7. CASE \E t \in Thread : apply_thread(t) /\ UNCHANGED callvars
  <2>1. PICK t \in Thread : apply_thread(t) /\ UNCHANGED callvars
    BY <1>7
  <2>2. pc' = pc
    BY <2>1 DEF apply_thread, Copy, StartApply, Apply, Exit
  <2> QED
    BY <2>1, <2>2, ThreadsKeep
<1>8. CASE UNCHANGED allvars
  BY <1>8, ThreadsKeep DEF allvars, vars
<1> QED
  BY <1>1, <1>2, <1>3, <1>4, <1>5, <1>6, <1>7, <1>8 DEF NextCall, _gufunc_call

\* The references held at each step of _gufunc_call are those its exits give back.
THEOREM CallInvHolds == SpecCall => []CallInv
  BY CallInit, CallKeeps, PTL DEF SpecCall

\* Each exit of _gufunc_call gives back what the call holds there, but for the
\* exceptions CallGivesBack names.
THEOREM CallGivesBackHolds == SpecCall => []CallGivesBack
<1>1. CallInv => CallGivesBack
  BY DEF CallInv, CallTypeOK, CallGivesBack
<1> QED
  BY <1>1, CallInvHolds, PTL

\* Slots, types, slices and records are in place while a thread of a call works.
THEOREM CallKeepsArguments == SpecCall => []ThreadsKeepTheirArguments
<1>1. ASSUME Inv, CallInv, ctx # NoThread, NEW t \in Thread, Active(t)
      PROVE  phase = "apply" /\ pystack = 1..Nargs /\ spec
  <2>1. pc \in {"create", "join"}
    BY <1>1, SomeThreaded
  <2>2. phase = "apply"
    BY <1>1, <2>1 DEF CallInv, CallTypeOK, Before_apply
  <2> QED
    BY <1>1, <2>2 DEF CallInv, Holds
<1>2. Inv /\ CallInv => ThreadsKeepTheirArguments
  BY <1>1, InvData DEF ThreadsKeepTheirArguments
<1> QED
  BY <1>2, CallApplies, InvHolds, CallInvHolds, PTL
=============================================================================
