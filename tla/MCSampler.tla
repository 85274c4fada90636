------------------------------ MODULE MCSampler ------------------------------
(* Sampler on two boards: three sensors that share a muxed ADC (the analog   *)
(* part of fugu1), and a streamed next to a snapshot ADC (fmetal).  With a    *)
(* memory of which sensors the present calibration has reached.             *)
EXTENDS Sampler

VARIABLES
  covered,  \* sensors that completed since the last start
  clean     \* the present calibration was started on the RT core between two rounds
            \* of Vout, found no leftovers of an aborted one, and has lost no sample

memory == <<covered, clean>>

Muxed == << [mode |-> "muxed", order |-> <<"vin", "iin", "vout">>] >>
Mixed == << [mode |-> "streamed", order |-> <<"vin">>],
            [mode |-> "snapshot", order |-> <<"vout", "iout">>] >>
TestBoards == {Muxed, Mixed}

MemoryInit == Init /\ covered = {} /\ clean = FALSE

MemoryNext ==
  \/ (BeginUpdate \/ Poll \/ PlainSample \/ FailingSample \/ Cancel) /\ UNCHANGED memory
  \/ BadSample /\ clean' = FALSE /\ UNCHANGED covered
  \/ (\E r \in {Ret.NoNewData, Ret.AdcError} : PollNothing(r)) /\ UNCHANGED memory
  \/ (Load \/ Count \/ ResetOnCore0) /\ UNCHANGED memory
  \/ /\ CompletingSample /\ UNCHANGED clean
     /\ covered' = IF board = Muxed THEN covered \union {Head(work)} ELSE {}
  \/ /\ Start /\ covered' = {}
     /\ clean' = (board = Muxed /\ pos[1] % 2 = 1 /\ \A s \in All : buf'[s] = 0)
  \/ BeginStartOnCore0 /\ covered' = {} /\ clean' = FALSE

MemorySpec == MemoryInit /\ [][MemoryNext]_<<vars, memory>>

\* The RT loop goes on and its ADCs bring numbers again and again; core 0 ends the
\* start it has begun.
FairSpec ==
  /\ MemorySpec
  /\ WF_vars(BeginUpdate) /\ SF_vars(Poll) /\ SF_vars(Sample \/ FailingSample)
  /\ WF_vars(Load) /\ WF_vars(Count) /\ WF_vars(ResetOnCore0)

-----------------------------------------------------------------------------
(* Properties.                                                             *)

Done == reg = 0 /\ calibrating' = 0

\* With Vout polled twice as often as the others the count of completions still
\* tells that every sensor has its offset, but only just: when the start does not
\* fall before Vout's turn, no sample is lost, no earlier calibration was aborted
\* and none is started on core 0.
CleanRunCovers ==
  [][Done /\ clean => covered = All]_<<vars, memory>>

\* A calibration ends, done or failed or cancelled, whatever starts and ADC errors
\* come in between, once it is not started anew for ever.
CalibrationEnds ==
  []<>(calibrating = 0) \/ []<><<Start \/ BeginStartOnCore0>>_vars
=============================================================================
