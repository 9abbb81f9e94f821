---------------------------- MODULE KernelFilter ----------------------------
(***************************************************************************)
(* og3::KernelFilter: the samples its average is taken of, through saving  *)
(* the state, a deep sleep that clears the memory, and restoring it.  The  *)
(* weights are not modelled, but the sigma they are computed from is.      *)
(***************************************************************************)
EXTENDS Integers, Sequences

CONSTANTS FilterSize,     \* Options::size
          Samples,        \* the samples, each a time and a value in the code
          Sigmas,         \* the values of sigma in use
          MaxSamples      \* bound: samples ever added, below the range of m_num_samples

ASSUME FilterSizeAssumption == FilterSize \in Nat \ {0}

VARIABLES filter,         \* m_values with m_times, m_num_samples, m_sigma, and the sigma
                          \*   that m_exp_scalar was computed from
          state,          \* the State in memory that sleep preserves, or NoState
          recent,         \* the last FilterSize samples (history)
          savedRecent     \* the last FilterSize samples when state was saved (history)

filterVars == <<filter, state, recent, savedRecent>>

NoState == [header |-> FALSE]

NewFilter(sigma) ==
  [values |-> [i \in 0 .. FilterSize - 1 |-> 0], num |-> 0, sigma |-> sigma, scalar |-> sigma]

FilterInit ==
  /\ filter \in { NewFilter(sigma) : sigma \in Sigmas }
  /\ state = NoState /\ recent = <<>> /\ savedRecent = <<>>

LastOf(s) == IF Len(s) > FilterSize THEN SubSeq(s, Len(s) - FilterSize + 1, Len(s)) ELSE s

AddSample(sample) ==
  /\ filter.num < MaxSamples
  /\ filter' = [filter EXCEPT !.values[filter.num % FilterSize] = sample, !.num = @ + 1]
  /\ recent' = LastOf(Append(recent, sample))
  /\ UNCHANGED <<state, savedRecent>>

(* setSigma() returns at once if sigma is what it was.                     *)
SetSigma(sigma) ==
  /\ filter.sigma # sigma
  /\ filter' = [filter EXCEPT !.sigma = sigma, !.scalar = sigma]
  /\ UNCHANGED <<state, recent, savedRecent>>

(* saveState() and restoreState(): between filters of one size.            *)
SaveState ==
  /\ state' = [header |-> TRUE, values |-> filter.values, num |-> filter.num, sigma |-> filter.sigma]
  /\ savedRecent' = recent
  /\ UNCHANGED <<filter, recent>>

(* Fault: the count of samples is not restored.                            *)
RestoreStateUncounted ==
  /\ state.header
  /\ filter' = [filter EXCEPT !.values = state.values, !.sigma = state.sigma]
  /\ recent' = savedRecent
  /\ UNCHANGED <<state, savedRecent>>

RestoreState ==
  /\ state.header
  /\ filter' = [filter EXCEPT !.values = state.values, !.num = state.num, !.sigma = state.sigma]
  /\ recent' = savedRecent
  /\ UNCHANGED <<state, savedRecent>>

(* The device sleeps: a filter constructed anew, with the memory of the    *)
(* state preserved or lost.                                                *)
DeepSleep ==
  /\ filter' \in { NewFilter(sigma) : sigma \in Sigmas }
  /\ state' \in {state, NoState}
  /\ recent' = <<>> /\ UNCHANGED savedRecent

FilterNext ==
  \/ \E sample \in Samples : AddSample(sample)
  \/ \E sigma \in Sigmas : SetSigma(sigma)
  \/ SaveState \/ RestoreState \/ DeepSleep

FilterSpec == FilterInit /\ [][FilterNext]_filterVars
-----------------------------------------------------------------------------
(* The samples computeValue() runs over, in the order it does.             *)
Window ==
  LET first == IF filter.num <= FilterSize THEN 0 ELSE filter.num - FilterSize
  IN  [k \in 1 .. filter.num - first |-> filter.values[(first + k - 1) % FilterSize]]

(* The average is one of the last samples, all of them and in order, also  *)
(* when the buffer wrapped before or after the state was saved and         *)
(* restored: never of a slot that no sample was put in (addSample(),       *)
(* computeValue(), saveState(), restoreState()).                           *)
WindowIsRecent == Window = recent
=============================================================================
