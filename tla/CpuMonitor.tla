------------------------------ MODULE CpuMonitor ------------------------------
(***************************************************************************)
(* CpuMonitorService: the sliding window of utilization samples whose      *)
(* average decides whether ConnectionSheddingService sheds.                *)
(*                                                                         *)
(* A timer of the event loop takes the samples, so the time between two of *)
(* them is the interval or, when the loop is busy, longer.  Times are kept *)
(* relative to the last sample; utilizations are percentages.              *)
(***************************************************************************)
EXTENDS Integers, Sequences, SequencesExt

CONSTANTS
  Interval,  \* SHED_CPU_SAMPLE_INTERVAL
  Window,    \* SHED_CPU_WINDOW
  Gap,       \* the times that may pass between two samples
  Punctual,  \* the longest of them at which the window still fills
  MaxError   \* how far the average may then be from the true utilization

ASSUME CpuAssumption ==
  /\ Interval \in Nat \ {0} /\ Window \in Nat /\ Punctual \in Nat /\ MaxError \in Nat
  /\ Gap \subseteq Nat /\ \A gap \in Gap : gap >= Interval

VARIABLES
  running,   \* whether the timer is set
  samples,   \* [age, gap, utilization]; gap is history
  punctual   \* history: for how long no sample was later than Punctual,
             \* counted up to Settled

vars == <<running, samples, punctual>>

(* A window and the interval that its oldest sample measures. *)
Settled == Window + Punctual

Init == running = TRUE /\ samples = <<>> /\ punctual = 0

(* A mistaken divisor: the interval that was asked for. *)
Utilization_OfInterval(busy, gap) == (100 * busy) \div Interval

(* CPU time, in total over all vCPUs, by the time that it was there. *)
Utilization(busy, gap) == (100 * busy) \div gap

(* A mistaken comparison that drops the sample on the window's edge. *)
InWindow_Open(s) == s.age < Window

InWindow(s) == s.age <= Window

Older(gap) == [i \in DOMAIN samples |-> [samples[i] EXCEPT !.age = @ + gap]]

(* sample(), after `gap` in which the process used `busy` of its CPUs: shift()
   goes on to the first sample in the window, which is the new one at last. *)
Sample(gap, busy) ==
  LET all == Append(Older(gap), [age |-> 0, gap |-> gap, utilization |-> Utilization(busy, gap)])
  IN  /\ running
      /\ \E first \in DOMAIN all :
           /\ InWindow(all[first]) /\ \A i \in 1..(first - 1) : ~InWindow(all[i])
           /\ samples' = SubSeq(all, first, Len(all))
      /\ punctual' = IF gap > Punctual THEN 0 ELSE Min({punctual + gap, Settled})
      /\ UNCHANGED running

(* onApplicationShutdown. *)
Stop ==
  /\ running /\ running' = FALSE
  /\ UNCHANGED <<samples, punctual>>

Next == (\E gap \in Gap : \E busy \in {0, gap} : Sample(gap, busy)) \/ Stop

Spec == Init /\ [][Next]_vars

-----------------------------------------------------------------------------
(* What evaluate() reads. *)

(* windowMs * 0.8 *)
WindowReady == 5 * Len(samples) * Interval >= 4 * Window

SumOfUtilizations == FoldSeq(LAMBDA s, sum : s.utilization + sum, 0, samples)

(* averageUtilization, rounded down. *)
AverageUtilization ==
  IF samples = <<>> THEN 0 ELSE SumOfUtilizations \div Len(samples)

-----------------------------------------------------------------------------
(* Properties. *)

(***************************************************************************)
(* A loop whose samples are late, but never later than Punctual, keeps its *)
(* window ready once it has filled it: that much delay of the timer does   *)
(* not turn shedding off.                                                  *)
(***************************************************************************)
ReadyWhilePunctual == punctual = Settled => WindowReady

Covered == FoldSeq(LAMBDA s, sum : s.gap + sum, 0, samples)

TrueUtilization ==
  FoldSeq(LAMBDA s, sum : s.utilization * s.gap + sum, 0, samples) \div Covered

(***************************************************************************)
(* A ready window speaks for at least four fifths of its time, and with    *)
(* a punctual timer its average, which gives every sample the same weight, *)
(* is near the share of CPU time that was really used.                     *)
(***************************************************************************)
ReadyMeansMeasured ==
  WindowReady /\ samples # <<>> =>
    /\ 5 * Covered >= 4 * Window
    /\ \A i \in DOMAIN samples : samples[i].utilization \in 0..100
    /\ punctual = Settled =>
         AverageUtilization - TrueUtilization \in (-MaxError)..MaxError
=============================================================================
