------------------------------- MODULE Clocks -------------------------------
(***************************************************************************)
(* Time as the instances see it: Redis counts real time, and time.Now on   *)
(* an instance is ahead of it by a skew of its own.                        *)
(***************************************************************************)
EXTENDS Naturals

CONSTANTS Instances,   (* processes of the application                     *)
          MaxSkew,     (* how far a clock may be ahead                     *)
          MaxTime      (* bound: where the model's time ends               *)

ASSUME ClockAssumption == MaxSkew \in Nat /\ MaxTime \in Nat

VARIABLES now,   \* real time
          skew   \* Instances -> how far the instance's clock is ahead

clockVars == <<now, skew>>

ClockInit == now = 0 /\ skew \in [Instances -> 0..MaxSkew]

Clock(i) == now + skew[i]

Pass == now < MaxTime /\ now' = now + 1 /\ UNCHANGED skew
=============================================================================
