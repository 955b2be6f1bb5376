------------------------- MODULE IncrementalPid -------------------------
(***************************************************************************)
(* The incremental controller of the numerical toolbox, which is not part  *)
(* of this repository, as the strategies use it: an output grows from the  *)
(* previous one and is limited, a set output is the next one's previous.   *)
(* Derivative gains divide by the interval and are left at zero.           *)
(***************************************************************************)
EXTENDS Integers

Clamp(x, limit) == IF x > limit THEN limit ELSE IF x < -limit THEN -limit ELSE x

Loops(errors, limit) == [output : -limit..limit, error : errors]

Rested == [output |-> 0, error |-> 0]

\* The integral gain is scaled by the interval.
Process(loop, error, gains, interval, limit) ==
  [output |-> Clamp(loop.output + gains.kp * (error - loop.error)
                                + (gains.ki * interval) * error, limit),
   error  |-> error]

SetPreviousOutput(loop, output) == [loop EXCEPT !.output = output]

=============================================================================
