------------------------------ MODULE Circuit ------------------------------
(***************************************************************************)
(* The circuit breaker of backend/vod as functions on its value.  A        *)
(* breaker has a mode, the number of failures counted towards the          *)
(* threshold, and the time left until circuit_open_until.  The stepwise     *)
(* handling of the three kv rows is module CircuitBreaker; this module is   *)
(* what one whole call of the code does to them when nothing interrupts it. *)
(***************************************************************************)
EXTENDS Naturals

CONSTANTS
    Threshold,  \* CIRCUIT_FAILURE_THRESHOLD; 0 is "unset": the breaker is off
    Cooldown    \* CIRCUIT_OPEN_COOLDOWN, in ticks; 0 if it is not positive

ASSUME CircuitAssumption == Threshold \in Nat /\ Cooldown \in Nat

Breaker == [mode  : {"closed", "open", "half-open"},
            fails : Nat,
            cool  : 0 .. Cooldown]

InitialBreaker == [mode |-> "closed", fails |-> 0, cool |-> 0]

\* processOnce returns before it does anything else.
Skips(c) == c.mode = "open" /\ c.cool > 0

\* A cycle that is not skipped turns an expired open breaker half-open.
Admit(c) == IF c.mode = "open" THEN [c EXCEPT !.mode = "half-open"] ELSE c

Opened(c) == [mode |-> "open", fails |-> c.fails, cool |-> Cooldown]

\* updateCircuitOnFailure
Fail(c) ==
    LET counted == [c EXCEPT !.fails = @ + 1]
    IN  IF Threshold = 0 THEN c
        ELSE IF c.mode = "half-open" THEN Opened(c)
        ELSE IF counted.fails >= Threshold THEN Opened(counted)
        ELSE counted

\* resetCircuit
Reset(c) == InitialBreaker

\* One tick of time.
Cooled(c) == [c EXCEPT !.cool = IF @ = 0 THEN 0 ELSE @ - 1]
============================================================================
