-------------------------------- MODULE Retry ---------------------------------
(* Retry.run: a call is made once and, while it throws, RETRIES times more.    *)
(* The first retry follows at once; the i-th sleeps i seconds when it fails,   *)
(* the last one too, before the exception goes to the caller.                  *)
EXTENDS Integers

RETRIES == 3

VARIABLES
  failed,   \* attempts of this call that have thrown
  slept     \* seconds slept, by every Retry.run of the process together

\* Mutant of Fail: the counter is not advanced.
FailForgets == failed' = failed /\ slept' = slept + failed

\* Mutant of Fail: the first failure sleeps, too.
FailSleepsFirst == failed' = failed + 1 /\ slept' = slept + failed + 1

Fail == failed' = failed + 1 /\ slept' = slept + failed

\* Mutant of GivesUp: one retry too few.
GivesUpEarly == failed = RETRIES

GivesUp == failed = RETRIES + 1

\* Mutant of Again: a new call goes on with the attempts of the last one.
AgainGoesOn == failed' = failed

\* The next call starts with all its attempts.
Again == failed' = 0

\* What n failed attempts have slept.
Pause(n) == (n * (n - 1)) \div 2
==============================================================================
