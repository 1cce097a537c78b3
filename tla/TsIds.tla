-------------------------------- MODULE TsIds --------------------------------
(***************************************************************************)
(* TsIDGenerator: the clock in milliseconds, times the ids a millisecond   *)
(* has room for, plus a sequence number that starts again whenever the     *)
(* clock shows another millisecond, an earlier one too.                    *)
(***************************************************************************)
EXTENDS Integers

CONSTANT PerMilli       \* 1000 in the code

\* A generator whose first id was given out when the clock showed 0.
FirstGiven == [last |-> 0, seq |-> 0]

\* The generator after one call; the id that call returns is IdOf of it.
next_id(gen, now) ==
    IF now = gen.last THEN [gen EXCEPT !.seq = @ + 1] ELSE [last |-> now, seq |-> 0]

\* Seeded fault: the parts of the id are swapped.
IdOf_Fault(gen) == gen.seq * PerMilli + gen.last

IdOf(gen) == gen.last * PerMilli + gen.seq
=============================================================================
