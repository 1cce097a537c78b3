------------------------------- MODULE Actors -------------------------------
(***************************************************************************)
(* Actor values as they reach the program and as the rows hold them        *)
(* (spi.py): a person's id, plain or with blanks around it, or nothing but *)
(* blanks.  Requests bring all three; rows written before the values were  *)
(* normalised still hold all three.                                        *)
(***************************************************************************)
EXTENDS SequencesExt

CONSTANT People

\* A raw value names a person, spaced or not, or nobody.
Nobody == "nobody"
ASSUME NobodyAssumption == Nobody \notin People

Plain(p) == [who |-> p, spaced |-> FALSE]
Spaced(p) == [who |-> p, spaced |-> TRUE]
Blank == [who |-> Nobody, spaced |-> TRUE]
Value == [who : People, spaced : BOOLEAN] \cup {Blank}

\* str(v).strip()
Trim(v) == IF v.who = Nobody THEN Blank ELSE Plain(v.who)

\* The members of S in a sequence, in order; and the sequence without them.
Keep(seq, S) ==
    LET kept[n \in 0..Len(seq)] ==
          IF n = 0 THEN <<>>
          ELSE IF seq[n] \in S THEN Append(kept[n-1], seq[n]) ELSE kept[n-1]
    IN kept[Len(seq)]
Without(seq, S) == Keep(seq, Range(seq) \ S)

AppendNew(xs, x) == IF Contains(xs, x) THEN xs ELSE Append(xs, x)

\* xs, and after them the values of ys that are not there yet.
Merge(xs, ys) ==
    LET merged[n \in 0..Len(ys)] == IF n = 0 THEN xs ELSE AppendNew(merged[n-1], ys[n])
    IN merged[Len(ys)]

\* The values that stand for somebody.
Named(raw) == {v \in Range(raw) : Trim(v) # Blank}
TrimAll(raw) == [i \in DOMAIN raw |-> Trim(raw[i])]

\* Trimmed, blanks dropped, folded within one call, in order.
normalize_actors(raw) == Merge(<<>>, TrimAll(Keep(raw, Named(raw))))

\* What a deletion binds: the value as it came and its trimmed form, no blanks.
actor_delete_forms(raw) == Named(raw) \cup {Trim(v) : v \in Named(raw)}

\* The people that rows stand for, whatever their form.
Persons(rows) == {rows[i].who : i \in DOMAIN rows} \ {Nobody}
=============================================================================
