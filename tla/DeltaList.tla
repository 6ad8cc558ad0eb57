------------------------------ MODULE DeltaList ------------------------------
(***************************************************************************)
(* Lists of items ordered by a number, each with the difference to the one *)
(* before it, as los_task.c and los_swtmr.c keep them.                     *)
(***************************************************************************)
EXTENDS Integers, SequencesExt

CONSTANT Wrap   \* the fields of the C code hold numbers below this one

ASSUME DeltaListAssumption == Wrap \in Nat \ {0}

\* The number of the i-th item: the sum of the differences up to it.
Upto(list, i) ==
  LET sum[j \in 0..Len(list)] == IF j = 0 THEN 0 ELSE sum[j - 1] + list[j].delta
  IN  sum[i]

Position(list, item) == CHOOSE i \in DOMAIN list : list[i].item = item
Listed(list, item) == \E i \in DOMAIN list : list[i].item = item
Number(list, item) == Upto(list, Position(list, item)) % Wrap

\* item behind the first i items, with the difference d; the next one's
\* difference becomes smaller by d.
Behind(list, i, item, d) ==
  [j \in 1..Len(list) + 1 |->
     CASE j <= i     -> list[j]
       [] j = i + 1  -> [item |-> item, delta |-> d]
       [] j = i + 2  -> [list[j - 1] EXCEPT !.delta = @ - d]
       [] OTHER      -> list[j - 1]]

\* item is inserted behind all that have no greater number.
Insert(list, item, n) ==
  LET i == Cardinality({j \in DOMAIN list : Upto(list, j) <= n})
  IN  Behind(list, i, item, n - Upto(list, i))

\* Mutant: the next one's difference stays.
Unlinked_unshared(list, item) == RemoveAt(list, Position(list, item))

\* item is taken off; the next one's difference grows by its own.
Unlinked(list, item) ==
  LET i == Position(list, item)
  IN  [j \in 1..Len(list) - 1 |->
         CASE j < i -> list[j]
           [] j = i -> [list[j + 1] EXCEPT !.delta = (@ + list[i].delta) % Wrap]
           [] OTHER -> list[j + 1]]

\* The items at the front that have the number 0.
Due(list) == SubSeq(list, 1, Cardinality({i \in DOMAIN list : Upto(list, i) = 0}))
=============================================================================
