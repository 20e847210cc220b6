----------------------------- MODULE MCSessions -----------------------------
(***************************************************************************)
(* Small instances of Sessions: lives of two seconds, and time enough for a*)
(* token to expire and for another to be signed after it.                  *)
(***************************************************************************)
EXTENDS Sessions, TLC

CONSTANTS c1, c2

Interchangeable == Permutations(Calls)

\* A key that has expired is as good as none, and of a token that has expired it
\* makes no difference who holds it or signs it out: no guard lets it pass again.
Matters ==
    LET Usable(life) == {t \in Times : now < t + life}
    IN  <<now, signed, spent, ended, call,
          IF Alive(stored.expiry) THEN stored ELSE NoKey,
          [t \in Usable(AccessLife) |-> IF Alive(black[t]) THEN black[t] ELSE Gone],
          out \cap Usable(AccessLife),
          held \cap (Usable(AccessLife) \cup Usable(RefreshLife))>>
=============================================================================
