----------------------------- MODULE MCBinderTxn -----------------------------
(* Instances of BinderTxn: one thread in each process, or a pool.            *)
EXTENDS BinderTxn, TLC

CONSTANTS p1, p2, t1, t2, t3

\* Two threads of p2 serve p1's one; or each process has one.
Pool == t1 :> p1 @@ t2 :> p2 @@ t3 :> p2

Pair == t1 :> p1 @@ t2 :> p2

\* Two processes that call each other.
PingPong == {<<t1, p2>>, <<t2, p1>>}

\* One-way calls into the pool of p2, and those whose copy fails.
OneWay2 == {<<t1, p2, FALSE>>}

OneWay2Torn == {<<t1, p2, FALSE>>, <<t1, p2, TRUE>>}
=============================================================================
