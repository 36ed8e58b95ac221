---------------------------- MODULE MCBinderRefs ----------------------------
(* An instance of BinderRefs: three processes, so that a handle can be passed *)
(* on to a third; two nodes; two buffers held at once.                       *)
EXTENDS BinderRefs, TLC

CONSTANTS p1, p2, p3, t1, a1, a2

MCEuid == [p \in Proc |-> IF p = p3 THEN 2 ELSE 1]

Obj(kind, ptr, d, strong) == [kind |-> kind, ptr |-> ptr, desc |-> d, strong |-> strong]

Nothing == Obj("none", None, -1, FALSE)

\* No object; an own object, strong or weak; a handle; and an own object with
\* a handle behind it, so that the second may fail after the first succeeded.
MCParcels ==
    {<<Nothing, Nothing>>}
    \cup {<<Obj("binder", a1, -1, s), Nothing>> : s \in BOOLEAN}
    \cup {<<Obj("handle", None, d, TRUE), Nothing>> : d \in 0..1}
    \cup {<<Obj("binder", a1, -1, TRUE), Obj("handle", None, 1, TRUE)>>}

\* Two own objects in one parcel, the second by a weak reference, and a handle
\* behind an own object.
TwoObjects ==
    {<<Nothing, Nothing>>,
     <<Obj("binder", a1, -1, FALSE), Nothing>>,
     <<Obj("binder", a1, -1, TRUE), Obj("binder", a2, -1, FALSE)>>,
     <<Obj("binder", a2, -1, TRUE), Obj("handle", None, 1, TRUE)>>}

Sym == Permutations(BufId)
=============================================================================
