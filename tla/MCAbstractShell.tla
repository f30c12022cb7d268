--------------------------- MODULE MCAbstractShell ---------------------------
(* Two sessions; the first has two surfaces, the second one.              *)
EXTENDS AbstractShell, TLC

CONSTANTS a1, a2, s1, s2, s3, t1

MCSessions == {a1, a2}
MCSurfaceOrder == <<s1, s2, s3>>
MCOwner == (s1 :> a1) @@ (s2 :> a1) @@ (s3 :> a2)
MCThreads == {t1}

=============================================================================
