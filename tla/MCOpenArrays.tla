----------------------------- MODULE MCOpenArrays -----------------------------
(* Instances of OpenArrays: who calls what, from which context and process.   *)
EXTENDS OpenArraysRWLock, TLC

CONSTANTS r1, r2, v1, c1, c2, p1, p2

\* One context reads and vacuums; another process reads the same array.
Apart_ContextOf == (r1 :> c1 @@ r2 :> c2 @@ v1 :> c1)
Apart_ProcessOf == (c1 :> p1 @@ c2 :> p2)

\* Two contexts of one process, one of which reads and vacuums.
Together_ContextOf == (r1 :> c1 @@ r2 :> c2 @@ v1 :> c1)
Together_ProcessOf == (c1 :> p1 @@ c2 :> p1)

===============================================================================
