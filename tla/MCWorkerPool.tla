---------------------------- MODULE MCWorkerPool ----------------------------
(* Instances of WorkerPool: one or two callbacks, each of a program of its *)
(* own.                                                                    *)
EXTENDS WorkerPool, TLC

CONSTANTS c1, c2, p1, p2

OneCallback == {c1}
OneProgram == {p1}
OneProgramOf == c1 :> p1

TwoCallbacks == {c1, c2}
TwoPrograms == {p1, p2}
TwoProgramOf == (c1 :> p1) @@ (c2 :> p2)

\* A permutation of the callbacks, with their programs permuted alike.
ProgramSymmetry ==
  {[x \in Callbacks \union Programs |->
      IF x \in Callbacks THEN s[x]
      ELSE ProgramOf[s[CHOOSE c \in Callbacks : ProgramOf[c] = x]]] :
     s \in Permutations(Callbacks)}
=============================================================================
