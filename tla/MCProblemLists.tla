----------------------------- MODULE MCProblemLists -----------------------------
(* The lists for TLC: three public problems, two of them with one title and  *)
(* one of them of another difficulty, and one that can be created.           *)
EXTENDS ProblemLists

MCKind ==
    [id \in Problems |->
        [text |-> "", difficulty |-> IF id = 2 THEN "HARD" ELSE "EASY", language |-> "language",
         codeMode |-> ""]]

MCTitle == [id \in Problems |-> IF id = 1 THEN 2 ELSE 1]
=============================================================================
