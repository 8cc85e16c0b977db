------------------------------- MODULE MCRefile -------------------------------
(* Fiction and Fantasy share a folder and a notebook, poetry shares the       *)
(* folder only, history has its own.                                          *)
EXTENDS Refile
Categories == {"fiction", "fantasy", "poetry", "history"}
Folders4 == [c \in Categories |-> IF c = "history" THEN "History" ELSE "Fiction"]
Notebooks4 ==
  [c \in Categories |->
    CASE c = "history" -> "historical" [] c = "poetry" -> "verse" [] OTHER -> "Fictional"]
=============================================================================
