------------------------- MODULE MCShadowPublication -------------------------
(* Plans for TLC: a directory d (1), a file d/f in it (2), a file g (3).     *)
EXTENDS ShadowPublication, TLC

MCParent == 1 :> 0 @@ 2 :> 1 @@ 3 :> 0

Folder(d, f, g) == <<d, f, g>>
Plan(base, goal, hidden) == [base |-> base, goal |-> goal, hidden |-> hidden]

D == Directory("default")
Edited   == Plan(Folder(D, File("old"), Absent), Folder(D, File("new"), File("new")), {})
Removed  == Plan(Folder(D, File("old"), File("old")), Folder(Absent, Absent, File("old")), {})
KeptBack == Plan(Folder(D, Absent, File("old")), Folder(Absent, Absent, File("new")), {2})
Created  == Plan(Folder(Absent, Absent, File("old")),
                 Folder(Directory("private"), File("new"), File("old")), {})
Turned   == Plan(Folder(D, Absent, File("old")), Folder(D, Absent, D), {})

AllPlans   == {Edited, Removed, KeptBack, Created, Turned}
OnePlan    == {Edited}
Symmetry   == Permutations(Publishers)
=============================================================================
