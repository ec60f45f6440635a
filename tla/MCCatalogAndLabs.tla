--------------------------- MODULE MCCatalogAndLabs ---------------------------
(* Small instances, one at a time, of the checks of the catalog (the search *)
(* for cycles, the learning paths) and of the programs of the labs.         *)
EXTENDS Prerequisites, LearningPaths, DemoApi, LabRunner

VARIABLE part  \* what a behaviour is about; the others stay as they are

CyclesRest ==
  /\ prerequisites = [a \in Articles |-> {}]
  /\ waiting = Articles
  /\ trail = <<>>
  /\ visiting = {} /\ visited = {} /\ cycles = {}
LibraryRest ==
  /\ \E p \in Paths : pathOf = [m \in Modules |-> p]
  /\ order = [m \in Modules |-> 1]
  /\ articleIds = [m \in Modules |-> <<>>]
  /\ memberships = [a \in CatalogArticles |-> <<>>]
  /\ served = "no"
LabRest ==
  /\ cluster = "none" /\ at = "check" /\ cleanup = FALSE
  /\ createdByRunner = FALSE /\ blind = FALSE /\ failed = FALSE

CatalogAndLabsInit ==
  \/ part = "cycles" /\ CycleInit /\ LibraryRest /\ DemoInit /\ LabRest
  \/ part = "paths" /\ CyclesRest /\ LibraryInit /\ DemoInit /\ LabRest
  \/ part = "demo" /\ CyclesRest /\ LibraryRest /\ DemoInit /\ LabRest
  \/ part = "lab" /\ CyclesRest /\ LibraryRest /\ DemoInit /\ LabInit

CatalogAndLabsNext ==
  \/ part = "cycles" /\ CycleNext /\ UNCHANGED <<part, catalogVars, demoVars, labVars>>
  \/ part = "paths" /\ LibraryNext /\ UNCHANGED <<part, searchVars, demoVars, labVars>>
  \/ part = "demo" /\ DemoNext /\ UNCHANGED <<part, searchVars, catalogVars, labVars>>
  \/ part = "lab" /\ LabNext /\ UNCHANGED <<part, searchVars, catalogVars, demoVars>>

CatalogAndLabsSpec ==
  CatalogAndLabsInit
    /\ [][CatalogAndLabsNext]_<<part, searchVars, catalogVars, demoVars, labVars>>
=============================================================================
