\* A directory the caller named, the variable and a walk of at most two
\* directories up, with a clone and two removals under way.
SPECIFICATION Spec
CONSTANTS
  MaxWalk = 2
  MaxDepth = 3
  EnvPlace = EnvPlace
  DirPlace = DirPlace
  Cloning <- MCCloning
  Removing <- MCRemoving
  Still <- MCStill
INVARIANTS IInv LocatedWasGenuine WalkIsComplete NearestSteady NamedIsAuthoritative
\* A call of RequireDonmaiBinary returns or fails, and then nothing follows.
CHECK_DEADLOCK FALSE
