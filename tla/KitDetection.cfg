SPECIFICATION Spec
CONSTANTS
  Sandboxes = {s1, s2}
  NoSandbox = NoSandbox
  Installs = 2
  Posts = 1
INVARIANT DetectedBeforeProvision
