\* Patches of every section, some of them not well formed, with numbers in short and long form.
CONSTANTS
  Contents <- Sections
  Bridge <- Linked
  PageBytes = 128
  Avoid = {"dataCount", "start", "empty", "descending", "alias", "shadow", "early", "before"}
SPECIFICATION Spec
INVARIANTS NoPatchRefused ExportsAreFound FunctionsMatch InstanceMatches
CHECK_DEADLOCK FALSE
