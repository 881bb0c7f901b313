CONSTANTS
  Proc = {p1, p2}
  Version <- MCVersion
  SystemLibs <- MCSystem
SPECIFICATION Spec
SYMMETRY Symmetry
VIEW View
INVARIANTS TypeOK IdentitySticks OneLibrary InstallsLast ListenerCollects
