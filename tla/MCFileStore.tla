----------------------------- MODULE MCFileStore -----------------------------
(* Values of the constants of FileStore for model checking.                *)
EXTENDS FileStore

CONSTANTS h1, h2, h3, f1

ThreeHandlers == {h1, h2, h3}
OneFile == {f1}

Everything == EnvironmentKinds \ {"overtake"}
=============================================================================
