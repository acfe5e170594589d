SPECIFICATION JsonSpec
CONSTANT MaxVer = 3
INVARIANT QuitSaves
