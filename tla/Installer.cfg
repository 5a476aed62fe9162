CONSTANT MaxSetups = 3
SPECIFICATION Spec
INVARIANTS
    StoredSecretsStayReadable
PROPERTY SetupsKeepTheirWord
